------------------------------ MODULE LuaWrap ------------------------------
(***************************************************************************)
(* LuaWrap's one Lua state: made by the first call of GetLuaState, closed  *)
(* by ReleaseLua, which NetServer::Stop calls and, when the process ends,  *)
(* the destructor of a static object.  Whether it was made is kept in a    *)
(* flag of its own, which ReleaseLua does not touch.                       *)
(***************************************************************************)
VARIABLES
    LuaState,  \* "NULL" or "open"
    init       \* the static local of GetLuaState

luaVars == << LuaState, init >>

LuaInit == LuaState = "NULL" /\ init = FALSE

GetLuaState ==
    /\ init' = TRUE
    /\ LuaState' = IF init THEN LuaState ELSE "open"

ReleaseLua ==
    /\ LuaState' = "NULL"
    /\ UNCHANGED init
============================================================================
