----------------------------- MODULE MCHelpers -----------------------------
(***************************************************************************)
(* The helper classes: NetAwakeBridge, LockQueue, MySQLWrap, MySQLResult,  *)
(* the Read functions of LuaWrap, TimeUtil, DataUtil, and the texts of     *)
(* HttpServer.  They share no state, so that one run looks at them side by *)
(* side: part says which one a behaviour is about, and the others stay as  *)
(* they are.                                                               *)
(***************************************************************************)
EXTENDS MCLockQueue, MCMySQLWrap, MySQLResult, LuaConfig, TimeUtil, DataUtil,
        HttpText, NetAwakeBridge

VARIABLE part

partVars == << vars, mysqlVars, resultVars, luaReadVars, timeVars, dataVars, textVars,
               bridgeVars, part >>

HelpersInit ==
    /\ part \in {"queue", "mysql", "result", "config", "time", "data", "text", "bridge"}
    /\ Init /\ MySQLInit /\ ResultInit /\ LuaConfigInit /\ TimeInit /\ DataInit /\ TextInit
    /\ BridgeInit
    /\ part # "time" => platform = "linux"
    /\ part # "data" => src[1] = 0

HelpersNext ==
    /\ \/ /\ part = "queue" /\ Next
          /\ UNCHANGED << mysqlVars, resultVars, luaReadVars, timeVars, dataVars, textVars, bridgeVars >>
       \/ /\ part = "mysql" /\ MySQLNext
          /\ UNCHANGED << vars, resultVars, luaReadVars, timeVars, dataVars, textVars, bridgeVars >>
       \/ /\ part = "result" /\ ResultNext
          /\ UNCHANGED << vars, mysqlVars, luaReadVars, timeVars, dataVars, textVars, bridgeVars >>
       \/ /\ part = "config" /\ LuaConfigNext
          /\ UNCHANGED << vars, mysqlVars, resultVars, timeVars, dataVars, textVars, bridgeVars >>
       \/ /\ part = "time" /\ TimeNext
          /\ UNCHANGED << vars, mysqlVars, resultVars, luaReadVars, dataVars, textVars, bridgeVars >>
       \/ /\ part = "data" /\ DataNext
          /\ UNCHANGED << vars, mysqlVars, resultVars, luaReadVars, timeVars, textVars, bridgeVars >>
       \/ /\ part = "text" /\ TextNext
          /\ UNCHANGED << vars, mysqlVars, resultVars, luaReadVars, timeVars, dataVars, bridgeVars >>
       \/ /\ part = "bridge" /\ BridgeNext
          /\ UNCHANGED << vars, mysqlVars, resultVars, luaReadVars, timeVars, dataVars, textVars >>
    /\ UNCHANGED part

\* The fairness of LockQueue and NetAwakeBridge; the other parts need none.
HelpersSpec ==
    /\ HelpersInit /\ [][HelpersNext]_partVars
    /\ \A t \in Threads : WF_vars(part = "queue" /\ Going /\ Step(t))
    /\ WF_bridgeVars(part = "bridge" /\ NotifySend)
    /\ WF_bridgeVars(part = "bridge" /\ Accept)
    /\ WF_bridgeVars(part = "bridge" /\ ReadBridge)
    /\ WF_bridgeVars(part = "bridge" /\ CheckRecvPackage)

----------------------------------------------------------------------------
\* Two columns of one name, NULLs, and results of no, one and three rows.
MCNullColumn == -1
MCFieldNames == << "id", "ip", "id" >>
MCTables == { << >>, << << 1, -1, 2 >> >>, << << -1, 3, 1 >>, << 4, 5, -1 >>, << 6, 7, 8 >> >> }

\* One field of each type, numbers at and beyond the ends of what each type holds,
\* arrays of several lengths, and a field that is missing.
MCNumbers == [one |-> 2, half |-> 3, minus |-> -3, float |-> 5, int |-> 10, double |-> 13, long |-> -24]
MCConfig == [name \in LuaNames |->
    CASE name = "on" -> Lua("boolean", TRUE) [] name = "off" -> Lua("boolean", FALSE)
      [] name \in DOMAIN MCNumbers -> Lua("number", MCNumbers[name])
      [] name = "digits" -> Lua("numeral", 4)
      [] name = "ip" -> Lua("string", << 1, 2 >>) [] name = "nul" -> Lua("string", << 1, 0, 2 >>)
      [] name = "ports" -> Lua("table", << Lua("number", 2), Lua("number", 4), Lua("number", 2) >>)
      [] name = "hosts" -> Lua("table", << Lua("string", << 1 >>), Lua("string", << >>) >>)
      [] name = "mixed" -> Lua("table", << Lua("string", << 1 >>), Lua("boolean", TRUE) >>)
      [] name = "empty" -> Lua("table", << >>)
      [] name = "missing" -> Nil]

Field(kind, n, value) == [kind |-> kind, n |-> n, value |-> value]

\* The ends of each integer type, and texts that are empty, too long, or hold a NUL.
MCFields ==
    {Field("uint", 1, x) : x \in {0, 3}} \cup {Field("uint", 2, x) : x \in {1, 15}} \cup
    {Field("int", 1, x) : x \in {-2, 1}} \cup {Field("int", 2, x) : x \in {-8, 6}} \cup
    {Field("float", 1, << 3 >>), Field("double", 2, << 1, 2 >>)} \cup
    {Field("string", n, s) : n \in {0, 2, 3}, s \in {<< >>, << 2, 1 >>, << 1, 0, 3 >>, << 1, 2, 3 >>}}

MCNames == {<< >>, << "a" >>, << "a", "?" >>, << "b" >>, << "=" >>}
MCValues == {<< >>, << "x" >>, << "=", "x" >>, << "?", "=" >>, << "&" >>}
MCHttpPaths == {<< "/" >>, << "/", "a" >>, << "/", "=", "&" >>}
============================================================================
