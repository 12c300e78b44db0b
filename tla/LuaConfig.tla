----------------------------- MODULE LuaConfig -----------------------------
(***************************************************************************)
(* LuaWrap's Read functions, with which a configuration class reads the    *)
(* fields of the table on top of the Lua stack: ReadBool, ReadInt and its  *)
(* kin, ReadString, and their array forms, which walk over a table with    *)
(* lua_next.  Lua is external: its stack, its tables and its conversions.  *)
(***************************************************************************)
EXTENDS Integers, Sequences

CONSTANTS
    LuaNames,   \* field names
    Config,     \* field name -> Lua value
    Fraction,   \* numbers are in steps of 1/Fraction, so that Fraction is one
    IntLimit,   \* the largest int
    LongLimit,  \* the largest Int64
    FloatLimit, \* numbers up to here are exact in a float
    ExactLimit  \* numbers up to here are exact in a double

Lua(type, val) == [type |-> type, val |-> val]

LuaTypes == {"nil", "boolean", "number", "numeral", "string", "table"}

\* A Lua value is [type, val].  A numeral is the text of the number val, a string
\* any other text, as its characters; the val of a table is a function of its keys.
LuaValue(x) ==
    /\ x = Lua(x.type, x.val)
    /\ x.type \in LuaTypes
    /\ x.type = "boolean" => x.val \in BOOLEAN
    /\ x.type \in {"number", "numeral"} => x.val \in Int

\* No field has the empty name; it stands for no call yet.
ASSUME LimitsAssumption ==
    /\ Fraction \in Nat \ {0}
    /\ IntLimit \in Nat /\ LongLimit \in Nat /\ FloatLimit \in Nat /\ ExactLimit \in Nat

ASSUME ConfigAssumption ==
    /\ "" \notin LuaNames
    /\ \A name \in LuaNames :
         /\ LuaValue(Config[name])
         /\ Config[name].type = "table" =>
              \A key \in DOMAIN Config[name].val : LuaValue(Config[name].val[key])

\* One for each of the functions ReadBool, ReadInt ... and their array forms.
Kinds == {"Bool", "Int", "Long", "Float", "Double", "String"}

VARIABLES
    L,       \* the Lua stack, its top last
    at,      \* "idle", "next" (in an array) or "crashed"
    read,    \* the last call: its kind and name and whether it reads an array
    visited, \* the keys lua_next has been at in this array
    v        \* the values read

luaReadVars == << L, at, read, visited, v >>

Nil == Lua("nil", 0)

TheTable == Lua("table", Config)

LuaConfigInit ==
    /\ L = << TheTable >>
    /\ at = "idle"
    /\ read = [kind |-> "Bool", name |-> "", array |-> FALSE]
    /\ visited = << >>
    /\ v = << >>
----------------------------------------------------------------------------
Top == L[Len(L)]

LuaPop(s, n) == SubSeq(s, 1, Len(s) - n)

\* lua_pushstring(L, name); lua_gettable(L, -2)
GetField(name) == Append(L, Top.val[name])

Abs(n) == IF n < 0 THEN -n ELSE n

\* How far apart a floating point type's numbers are at n: 1, 2, 4 ...
Spacing(n, limit) ==
    LET k == CHOOSE k \in 0 .. Abs(n) :
               Abs(n) <= limit * 2 ^ k /\ \A j \in 0 .. k - 1 : Abs(n) > limit * 2 ^ j
    IN  2 ^ k

\* The nearest of them, of two the one with an even mantissa.
Round(n, limit) ==
    IF Abs(n) <= limit THEN n
    ELSE LET s == Spacing(n, limit)
             q == n \div s
             r == 2 * (n % s)
         IN  IF r < s \/ (r = s /\ q % 2 = 0) THEN q * s ELSE (q + 1) * s

\* A cast to a whole number drops the fraction.
Truncate(n) == IF n < 0 THEN -((-n) - ((-n) % Fraction)) ELSE n - (n % Fraction)

InRange(n, limit) == -limit - Fraction <= n /\ n <= limit

\* What does not fit the type casts to any of its values: that is undefined.
CastTo(n, limit) ==
    IF InRange(Truncate(n), limit) THEN {Truncate(n)}
    ELSE {m \in -limit - Fraction .. limit : m % Fraction = 0}

\* lua_tonumber: a double, from a number or its text, 0 from anything else.
ToNumber(x) == IF x.type \in {"number", "numeral"} THEN Round(x.val, ExactLimit) ELSE 0

IsNull(kind, x) == kind = "String" /\ x.type \notin {"string", "number", "numeral"}

\* std::string takes the characters up to the first NUL.
CString(s) ==
    IF \E i \in DOMAIN s : s[i] = 0
    THEN SubSeq(s, 1, (CHOOSE i \in DOMAIN s : s[i] = 0 /\ \A j \in 1 .. i - 1 : s[j] # 0) - 1)
    ELSE s

\* lua_tostring: NULL for what is no text, a number gives its own.
ToText(x) ==
    CASE x.type = "string" -> Lua("string", CString(x.val))
      [] x.type \in {"number", "numeral"} -> Lua("numeral", x.val)
      [] OTHER -> Nil

\* The conversion and cast of each Read function, with its possible results.
Convert(kind, x) ==
    CASE kind = "Bool" -> {Lua("boolean", ~(x.type = "nil" \/ (x.type = "boolean" /\ ~x.val)))}
      [] kind = "Int" -> {Lua("number", n) : n \in CastTo(ToNumber(x), IntLimit)}
      [] kind = "Long" -> {Lua("number", n) : n \in CastTo(ToNumber(x), LongLimit)}
      [] kind = "Float" -> {Lua("number", Round(ToNumber(x), FloatLimit))}
      [] kind = "Double" -> {Lua("number", ToNumber(x))}
      [] kind = "String" -> {ToText(x)}

\* ReadBool, ReadInt, ReadLong, ReadFloat, ReadDouble, ReadString.
ReadField(kind, name) ==
    /\ at = "idle"
    /\ read' = [kind |-> kind, name |-> name, array |-> FALSE]
    /\ LET s == GetField(name)
       IN  /\ \E x \in Convert(kind, s[Len(s)]) : v' = << x >>
           /\ L' = LuaPop(s, 1)
           /\ at' = IF IsNull(kind, s[Len(s)]) THEN "crashed" ELSE "idle"
    /\ visited' = << >>

\* Mutant of Cleared: v keeps what it held.
ClearedNot == v

\* v.clear()
Cleared == << >>

\* The array forms up to the loop: the field and a first key of nil are pushed.
ReadArray(kind, name) ==
    /\ at = "idle"
    /\ read' = [kind |-> kind, name |-> name, array |-> TRUE]
    /\ v' = Cleared
    /\ visited' = << >>
    /\ L' = Append(GetField(name), Nil)
    /\ at' = "next"

\* Mutant of Leftover: the table the array was in stays on the stack.
LeftoverTable == LuaPop(L, 1)

\* lua_next has taken the last key; lua_pop takes the table.
Leftover == LuaPop(L, 2)

\* lua_next goes on to a key it has not been at, in no order one may rely on; on a
\* value that is no table it ends the process (no protected call).
LuaNext ==
    /\ at = "next"
    /\ LET table == L[Len(L) - 1]
           keys == IF table.type = "table"
                   THEN DOMAIN table.val \ {visited[i] : i \in DOMAIN visited} ELSE {}
       IN  \/ table.type # "table" /\ at' = "crashed" /\ UNCHANGED << L, v, visited >>
           \/ /\ table.type = "table" /\ keys = {}
              /\ at' = "idle" /\ L' = Leftover /\ visited' = << >>
              /\ UNCHANGED v
           \/ \E key \in keys : \E x \in Convert(read.kind, table.val[key]) :
                /\ v' = Append(v, x)
                /\ visited' = Append(visited, key)
                /\ L' = Append(LuaPop(L, 1), Lua("key", key))
                /\ at' = IF IsNull(read.kind, table.val[key]) THEN "crashed" ELSE "next"
    /\ UNCHANGED read

LuaConfigNext ==
    \/ \E kind \in Kinds, name \in LuaNames : ReadField(kind, name) \/ ReadArray(kind, name)
    \/ LuaNext
    \/ at = "crashed" /\ UNCHANGED luaReadVars

LuaConfigSpec == LuaConfigInit /\ [][LuaConfigNext]_luaReadVars
----------------------------------------------------------------------------
(***************************************************************************)
(* "The stack is unchanged after the call": whatever was read, and however *)
(* many elements an array had, the table is on top again for the next      *)
(* Read, and nothing was left under it.                                    *)
(***************************************************************************)
StackKept == at = "idle" => L = << TheTable >>

\* The values a type has room for: a call is to give them back as they are.
Fits(kind, x) ==
    CASE kind = "Bool" -> x.type = "boolean"
      [] kind = "String" -> x.type = "numeral" \/ (x.type = "string" /\ CString(x.val) = x.val)
      [] OTHER ->
           /\ x.type = "number" /\ Abs(x.val) <= ExactLimit
           /\ kind \in {"Int", "Long"} => Truncate(x.val) = x.val
           /\ kind = "Int" => InRange(x.val, IntLimit)
           /\ kind = "Long" => InRange(x.val, LongLimit)
           /\ kind = "Float" => Abs(x.val) <= FloatLimit

\* What a call reads: the field itself, or the elements of the array, by their keys.
FieldOf(name) == IF name \in LuaNames THEN Config[name] ELSE Nil

Elements(name, array) ==
    IF ~array THEN << FieldOf(name) >>
    ELSE IF FieldOf(name).type = "table" THEN FieldOf(name).val ELSE << >>

\* The values are the elements, each once, in some order.
EachOnce(values, elements) ==
    \E order \in [DOMAIN values -> DOMAIN elements] :
      /\ \A i, j \in DOMAIN values : order[i] = order[j] => i = j
      /\ \A key \in DOMAIN elements : \E i \in DOMAIN values : order[i] = key
      /\ \A i \in DOMAIN values : values[i] = elements[order[i]]

(***************************************************************************)
(* What fits the type that is asked for is read as it stands in the        *)
(* configuration: whole numbers within the type's range and not beyond     *)
(* what a double (a float) holds exactly, texts without a NUL; an array    *)
(* with all its elements, each once, in whatever order, also after other   *)
(* calls.  And the process ends only over an array or a text that is not   *)
(* there.                                                                  *)
(***************************************************************************)
ConfigRead ==
    LET elements == Elements(read.name, read.array)
        fit == \A key \in DOMAIN elements : Fits(read.kind, elements[key])
    IN  /\ at = "idle" /\ read.name \in LuaNames /\ fit => EachOnce(v, elements)
        /\ at = "crashed" =>
             \/ read.array /\ FieldOf(read.name).type # "table"
             \/ \E key \in DOMAIN elements : IsNull(read.kind, elements[key])
============================================================================
