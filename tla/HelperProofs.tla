---------------------------- MODULE HelperProofs ----------------------------
(***************************************************************************)
(* Theorems about the helper classes MySQLWrap, MySQLResult, the Read      *)
(* functions of LuaWrap and TimeUtil: for every set of statements, table,  *)
(* configuration and tick, and any number of calls.                        *)
(***************************************************************************)
EXTENDS MySQLWrap, MySQLResult, LuaConfig, TimeUtil, SequenceTheorems, WellFoundedInduction, TLAPS

(***************************************************************************)
(* MySQLWrap.  A result set stays unstored only after Execute, so that     *)
(* ClearResult gets the connection back in step unless Execute left one.   *)
(***************************************************************************)
InStepUnlessUnread ==
    /\ unstored # 0 => unread
    /\ ClearedBefore
    /\ OwnRows

LEMMA InStepInit == MySQLInit => InStepUnlessUnread
BY DEF MySQLInit, InStepUnlessUnread, ClearedBefore, OwnRows

LEMMA InStepNext == InStepUnlessUnread /\ [MySQLNext]_mysqlVars => InStepUnlessUnread'
<1> SUFFICES ASSUME InStepUnlessUnread, [MySQLNext]_mysqlVars PROVE InStepUnlessUnread'
  OBVIOUS
<1> USE DEF InStepUnlessUnread, ClearedBefore, OwnRows
<1>1. CASE Connect \/ Disconnect \/ Lose
  BY <1>1 DEF Connect, Disconnect, Lose
<1>2. ASSUME NEW s \in Statements, Execute(s) PROVE InStepUnlessUnread'
  <2>1. CASE Succeeds(s)
    BY <1>2, <2>1 DEF Execute, Succeeds
  <2>2. CASE Fails /\ UNCHANGED unstored
    BY <1>2, <2>2 DEF Execute, Fails, Refuse, InStep, ClearResult
  <2> QED BY <1>2, <2>1, <2>2 DEF Execute
<1>3. ASSUME NEW s \in Statements, Query(s) PROVE InStepUnlessUnread'
  <2>1. CASE Succeeds(s) /\ Store(count + 1)
    BY <1>3, <2>1 DEF Query, Succeeds, Store
  <2>2. CASE unstored # 0 /\ Fails /\ Store(unstored)
    BY <1>3, <2>2 DEF Query, Fails, Refuse, InStep, ClearResult, Store
  <2>3. CASE unstored = 0 /\ Fails /\ UNCHANGED << unstored, result >>
    BY <1>3, <2>3 DEF Query, Fails, Refuse, InStep, ClearResult
  <2>4. CASE CrashesAfter(s)
    BY <1>3, <2>4 DEF Query, CrashesAfter
  <2> QED BY <1>3, <2>1, <2>2, <2>3, <2>4 DEF Query
<1>4. CASE StartTransaction
  BY <1>4 DEF StartTransaction, Command, Refuse, InStep, ClearResult
<1>5. ASSUME NEW ok \in BOOLEAN, EndTransaction(ok) PROVE InStepUnlessUnread'
  BY <1>5 DEF EndTransaction, Commit, RollBack, Command, Refuse
<1>6. CASE UNCHANGED mysqlVars
  BY <1>6 DEF mysqlVars
<1> QED BY <1>1, <1>2, <1>3, <1>4, <1>5, <1>6 DEF MySQLNext, MySQLEnd

(***************************************************************************)
(* Results a procedure left behind never get in the way of a later         *)
(* statement or START TRANSACTION; only a result set Execute left does.    *)
(***************************************************************************)
THEOREM ResultsCleared == MySQLSpec => []ClearedBefore
<1>1. InStepUnlessUnread => ClearedBefore
  BY DEF InStepUnlessUnread
<1> QED BY <1>1, InStepInit, InStepNext, PTL DEF MySQLSpec

(***************************************************************************)
(* A Query's MySQLResult holds the rows of that query unless Execute left  *)
(* a result set unstored.                                                  *)
(***************************************************************************)
THEOREM QueryGetsItsRows == MySQLSpec => []OwnRows
<1>1. InStepUnlessUnread => OwnRows
  BY DEF InStepUnlessUnread
<1> QED BY <1>1, InStepInit, InStepNext, PTL DEF MySQLSpec
----------------------------------------------------------------------------
\* Statements are known by their number: none that is to come is known yet.
Numbered ==
    /\ count \in Nat
    /\ work \cup stored \cup mine \cup kept \cup dropped \subseteq 1 .. count

(***************************************************************************)
(* While no START TRANSACTION, COMMIT or ROLLBACK was refused, the server  *)
(* and the program agree: a transaction is open exactly while the program  *)
(* is in one over a live session, and holds what the program wrote in it.  *)
(***************************************************************************)
Agreed ==
    /\ in_trans <=> in_program /\ session = "up"
    /\ work = IF in_trans THEN mine ELSE {}
    /\ in_program => session # "closed" /\ mine \cap stored = {}
    /\ in_program /\ session = "lost" => lost \/ mine = {}
    /\ dropped \cap (stored \cup mine) = {}
    /\ lost \/ kept \subseteq stored

Transactions == Numbered /\ (refused \cap {"start", "end"} = {} => Agreed)

LEMMA TransactionsInit == MySQLInit => Transactions
BY DEF MySQLInit, Transactions, Numbered, Agreed

LEMMA NumberedNext == Numbered /\ [MySQLNext]_mysqlVars => Numbered'
<1> SUFFICES ASSUME Numbered, [MySQLNext]_mysqlVars PROVE Numbered'
  OBVIOUS
<1> USE DEF Numbered, serverVars, programVars
<1>1. CASE Connect \/ Disconnect \/ Lose
  BY <1>1 DEF Connect, Disconnect, Lose, EndSession
<1>2. ASSUME NEW s \in Statements, Query(s) \/ Execute(s) PROVE Numbered'
  <2>1. count' = count + 1 /\ UNCHANGED << kept, dropped >>
    BY <1>2 DEF Query, Execute, StartMySQLQuery
  <2>2. CASE Succeeds(s)
    BY <2>1, <2>2 DEF Succeeds, WriteRow
  <2>3. CASE Fails /\ (UNCHANGED serverVars \/ EndSession)
    BY <2>1, <2>3 DEF Fails, EndSession
  <2>4. CASE CrashesAfter(s)
    BY <2>1, <2>4 DEF CrashesAfter
  <2> QED BY <1>2, <2>2, <2>3, <2>4 DEF Query, Execute
<1>3. CASE StartTransaction
  BY <1>3 DEF StartTransaction, Command, StartsTransaction
<1>4. ASSUME NEW ok \in BOOLEAN, EndTransaction(ok) PROVE Numbered'
  BY <1>4 DEF EndTransaction, Commit, RollBack, Command, Commits, RollsBack
<1>5. CASE UNCHANGED mysqlVars
  BY <1>5 DEF mysqlVars
<1> QED BY <1>1, <1>2, <1>3, <1>4, <1>5 DEF MySQLNext, MySQLEnd

LEMMA AgreedNext ==
    ASSUME Numbered, Agreed, [MySQLNext]_mysqlVars, refused' \cap {"start", "end"} = {}
    PROVE  Agreed'
<1> USE DEF Agreed, serverVars, programVars
<1>1. CASE Connect
  BY <1>1 DEF Connect
<1>2. CASE Disconnect
  BY <1>2 DEF Disconnect, Usable, EndSession
<1>3. CASE Lose
  BY <1>3 DEF Lose, EndSession
<1>4. ASSUME NEW s \in Statements, Query(s) \/ Execute(s) PROVE Agreed'
  <2>1. /\ count' = count + 1
        /\ UNCHANGED << in_program, kept, dropped, lost >>
    BY <1>4 DEF Query, Execute, StartMySQLQuery
  <2>2. CASE Succeeds(s)
    <3>1. PICK n \in SUBSET {count + 1} : WriteRow(n)
      BY <2>2 DEF Succeeds
    <3>2. n \cap (stored \cup mine \cup dropped) = {}
      BY <3>1 DEF Numbered
    <3> QED BY <2>1, <2>2, <3>1, <3>2 DEF Succeeds, WriteRow
  <2>3. CASE Fails /\ UNCHANGED << serverVars, session >>
    BY <2>1, <2>3 DEF Fails
  <2>4. CASE Fails /\ EndSession /\ session' = "crashed"
    BY <2>1, <2>4 DEF Fails, EndSession
  <2>5. CASE CrashesAfter(s)
    <3>1. count + 1 \notin dropped \cup mine
      BY DEF Numbered
    <3>2. stored' \in {stored, stored \cup {count + 1}} /\ (in_trans => stored' = stored)
      BY <2>5 DEF CrashesAfter
    <3> QED BY <2>1, <2>5, <3>1, <3>2 DEF CrashesAfter
  <2> QED BY <1>4, <2>2, <2>3, <2>4, <2>5 DEF Query, Execute
<1>5. CASE StartTransaction
  <2>1. InStep(ClearResult)
    BY <1>5 DEF StartTransaction, Command, Refuse
  <2> QED BY <1>5, <2>1 DEF StartTransaction, Command, StartsTransaction, Usable
<1>6. ASSUME NEW ok \in BOOLEAN, EndTransaction(ok) PROVE Agreed'
  <2>1. InStep(follow)
    BY <1>6 DEF EndTransaction, Commit, RollBack, Command, Refuse
  <2>2. CASE ok
    BY <1>6, <2>1, <2>2 DEF EndTransaction, Commit, Command, Commits, Usable
  <2>3. CASE ~ok
    BY <1>6, <2>1, <2>3 DEF EndTransaction, RollBack, Command, RollsBack, Usable
  <2> QED BY <2>2, <2>3
<1>7. CASE UNCHANGED mysqlVars
  BY <1>7 DEF mysqlVars
<1> QED BY <1>1, <1>2, <1>3, <1>4, <1>5, <1>6, <1>7 DEF MySQLNext, MySQLEnd

\* What was refused stays so, whatever the step.
LEMMA RefusedGrows == [MySQLNext]_mysqlVars => refused \subseteq refused'
BY DEF MySQLNext, mysqlVars, Connect, Disconnect, Lose, Query, Execute, Succeeds, Fails, CrashesAfter, StartTransaction,
       EndTransaction, Commit, RollBack, Command, Refuse, MySQLEnd

(***************************************************************************)
(* Unless START TRANSACTION, COMMIT or ROLLBACK was refused, what was      *)
(* rolled back is never stored, and what was ended well is stored unless   *)
(* the server went away; for every set of statements and any number.       *)
(***************************************************************************)
THEOREM TransactionsKept == MySQLSpec => []TransactionsHold
<1>1. Transactions /\ [MySQLNext]_mysqlVars => Transactions'
  BY NumberedNext, AgreedNext, RefusedGrows DEF Transactions
<1>2. Transactions => TransactionsHold
  BY DEF Transactions, Agreed, TransactionsHold
<1> QED BY <1>1, <1>2, TransactionsInit, PTL DEF MySQLSpec
----------------------------------------------------------------------------
(* MySQLResult.                                                            *)

\* Every name of a column has a first column of that name.
First(name, i) ==
    /\ i \in DOMAIN FieldNames
    /\ FieldNames[i] = name
    /\ \A j \in 1 .. i - 1 : FieldNames[j] # name

LEMMA SmallestIndex ==
    ASSUME NEW T \in SUBSET Nat, T # {}
    PROVE  \E i \in T : \A j \in T : ~(j < i)
<1>1. PICK R : R = OpToRel(<, Nat)
  OBVIOUS
<1>2. \A i, j \in Nat : << j, i >> \in R <=> j < i
  BY <1>1 DEF OpToRel
<1>3. \E i \in T : \A j \in T : ~(<< j, i >> \in R)
  BY <1>1, NatLessThanWellFounded, WFMin
<1> QED BY <1>2, <1>3

LEMMA FieldIndexes == DOMAIN FieldNames = 1 .. Len(FieldNames) /\ Len(FieldNames) \in Nat
<1>1. PICK S : FieldNames \in Seq(S)
  BY ResultAssumption, Zenon
<1> QED BY <1>1

LEMMA FirstIndex ==
    ASSUME NEW name \in Columns
    PROVE  First(name, Indexes[name])
<1>1. PICK T : T = {i \in DOMAIN FieldNames : FieldNames[i] = name}
  OBVIOUS
<1>2. T # {} /\ T \in SUBSET Nat
  BY <1>1, FieldIndexes DEF Columns
<1>3. PICK i \in T : \A j \in T : ~(j < i)
  BY <1>2, SmallestIndex
<1>4. First(name, i)
  BY <1>1, <1>3, FieldIndexes DEF First
<1>5. Indexes[name] = CHOOSE k \in DOMAIN FieldNames :
                         FieldNames[k] = name /\ \A j \in 1 .. k - 1 : FieldNames[j] # name
  BY Zenon DEF Indexes
<1> QED BY <1>4, <1>5, Zenon DEF First

\* The row the cursor is at is there, and m_CurRecord and the last answer go with it.
AtRow ==
    /\ Len(m_Result) \in Nat /\ cursor \in 0 .. Len(m_Result)
    /\ m_CurRecord \in {0, cursor}
    /\ m_Result = NoResult => cursor = 0
    /\ m_Result # NoResult => m_NameToIndex = Indexes
    /\ column # NoValue => m_CurRecord # 0

Answered == more \in BOOLEAN /\ (more <=> m_CurRecord # 0)

ResultInv == AtRow /\ Answered /\ ReadsEveryRow

LEMMA ResultInvInit == ResultInit => ResultInv
<1>1. Len(NoResult) \in Nat
  BY DEF NoResult
<1>2. ResultInit => AtRow
  BY <1>1 DEF ResultInit, AtRow
<1>3. ResultInit => ReadsEveryRow
  BY DEF ResultInit, ReadsEveryRow
<1>4. ResultInit => Answered
  BY DEF ResultInit, Answered
<1> QED BY <1>2, <1>3, <1>4 DEF ResultInv

LEMMA ResultInvNext == ResultInv /\ [ResultNext]_resultVars => ResultInv'
<1> SUFFICES ASSUME ResultInv, [ResultNext]_resultVars PROVE ResultInv'
  OBVIOUS
<1> USE DEF ResultInv
<1>1. ASSUME NEW rows \in Tables, SetResult(rows) PROVE ResultInv'
  <2>1. Len(rows) \in Nat
    <3>1. PICK S : rows \in Seq(S)
      BY ResultAssumption, Zenon
    <3> QED BY <3>1
  <2>2. column = NoValue /\ more = FALSE
    BY <1>1 DEF SetResult, AtRow, Answered
  <2> QED BY <1>1, <2>1, <2>2 DEF SetResult, AtRow, ReadsEveryRow, Answered
<1>2. CASE GetRecord
  <2>1. CASE m_Result = NoResult
    BY <1>2, <2>1 DEF GetRecord, AtRow, ReadsEveryRow, Answered
  <2>2. CASE m_Result # NoResult
    <3>1. AtRow'
      <4>1. Fetched \in {0, cursor + 1} /\ Fetched \in 0 .. Len(m_Result)
        BY DEF Fetched, AtRow
      <4>2. m_CurRecord' = Fetched /\ cursor' = IF Fetched = 0 THEN cursor ELSE Fetched
        BY <1>2, <2>2 DEF GetRecord
      <4>3. column' = NoValue /\ UNCHANGED << m_Result, m_NameToIndex >>
        BY <1>2 DEF GetRecord
      <4> QED BY <2>2, <4>1, <4>2, <4>3 DEF AtRow
    <3>2. ReadsEveryRow'
      <4>1. wild' => careless'
        BY <1>2 DEF GetRecord, ReadsEveryRow
      <4>2. column' = NoValue
        BY <1>2 DEF GetRecord
      <4>3. ~more' => cursor' = cursor /\ Fetched = 0
        BY <1>2, <2>2 DEF GetRecord
      <4>4. Fetched = 0 => cursor = Len(m_Result)
        BY DEF Fetched, AtRow
      <4>5. m_Result' = m_Result
        BY <1>2 DEF GetRecord
      <4> QED BY <4>1, <4>2, <4>3, <4>4, <4>5 DEF ReadsEveryRow
    <3>3. Answered'
      BY <1>2, <2>2 DEF GetRecord, Answered
    <3> QED BY <3>1, <3>2, <3>3
  <2> QED BY <2>1, <2>2
<1>3. ASSUME NEW name \in Columns \cup {"missing"}, Get(name) PROVE ResultInv'
  <2>1. UNCHANGED << m_Result, cursor, m_CurRecord, m_NameToIndex, more >>
    BY <1>3 DEF Get
  <2>2. careless' = (careless \/ ~more \/ name \notin Columns)
    BY <1>3 DEF Get
  <2>3. DOMAIN Indexes = Columns
    BY DEF Indexes
  <2>4. CASE m_CurRecord # 0 /\ GetIndex(name) # 0 /\ wild' = wild
             /\ column' = [name |-> name, got |-> Column(GetIndex(name))]
    <3>1. m_CurRecord = cursor /\ m_NameToIndex = Indexes
      BY <2>4 DEF AtRow
    <3>2. name \in Columns /\ GetIndex(name) = Indexes[name]
      BY <2>3, <2>4, <3>1 DEF GetIndex
    <3>3. First(name, GetIndex(name))
      BY <3>2, FirstIndex
    <3>4. column'.name = name /\ column'.got = Column(GetIndex(name))
      BY <2>4
    <3>5. AtRow' /\ Answered'
      BY <2>1, <2>4 DEF AtRow, Answered
    <3> QED BY <2>1, <2>2, <2>4, <3>1, <3>3, <3>4, <3>5 DEF ReadsEveryRow, First, Column
  <2>5. CASE (m_CurRecord = 0 \/ GetIndex(name) = 0) /\ wild' = TRUE /\ column' = column
    <3>1. careless'
      <4>1. CASE m_CurRecord = 0
        BY <2>2, <4>1 DEF Answered
      <4>2. CASE m_CurRecord # 0 /\ name \in Columns
        <5>1. m_NameToIndex = Indexes
          BY <4>2 DEF AtRow
        <5>2. GetIndex(name) = Indexes[name] /\ Indexes[name] # 0
          BY <2>3, <4>2, <5>1, FirstIndex, FieldIndexes DEF GetIndex, First
        <5> QED BY <2>5, <4>2, <5>2
      <4> QED BY <2>2, <4>1, <4>2
    <3> QED BY <2>1, <2>5, <3>1 DEF AtRow, ReadsEveryRow, Answered
  <2> QED BY <1>3, <2>4, <2>5 DEF Get
<1>4. CASE Clear
  <2>1. Len(NoResult) \in Nat
    BY DEF NoResult
  <2>2. AtRow'
    BY <1>4, <2>1 DEF Clear, AtRow
  <2>3. ReadsEveryRow'
    BY <1>4, <2>1 DEF Clear, ReadsEveryRow
  <2>4. Answered'
    BY <1>4 DEF Clear, Answered
  <2> QED BY <2>2, <2>3, <2>4
<1>5. CASE UNCHANGED resultVars
  BY <1>5 DEF resultVars, AtRow, ReadsEveryRow, Answered
<1> QED BY <1>1, <1>2, <1>3, <1>4, <1>5 DEF ResultNext

(***************************************************************************)
(* For any columns and rows: a caller who reads only after a GetRecord     *)
(* that returned true reads the first column of that name in the row it is *)
(* at, and when GetRecord ends the loop every row has been seen.           *)
(***************************************************************************)
THEOREM RowsRead == ResultSpec => []ReadsEveryRow
<1>1. ResultInv => ReadsEveryRow
  BY DEF ResultInv
<1> QED BY <1>1, ResultInvInit, ResultInvNext, PTL DEF ResultSpec
----------------------------------------------------------------------------
\* Sequences of one, two and three elements are tuples.
LEMMA Tuple1 ==
    ASSUME NEW S, NEW s \in Seq(S), Len(s) = 1
    PROVE  s = << s[1] >>
<1>1. s[1] \in S OBVIOUS
<1>2. << s[1] >> \in Seq(S) /\ Len(<< s[1] >>) = 1 /\ << s[1] >>[1] = s[1] BY <1>1
<1>3. \A i \in 1 .. 1 : i = 1 OBVIOUS
<1> QED BY <1>2, <1>3, SeqEqual

LEMMA Tuple2 ==
    ASSUME NEW S, NEW s \in Seq(S), Len(s) = 2
    PROVE  s = << s[1], s[2] >>
<1>1. s[1] \in S /\ s[2] \in S BY ElementOfSeq
<1>2. PICK t : t = << s[1], s[2] >> OBVIOUS
<1>3. t \in Seq(S) /\ Len(t) = 2 /\ t[1] = s[1] /\ t[2] = s[2] BY <1>1, <1>2
<1>4. \A i \in 1 .. 2 : i = 1 \/ i = 2 OBVIOUS
<1>5. s = t BY <1>3, <1>4, SeqEqual
<1> QED BY <1>2, <1>5

LEMMA Tuple3 ==
    ASSUME NEW S, NEW s \in Seq(S), Len(s) = 3
    PROVE  s = << s[1], s[2], s[3] >>
<1>1. s[1] \in S /\ s[2] \in S /\ s[3] \in S OBVIOUS
<1>2. PICK t : t = << s[1], s[2], s[3] >> OBVIOUS
<1>3. t \in Seq(S) /\ Len(t) = 3 /\ t[1] = s[1] /\ t[2] = s[2] /\ t[3] = s[3] BY <1>1, <1>2
<1>4. \A i \in 1 .. 3 : i = 1 \/ i = 2 \/ i = 3 OBVIOUS
<1>5. s = t BY <1>3, <1>4, SeqEqual
<1> QED BY <1>2, <1>5

\* What pushing onto and popping from the Lua stack makes of it.
LEMMA Push1 == ASSUME NEW a, NEW b PROVE Append(<< a >>, b) = << a, b >>
<1>1. PICK s : s = Append(<< a >>, b) OBVIOUS
<1>2. << a >> \in Seq({a, b}) OBVIOUS
<1>3. s \in Seq({a, b}) /\ Len(s) = 2 /\ s[1] = a /\ s[2] = b BY <1>1, <1>2
<1> QED BY <1>1, <1>3, Tuple2

LEMMA Push2 == ASSUME NEW a, NEW b, NEW c PROVE Append(<< a, b >>, c) = << a, b, c >>
<1>1. PICK s : s = Append(<< a, b >>, c) OBVIOUS
<1>2. << a, b >> \in Seq({a, b, c}) OBVIOUS
<1>3. s \in Seq({a, b, c}) /\ Len(s) = 3 /\ s[1] = a /\ s[2] = b /\ s[3] = c BY <1>1, <1>2
<1> QED BY <1>1, <1>3, Tuple3

LEMMA Popped ==
    ASSUME NEW a, NEW b, NEW c
    PROVE  /\ LuaPop(<< a, b >>, 1) = << a >>
           /\ LuaPop(<< a, b, c >>, 2) = << a >>
           /\ LuaPop(<< a, b, c >>, 1) = << a, b >>
<1>1. ASSUME NEW S, NEW t \in Seq(S), Len(t) \in {2, 3} PROVE SubSeq(t, 1, 1) = << t[1] >>
  <2>1. PICK s : s = SubSeq(t, 1, 1) OBVIOUS
  <2>2. \A i \in 1 .. 1 : t[i] \in S BY <1>1
  <2>3. s \in Seq(S) /\ Len(s) = 1 /\ s[1] = t[1] BY <2>1, <2>2, SubSeqProperties
  <2> QED BY <2>1, <2>3, Tuple1
<1>2. ASSUME NEW S, NEW t \in Seq(S), Len(t) = 3 PROVE SubSeq(t, 1, 2) = << t[1], t[2] >>
  <2>1. PICK s : s = SubSeq(t, 1, 2) OBVIOUS
  <2>2. \A i \in 1 .. 2 : t[i] \in S BY <1>2
  <2>3. s \in Seq(S) /\ Len(s) = 2 /\ s[1] = t[1] /\ s[2] = t[2] BY <2>1, <2>2, SubSeqProperties
  <2> QED BY <2>1, <2>3, Tuple2
<1>3. PICK s, t : s = << a, b >> /\ t = << a, b, c >> OBVIOUS
<1>4. s \in Seq({a, b, c}) /\ Len(s) = 2 /\ s[1] = a BY <1>3
<1>5. t \in Seq({a, b, c}) /\ Len(t) = 3 /\ t[1] = a /\ t[2] = b BY <1>3
<1>6. LuaPop(s, 1) = << a >> BY <1>1, <1>4 DEF LuaPop
<1>7. LuaPop(t, 2) = << a >> BY <1>1, <1>5 DEF LuaPop
<1>8. LuaPop(t, 1) = << a, b >> BY <1>2, <1>5 DEF LuaPop
<1> QED BY <1>3, <1>6, <1>7, <1>8

(***************************************************************************)
(* LuaWrap's Read functions.  In an array the stack holds the table, the   *)
(* array and the last key, and v what the elements visited convert to.     *)
(***************************************************************************)
Array == Config[read.name].val

Answers == UNION {Convert(read.kind, Array[key]) : key \in DOMAIN Array}

Visiting ==
    /\ visited \in Seq(DOMAIN Array) /\ v \in Seq(Answers) /\ Len(v) = Len(visited)
    /\ \A i, j \in 1 .. Len(visited) : visited[i] = visited[j] => i = j
    /\ \A i \in 1 .. Len(visited) : v[i] \in Convert(read.kind, Array[visited[i]])

InArray ==
    /\ read.array = TRUE /\ read.kind \in Kinds /\ read.name \in LuaNames
    /\ \E top : L = << TheTable, Config[read.name], top >>
    /\ Config[read.name].type = "table" => Visiting

Reading ==
    /\ at \in {"idle", "next", "crashed"}
    /\ StackKept
    /\ ConfigRead
    /\ at = "next" => InArray

\* A value that fits the type is converted to itself.
LEMMA CastFits ==
    ASSUME NEW n \in Int, NEW limit \in Nat, Abs(n) <= ExactLimit, Truncate(n) = n, InRange(n, limit)
    PROVE  CastTo(Round(n, ExactLimit), limit) = {n}
BY DEF CastTo, Round

LEMMA ConvertFits ==
    ASSUME NEW kind \in Kinds, NEW x, LuaValue(x), Fits(kind, x)
    PROVE  Convert(kind, x) = {x}
<1>1. x = Lua(x.type, x.val)
  BY DEF LuaValue
<1>2. CASE kind = "Bool"
  <2>1. x.type = "boolean" /\ x.val \in BOOLEAN
    BY <1>2 DEF LuaValue, Fits
  <2>2. Convert(kind, x) = {Lua("boolean", ~(x.type = "nil" \/ (x.type = "boolean" /\ ~x.val)))}
    BY <1>2 DEF Convert
  <2>3. (~(x.type = "nil" \/ (x.type = "boolean" /\ ~x.val))) = x.val
    BY <2>1
  <2> QED BY <1>1, <2>1, <2>2, <2>3
<1>3. CASE kind = "String"
  <2>1. Convert(kind, x) = {ToText(x)}
    BY <1>3 DEF Convert
  <2>2. CASE x.type = "numeral"
    BY <1>1, <2>1, <2>2 DEF ToText
  <2>3. CASE x.type = "string" /\ CString(x.val) = x.val
    <3>1. ToText(x) = Lua("string", CString(x.val))
      BY <2>3 DEF ToText
    <3> QED BY <1>1, <2>1, <2>3, <3>1
  <2> QED BY <1>3, <2>2, <2>3 DEF Fits
<1>4. CASE kind \in {"Int", "Long", "Float", "Double"}
  <2>1. x.type = "number" /\ x.val \in Int /\ Abs(x.val) <= ExactLimit
    BY <1>4 DEF LuaValue, Fits
  <2>2. ToNumber(x) = Round(x.val, ExactLimit) /\ Round(x.val, ExactLimit) = x.val
    BY <2>1 DEF ToNumber, Round
  <2>3. CASE kind = "Int"
    <3>1. Truncate(x.val) = x.val /\ InRange(x.val, IntLimit)
      BY <2>3 DEF Fits
    <3>2. CastTo(ToNumber(x), IntLimit) = {x.val}
      BY <2>1, <2>2, <3>1, CastFits, LimitsAssumption
    <3>3. Convert(kind, x) = {Lua("number", n) : n \in CastTo(ToNumber(x), IntLimit)}
      BY <2>3 DEF Convert
    <3> QED BY <1>1, <2>1, <3>2, <3>3
  <2>4. CASE kind = "Long"
    <3>1. Truncate(x.val) = x.val /\ InRange(x.val, LongLimit)
      BY <2>4 DEF Fits
    <3>2. CastTo(ToNumber(x), LongLimit) = {x.val}
      BY <2>1, <2>2, <3>1, CastFits, LimitsAssumption
    <3>3. Convert(kind, x) = {Lua("number", n) : n \in CastTo(ToNumber(x), LongLimit)}
      BY <2>4 DEF Convert
    <3> QED BY <1>1, <2>1, <3>2, <3>3
  <2>5. CASE kind = "Float"
    <3>1. Convert(kind, x) = {Lua("number", Round(ToNumber(x), FloatLimit))}
      BY <2>5 DEF Convert
    <3>2. Abs(x.val) <= FloatLimit
      BY <2>5 DEF Fits
    <3>3. Round(x.val, FloatLimit) = x.val
      BY <3>2 DEF Round
    <3> QED BY <1>1, <2>1, <2>2, <3>1, <3>3
  <2>6. CASE kind = "Double"
    <3>1. Convert(kind, x) = {Lua("number", ToNumber(x))}
      BY <2>6 DEF Convert
    <3> QED BY <1>1, <2>1, <2>2, <3>1
  <2> QED BY <1>4, <2>3, <2>4, <2>5, <2>6
<1> QED BY <1>2, <1>3, <1>4 DEF Kinds

\* A field of the configuration, and the elements of one that is a table.
LEMMA FieldValue ==
    ASSUME NEW name \in LuaNames
    PROVE  /\ LuaValue(Config[name])
           /\ Config[name].type = "table" =>
                \A key \in DOMAIN Config[name].val : LuaValue(Config[name].val[key])
BY ConfigAssumption, Zenon

LEMMA ReadingInit == LuaConfigInit => Reading
<1> SUFFICES ASSUME LuaConfigInit PROVE Reading
  OBVIOUS
<1>1. read.name \notin LuaNames
  <2>1. read.name = "" /\ "" \notin LuaNames
    BY ConfigAssumption, Zenon DEF LuaConfigInit
  <2> QED BY <2>1
<1> QED BY <1>1 DEF LuaConfigInit, Reading, StackKept, ConfigRead

\* One value is what it was read from.
LEMMA OneOnce == ASSUME NEW x PROVE EachOnce(<< x >>, << x >>)
<1> DEFINE order == [i \in DOMAIN << x >> |-> 1]
<1>1. DOMAIN << x >> = {1} /\ << x >>[1] = x
  OBVIOUS
<1>2. order \in [DOMAIN << x >> -> DOMAIN << x >>] /\ order[1] = 1
  BY <1>1
<1> QED BY <1>1, <1>2 DEF EachOnce

LEMMA ReadFieldReads ==
    ASSUME Reading, NEW kind \in Kinds, NEW name \in LuaNames, ReadField(kind, name)
    PROVE  Reading'
<1>1. L = << TheTable >>
  BY DEF ReadField, Reading, StackKept
<1>2. GetField(name) = << TheTable, Config[name] >>
  BY <1>1, Push1 DEF GetField, Top, TheTable, Lua
<1>3. PICK s : s = GetField(name) /\ Len(s) = 2 /\ s[2] = Config[name]
  BY <1>2
<1>4. PICK x \in Convert(kind, Config[name]) : v' = << x >>
  BY <1>3 DEF ReadField
<1>5. /\ L' = LuaPop(<< TheTable, Config[name] >>, 1)
      /\ at' = IF IsNull(kind, Config[name]) THEN "crashed" ELSE "idle"
      /\ read' = [kind |-> kind, name |-> name, array |-> FALSE]
  BY <1>2, <1>3 DEF ReadField
<1>6. L' = << TheTable >>
  BY <1>5, Popped, Zenon
<1>7. Elements(name, FALSE) = << Config[name] >>
  BY DEF Elements, FieldOf
<1>8. Fits(kind, Config[name]) => EachOnce(v', << Config[name] >>)
  BY <1>4, FieldValue, ConvertFits, OneOnce
<1>9. ConfigRead'
  <2>1. read'.kind = kind /\ read'.name = name /\ read'.array = FALSE
    BY <1>5
  <2>2. Elements(read'.name, read'.array) = << Config[name] >>
    BY <1>7, <2>1
  <2>3. PICK e : e = << Config[name] >> /\ DOMAIN e = {1} /\ e[1] = Config[name]
    <3>1. DOMAIN << Config[name] >> = {1} /\ << Config[name] >>[1] = Config[name]
      OBVIOUS
    <3> QED BY <3>1, Zenon
  <2>4. (\A key \in DOMAIN e : Fits(kind, e[key])) => EachOnce(v', e)
    BY <1>8, <2>3
  <2>5. at' = "crashed" => \E key \in DOMAIN e : IsNull(kind, e[key])
    BY <1>5, <2>3
  <2> QED BY <2>1, <2>2, <2>3, <2>4, <2>5 DEF ConfigRead
<1> QED BY <1>5, <1>6, <1>9 DEF Reading, StackKept

LEMMA ReadArrayReads ==
    ASSUME Reading, NEW kind \in Kinds, NEW name \in LuaNames, ReadArray(kind, name)
    PROVE  Reading'
<1>1. L = << TheTable >>
  BY DEF ReadArray, Reading, StackKept
<1>2. GetField(name) = << TheTable, Config[name] >>
  BY <1>1, Push1 DEF GetField, Top, TheTable, Lua
<1>3. L' = << TheTable, Config[name], Nil >>
  BY <1>2, Push2 DEF ReadArray
<1>4. /\ v' = << >> /\ visited' = << >> /\ at' = "next"
      /\ read' = [kind |-> kind, name |-> name, array |-> TRUE]
  BY DEF ReadArray, Cleared
<1>5. Visiting'
  BY <1>4 DEF Visiting
<1>6. InArray'
  BY <1>3, <1>4, <1>5 DEF InArray
<1> QED BY <1>4, <1>6 DEF Reading, StackKept, ConfigRead

\* When no key is left, the array has been read.
LEMMA AllVisited ==
    ASSUME InArray, Config[read.name].type = "table",
           DOMAIN Array \subseteq {visited[i] : i \in DOMAIN visited},
           \A key \in DOMAIN Array : Fits(read.kind, Array[key])
    PROVE  EachOnce(v, Array)
<1>1. Visiting
  BY DEF InArray
<1>2. DOMAIN v = 1 .. Len(visited) /\ DOMAIN visited = 1 .. Len(visited)
  BY <1>1 DEF Visiting
<1>3. visited \in [DOMAIN v -> DOMAIN Array]
  BY <1>1, <1>2 DEF Visiting
<1>4. ASSUME NEW i \in DOMAIN v PROVE v[i] = Array[visited[i]]
  <2>1. visited[i] \in DOMAIN Array
    BY <1>3
  <2>2. LuaValue(Array[visited[i]])
    BY <2>1, FieldValue DEF InArray, Array
  <2>3. Convert(read.kind, Array[visited[i]]) = {Array[visited[i]]}
    BY <2>1, <2>2, ConvertFits DEF InArray
  <2> QED BY <1>1, <1>2, <2>3 DEF Visiting
<1>5. \A i, j \in DOMAIN v : visited[i] = visited[j] => i = j
  BY <1>1, <1>2 DEF Visiting
<1>6. \A key \in DOMAIN Array : \E i \in DOMAIN v : visited[i] = key
  BY <1>2
<1> QED BY <1>3, <1>4, <1>5, <1>6 DEF EachOnce

LEMMA NextVisits ==
    ASSUME InArray, Config[read.name].type = "table", UNCHANGED read,
           NEW key \in DOMAIN Array \ {visited[i] : i \in DOMAIN visited},
           NEW x \in Convert(read.kind, Array[key]),
           v' = Append(v, x), visited' = Append(visited, key)
    PROVE  Visiting'
<1>1. Visiting
  BY DEF InArray
<1>2. Array' = Array /\ Answers' = Answers
  BY DEF Array, Answers
<1>3. x \in Answers
  BY DEF Answers
<1>4. PICK n \in Nat : n = Len(visited) /\ n = Len(v) /\ DOMAIN visited = 1 .. n
  BY <1>1 DEF Visiting
<1>5. visited' \in Seq(DOMAIN Array) /\ v' \in Seq(Answers) /\ Len(v') = n + 1 /\ Len(visited') = n + 1
  BY <1>1, <1>3, <1>4 DEF Visiting
<1>6. /\ \A i \in 1 .. n : visited'[i] = visited[i] /\ v'[i] = v[i]
      /\ visited'[n + 1] = key /\ v'[n + 1] = x
  BY <1>1, <1>3, <1>4 DEF Visiting
<1>7. \A i \in 1 .. n : visited[i] # key
  BY <1>4
<1>8. \A i \in 1 .. n + 1 : i \in 1 .. n \/ i = n + 1
  OBVIOUS
<1>9. \A i, j \in 1 .. n + 1 : visited'[i] = visited'[j] => i = j
  BY <1>1, <1>4, <1>6, <1>7, <1>8 DEF Visiting
<1>10. \A i \in 1 .. n + 1 : v'[i] \in Convert(read.kind, Array[visited'[i]])
  BY <1>1, <1>4, <1>6, <1>8 DEF Visiting
<1> QED BY <1>2, <1>5, <1>9, <1>10 DEF Visiting

LEMMA LuaNextReads ==
    ASSUME Reading, LuaNext
    PROVE  Reading'
<1>1. InArray /\ at = "next" /\ read' = read
  BY DEF LuaNext, Reading
<1> DEFINE field == Config[read.name]
<1>2. PICK top : L = << TheTable, field, top >>
  BY <1>1 DEF InArray
<1>3. Len(L) = 3 /\ L[2] = field
  BY <1>2
<1>4. FieldOf(read.name) = field /\ read.array = TRUE
  BY <1>1 DEF InArray, FieldOf
<1>5. CASE field.type # "table"
  BY <1>1, <1>3, <1>4, <1>5 DEF LuaNext, Reading, StackKept, ConfigRead
<1>6. CASE field.type = "table"
  <2>1. Elements(read.name, read.array) = Array
    BY <1>4, <1>6 DEF Elements, Array
  <2> DEFINE keys == DOMAIN Array \ {visited[i] : i \in DOMAIN visited}
  <2>2. CASE keys = {} /\ at' = "idle" /\ L' = Leftover /\ v' = v
    <3>1. L' = << TheTable >>
      BY <1>2, <2>2, Popped, Zenon DEF Leftover
    <3>2. (\A key \in DOMAIN Array : Fits(read.kind, Array[key])) => EachOnce(v, Array)
      BY <1>1, <1>6, <2>2, AllVisited
    <3>3. ConfigRead'
      BY <1>1, <2>1, <2>2, <3>2 DEF ConfigRead
    <3> QED BY <2>2, <3>1, <3>3 DEF Reading, StackKept
  <2>3. ASSUME NEW key \in keys, NEW x \in Convert(read.kind, Array[key]),
               v' = Append(v, x), visited' = Append(visited, key),
               L' = Append(LuaPop(L, 1), Lua("key", key)),
               at' = IF IsNull(read.kind, Array[key]) THEN "crashed" ELSE "next"
        PROVE  Reading'
    <3>1. L' = << TheTable, field, Lua("key", key) >>
      BY <1>2, <2>3, Popped, Push2, Zenon
    <3>2. Visiting'
      BY <1>1, <1>6, <2>3, NextVisits
    <3>3. InArray'
      BY <1>1, <3>1, <3>2 DEF InArray
    <3>4. ConfigRead'
      BY <1>1, <2>1, <2>3 DEF ConfigRead
    <3> QED BY <2>3, <3>3, <3>4 DEF Reading, StackKept
  <2>4. \/ keys = {} /\ at' = "idle" /\ L' = Leftover /\ v' = v
        \/ \E key \in keys : \E x \in Convert(read.kind, Array[key]) :
             /\ v' = Append(v, x) /\ visited' = Append(visited, key)
             /\ L' = Append(LuaPop(L, 1), Lua("key", key))
             /\ at' = IF IsNull(read.kind, Array[key]) THEN "crashed" ELSE "next"
    BY <1>3, <1>6 DEF LuaNext, Array
  <2> HIDE DEF keys
  <2> QED BY <2>2, <2>3, <2>4
<1> QED BY <1>5, <1>6

LEMMA ReadingNext == Reading /\ [LuaConfigNext]_luaReadVars => Reading'
<1> SUFFICES ASSUME Reading, [LuaConfigNext]_luaReadVars PROVE Reading'
  OBVIOUS
<1>1. CASE UNCHANGED luaReadVars
  BY <1>1 DEF luaReadVars, Reading, StackKept, ConfigRead, InArray, Visiting, Array, Answers
<1> QED BY <1>1, ReadFieldReads, ReadArrayReads, LuaNextReads DEF LuaConfigNext

(***************************************************************************)
(* Whatever is read, and however long an array is, every Read function     *)
(* leaves the Lua stack as it found it.                                    *)
(***************************************************************************)
THEOREM StackUnchanged == LuaConfigSpec => []StackKept
<1>1. Reading => StackKept
  BY DEF Reading
<1> QED BY <1>1, ReadingInit, ReadingNext, PTL DEF LuaConfigSpec

(***************************************************************************)
(* What fits the type asked for, in range and in precision, is read as it  *)
(* stands in any configuration, an array of any length with all its        *)
(* elements, each once, in whatever order lua_next goes, and only an array *)
(* or a text that is not there ends the process.                           *)
(***************************************************************************)
THEOREM FieldsRead == LuaConfigSpec => []ConfigRead
<1>1. Reading => ConfigRead
  BY DEF Reading
<1> QED BY <1>1, ReadingInit, ReadingNext, PTL DEF LuaConfigSpec
----------------------------------------------------------------------------
(* TimeUtil.                                                               *)

\* What is left of n after the whole m's in it, and what it is made of.
LEMMA WholeMultiples ==
    ASSUME NEW n \in Nat, NEW m \in Nat \ {0}
    PROVE  /\ n \div m \in Nat
           /\ (n \div m) * m \in Nat
           /\ (n \div m) * m \in n - m + 1 .. n
OBVIOUS

LEMMA Remainder ==
    ASSUME NEW q \in Nat, NEW m \in Nat \ {0}, NEW r \in 0 .. m - 1
    PROVE  (m * q + r) % m = r
OBVIOUS

(***************************************************************************)
(* A tick that goes on by d, less than a whole round: it has counted on,   *)
(* or started over.                                                        *)
(***************************************************************************)
LEMMA TickGoesOn ==
    ASSUME NEW x \in Nat, NEW d \in Nat, NEW w \in Nat \ {0}, d < w
    PROVE  /\ x % w \in 0 .. w - 1
           /\ (x + d) % w = IF (x % w) + d < w THEN (x % w) + d ELSE (x % w) + d - w
<1>1. PICK q \in Nat, r \in 0 .. w - 1 : x = w * q + r
  <2>1. PICK q \in Nat : q * w \in Nat /\ q * w \in x - w + 1 .. x
    BY WholeMultiples
  <2>2. x - q * w \in 0 .. w - 1 /\ w * q = q * w
    BY <2>1
  <2> QED BY <2>1, <2>2
<1>2. x % w = r
  BY <1>1, Remainder
<1>3. CASE r + d < w
  <2>1. r + d \in 0 .. w - 1 /\ x + d = w * q + (r + d)
    BY <1>1, <1>3
  <2>2. (x + d) % w = r + d
    BY <2>1, Remainder
  <2> QED BY <1>2, <1>3, <2>2
<1>4. CASE r + d >= w
  <2>1. w * (q + 1) = w * q + w /\ w * q \in Nat
    OBVIOUS
  <2>2. PICK p \in Nat, s \in 0 .. w - 1 : p = q + 1 /\ s = r + d - w
    BY <1>4
  <2>3. x + d = w * p + s
    BY <1>1, <2>1, <2>2
  <2>4. (w * p + s) % w = s
    BY Remainder
  <2>5. (x + d) % w = r + d - w
    BY <2>2, <2>3, <2>4
  <2> QED BY <1>2, <1>4, <2>5
<1> QED BY <1>3, <1>4

\* The tick that the last call saw on Windows, and the moment of its reference point.
TickSeen == (called - Started) % Wrap

Referred == called - TickSeen + StartTickCount

TimeTypes ==
    /\ platform \in {"windows", "linux"}
    /\ now \in Nat /\ now >= Started
    /\ clock \in Nat
    /\ platform = "windows" => clock = now - Started
    /\ StartSecond \in Nat /\ StartTickCount \in Nat /\ answer \in Int
    /\ called \in Nat /\ called <= now
    /\ called # 0 => called >= Started
    /\ called = 0 <=> StartSecond = 0
    /\ called = 0 => answer = 0

(***************************************************************************)
(* On Linux the processor time has only grown since the reference point.   *)
(* On Windows the tick has not started over unnoticed: the last call was   *)
(* in the same round as the reference point, which was taken less than a   *)
(* second after StartSecond.                                               *)
(***************************************************************************)
Reference ==
    /\ platform = "linux" /\ called # 0 =>
         /\ StartTickCount <= clock
         /\ answer <= StartSecond + (clock - StartTickCount)
    /\ platform = "windows" /\ called # 0 /\ frequent =>
         /\ StartTickCount <= TickSeen
         /\ answer = StartSecond + (TickSeen - StartTickCount)
         /\ StartSecond \in Referred - Second + 1 .. Referred

TimeInv == TimeTypes /\ Reference

LEMMA TimeInvInit == TimeInit => TimeInv
BY TimeAssumption DEF TimeInit, TimeInv, TimeTypes, Reference

LEMMA SecondOfNow ==
    ASSUME TimeTypes
    PROVE  CurrentSecond \in Nat \ {0} /\ CurrentSecond \in now - Second + 1 .. now
<1>1. now \in Nat /\ now >= Second /\ Second \in Nat \ {0}
  BY TimeAssumption DEF TimeTypes
<1>2. CurrentSecond \in Nat /\ CurrentSecond \in now - Second + 1 .. now
  BY <1>1, WholeMultiples DEF CurrentSecond
<1> QED BY <1>1, <1>2

(***************************************************************************)
(* A call on Windows that is frequent enough: either the tick has counted  *)
(* on since the last call, or it shows that it has started over.           *)
(***************************************************************************)
LEMMA TickNoticed ==
    ASSUME TimeInv, platform = "windows", called # 0, frequent,
           now - called <= StartTickCount \/ now - Started < Wrap
    PROVE  /\ GetTickCount \in 0 .. Wrap - 1
           /\ ~NewReference => GetTickCount = TickSeen + (now - called)
<1>1. PICK x \in Nat, d \in Nat : x = called - Started /\ d = now - called
  BY TimeAssumption DEF TimeInv, TimeTypes
<1>2. Wrap \in Nat \ {0} /\ StartTickCount \in Nat /\ StartSecond # 0
  BY TimeAssumption DEF TimeInv, TimeTypes
<1>3. clock = x + d /\ now - Started = x + d
  BY <1>1, TimeAssumption DEF TimeInv, TimeTypes
<1>4. GetTickCount = (x + d) % Wrap /\ TickSeen = x % Wrap
  BY <1>1, <1>3 DEF GetTickCount, TickSeen
<1>5. PICK t \in Int : t = x % Wrap
  BY <1>2
<1>6. t \in 0 .. Wrap - 1 /\ StartTickCount <= t
  BY <1>2, <1>4, <1>5 DEF TimeInv, Reference
<1>7. d < Wrap /\ (x + d < Wrap => t = x)
  BY <1>1, <1>2, <1>3, <1>5, <1>6
<1>8. (x + d) % Wrap = IF t + d < Wrap THEN t + d ELSE t + d - Wrap
  BY <1>2, <1>5, <1>7, TickGoesOn
<1>9. d <= StartTickCount \/ x + d < Wrap
  BY <1>1, <1>3
<1>10. PICK g \in Int : g = GetTickCount /\ g = IF t + d < Wrap THEN t + d ELSE t + d - Wrap
  BY <1>2, <1>4, <1>6, <1>8
<1>11. g < StartTickCount \/ g = t + d
  BY <1>2, <1>6, <1>7, <1>9, <1>10
<1>12. g \in 0 .. Wrap - 1
  BY <1>2, <1>6, <1>7, <1>10
<1>13. ~NewReference => ~(g < StartTickCount)
  BY <1>10 DEF NewReference
<1> QED BY <1>1, <1>4, <1>5, <1>10, <1>11, <1>12, <1>13

LEMMA TimeInvNext == TimeInv /\ [TimeNext]_timeVars => TimeInv'
<1> SUFFICES ASSUME TimeInv, [TimeNext]_timeVars PROVE TimeInv'
  OBVIOUS
<1>1. ASSUME NEW d \in 1 .. MaxPass, Pass(d) PROVE TimeInv'
  <2>1. d \in Nat
    BY TimeAssumption
  <2>2. clock' \in Nat /\ (platform = "windows" => clock' = clock + d)
    BY <1>1, <2>1 DEF Pass, TimeInv, TimeTypes
  <2>3. TimeTypes'
    BY <1>1, <2>1, <2>2, TimeAssumption DEF Pass, TimeInv, TimeTypes
  <2>4. Reference'
    <3>1. TickSeen' = TickSeen /\ Referred' = Referred
      BY <1>1 DEF Pass, TickSeen, Referred
    <3>2. clock <= clock'
      BY <1>1, <2>1 DEF Pass, TimeInv, TimeTypes
    <3>3. UNCHANGED << platform, StartSecond, StartTickCount, answer, called, frequent >>
      BY <1>1 DEF Pass
    <3>4. CASE platform = "linux"
      <4>1. {clock, clock', StartSecond, StartTickCount, answer} \subseteq Int
        BY <2>2 DEF TimeInv, TimeTypes
      <4>2. called # 0 => StartTickCount <= clock' /\ answer <= StartSecond + (clock' - StartTickCount)
        BY <3>2, <3>4, <4>1 DEF TimeInv, Reference
      <4> QED BY <3>3, <3>4, <4>2 DEF Reference
    <3>5. CASE platform = "windows"
      BY <3>1, <3>3, <3>5 DEF TimeInv, Reference
    <3> QED BY <3>4, <3>5 DEF TimeInv, TimeTypes
  <2> QED BY <2>3, <2>4 DEF TimeInv
<1>2. CASE GetCurrentMillisecond
  <2>1. PICK ss \in Nat \ {0} : ss = CurrentSecond /\ ss \in now - Second + 1 .. now
    BY SecondOfNow DEF TimeInv
  <2>2. PICK g \in Nat : g = GetTickCount
    BY TimeAssumption DEF TimeInv, TimeTypes, GetTickCount
  <2>3. /\ StartSecond' = IF NewReference THEN ss ELSE StartSecond
        /\ StartTickCount' = IF NewReference THEN g ELSE StartTickCount
        /\ answer' = StartSecond' + (g - StartTickCount')
        /\ called' = now
        /\ UNCHANGED << platform, now, clock >>
    BY <1>2, <2>1, <2>2 DEF GetCurrentMillisecond
  <2>4. NewReference <=> StartSecond = 0 \/ g < StartTickCount
    BY <2>2 DEF NewReference
  <2>5. TimeTypes'
    BY <2>1, <2>3, <2>4, TimeAssumption DEF TimeInv, TimeTypes
  <2>6. CASE platform = "linux"
    <3>1. g = clock
      BY <2>2, <2>6 DEF GetTickCount
    <3> QED BY <2>1, <2>3, <2>4, <2>5, <2>6, <3>1 DEF TimeInv, TimeTypes, Reference
  <2>7. CASE platform = "windows" /\ frequent'
    <3>1. TickSeen' = g
      BY <2>2, <2>3, <2>7 DEF TickSeen, GetTickCount, TimeInv, TimeTypes
    <3>2. CASE NewReference
      <4>1. Referred' = now /\ StartSecond' = ss /\ StartTickCount' = g /\ answer' = ss
        BY <2>3, <3>1, <3>2 DEF TimeInv, TimeTypes, Referred
      <4> QED BY <2>1, <2>3, <2>5, <2>7, <3>1, <4>1 DEF TimeInv, Reference
    <3>3. CASE ~NewReference
      <4>1. called # 0 /\ frequent /\ (now - called <= StartTickCount \/ now - Started < Wrap)
        BY <1>2, <2>4, <2>7, <3>3 DEF GetCurrentMillisecond, TimeInv, TimeTypes
      <4>2. g = TickSeen + (now - called) /\ StartTickCount <= g
        BY <2>2, <2>4, <2>7, <3>3, <4>1, TickNoticed DEF TimeInv, TimeTypes
      <4>3. TickSeen \in Int
        BY TimeAssumption DEF TickSeen, TimeInv, TimeTypes
      <4>4. Referred' = Referred
        BY <2>3, <3>1, <3>3, <4>2, <4>3 DEF Referred, TimeInv, TimeTypes
      <4> QED BY <2>3, <2>5, <2>7, <3>1, <3>3, <4>1, <4>2, <4>4 DEF TimeInv, Reference
    <3> QED BY <3>2, <3>3
  <2>8. CASE platform = "windows" /\ ~frequent'
    BY <2>3, <2>5, <2>8 DEF TimeInv, Reference
  <2> QED BY <2>6, <2>7, <2>8 DEF TimeInv, TimeTypes
<1>3. CASE UNCHANGED timeVars
  BY <1>3 DEF timeVars, TimeInv, TimeTypes, Reference, TickSeen, Referred
<1> QED BY <1>1, <1>2, <1>3 DEF TimeNext

(***************************************************************************)
(* For every length of a second and of a round of the tick: on Windows     *)
(* GetCurrentMillisecond is less than a second behind and never ahead,     *)
(* however often the tick has started over, while calls are frequent.      *)
(***************************************************************************)
THEOREM MillisecondAccurate == TimeSpec => []TimeAccurate
<1>1. TimeInv => TimeAccurate
  <2> SUFFICES ASSUME TimeInv, platform = "windows", called # 0, frequent
               PROVE  answer \in called - Second + 1 .. called
    BY DEF TimeAccurate
  <2>1. TickSeen \in Int
    BY TimeAssumption DEF TickSeen, TimeInv, TimeTypes
  <2> QED BY <2>1, TimeAssumption DEF TimeInv, TimeTypes, Reference, Referred
<1> QED BY <1>1, TimeInvInit, TimeInvNext, PTL DEF TimeSpec

(***************************************************************************)
(* The answer never goes back on Linux, however rare the calls, and on     *)
(* Windows, while they are frequent, only with a new reference point, then *)
(* by less than a second.                                                  *)
(***************************************************************************)
THEOREM MillisecondHardlyBack == TimeSpec => TimeHardlyBack
<1> DEFINE Forward ==
      \/ answer' >= answer
      \/ /\ platform = "windows"
         /\ frequent' => StartTickCount' < StartTickCount /\ answer - answer' < Second
<1>1. TimeInv /\ TimeInv' /\ [TimeNext]_timeVars => [Forward]_timeVars
  <2> SUFFICES ASSUME TimeInv, TimeInv', TimeNext PROVE Forward
    OBVIOUS
  <2>1. CASE \E d \in 1 .. MaxPass : Pass(d)
    BY <2>1 DEF Pass, TimeInv, TimeTypes
  <2>2. CASE GetCurrentMillisecond
    <3>1. PICK ss \in Nat \ {0} : ss = CurrentSecond /\ ss \in now - Second + 1 .. now
      BY SecondOfNow DEF TimeInv
    <3>2. PICK g \in Nat : g = GetTickCount
      BY TimeAssumption DEF TimeInv, TimeTypes, GetTickCount
    <3>3. /\ StartSecond' = IF NewReference THEN ss ELSE StartSecond
          /\ StartTickCount' = IF NewReference THEN g ELSE StartTickCount
          /\ answer' = StartSecond' + (g - StartTickCount')
      BY <2>2, <3>1, <3>2 DEF GetCurrentMillisecond
    <3>4. NewReference <=> StartSecond = 0 \/ g < StartTickCount
      BY <3>2 DEF NewReference
    <3>5. CASE StartSecond = 0
      BY <3>1, <3>3, <3>4, <3>5 DEF TimeInv, TimeTypes
    <3>6. CASE StartSecond # 0 /\ platform = "linux"
      <4>1. g = clock
        BY <3>2, <3>6 DEF GetTickCount
      <4> QED BY <3>3, <3>4, <3>6, <4>1 DEF TimeInv, TimeTypes, Reference
    <3>7. CASE StartSecond # 0 /\ platform = "windows" /\ frequent'
      <4>1. called # 0 /\ frequent /\ (now - called <= StartTickCount \/ now - Started < Wrap)
        BY <2>2, <3>7 DEF GetCurrentMillisecond, TimeInv, TimeTypes
      <4>2. TickSeen \in Int
        BY TimeAssumption DEF TickSeen, TimeInv, TimeTypes
      <4>3. CASE NewReference
        <5>1. answer <= now /\ answer' = ss /\ StartTickCount' < StartTickCount
          BY <3>1, <3>3, <3>4, <3>7, <4>1, <4>2, <4>3 DEF TimeInv, TimeTypes, Reference, Referred
        <5> QED BY <3>1, <3>7, <5>1, TimeAssumption DEF TimeInv, TimeTypes
      <4>4. CASE ~NewReference
        <5>1. g = TickSeen + (now - called)
          BY <3>2, <3>7, <4>1, <4>4, TickNoticed
        <5> QED BY <3>3, <3>7, <4>1, <4>2, <4>4, <5>1 DEF TimeInv, TimeTypes, Reference
      <4> QED BY <4>3, <4>4
    <3>8. CASE platform = "windows" /\ ~frequent'
      BY <3>8
    <3> QED BY <3>5, <3>6, <3>7, <3>8 DEF TimeInv, TimeTypes
  <2> QED BY <2>1, <2>2 DEF TimeNext
<1> QED BY <1>1, TimeInvInit, TimeInvNext, PTL DEF TimeSpec, TimeHardlyBack
============================================================================
