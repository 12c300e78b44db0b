---------------------------- MODULE MySQLResult ----------------------------
(***************************************************************************)
(* MySQLResult: the rows of one query, read one after the other and column *)
(* by column, by name.  The rows are what mysql_store_result has fetched   *)
(* (external).  A column may be NULL, and two columns of a join may have   *)
(* the same name.                                                          *)
(***************************************************************************)
EXTENDS Integers, Sequences

CONSTANTS
    FieldNames,  \* the names of the columns, in order
    Tables,      \* results: sequences of rows, a row has a value per column
    NullColumn   \* a column that is NULL

ASSUME ResultAssumption ==
    /\ FieldNames \in Seq({FieldNames[i] : i \in DOMAIN FieldNames})
    /\ \A t \in Tables :
         /\ t \in Seq({t[i] : i \in DOMAIN t})
         /\ \A i \in DOMAIN t : Len(t[i]) = Len(FieldNames)

VARIABLES
    m_Result,       \* the rows, or NoResult
    cursor,         \* rows mysql_fetch_row has handed out
    m_CurRecord,    \* the number of the current row, or 0
    m_NameToIndex,
    more,           \* what the last GetRecord returned
    column,         \* what was read last: [name, got]
    wild,           \* memory was read that is no column of a row
    careless        \* the caller read without a GetRecord that returned true, or a column that is not there

resultVars == << m_Result, cursor, m_CurRecord, m_NameToIndex, more, column, wild, careless >>

Columns == {FieldNames[i] : i \in DOMAIN FieldNames}

\* A row without columns stands for NULL.
NoResult == << << >> >>

NoValue == [name |-> "none", got |-> 0]

ResultInit ==
    /\ m_Result = NoResult /\ cursor = 0
    /\ m_CurRecord = 0
    /\ m_NameToIndex = << >>
    /\ more = FALSE
    /\ column = NoValue
    /\ wild = FALSE /\ careless = FALSE

\* map::insert leaves the entry of an earlier column of the same name.
Indexes == [name \in Columns |->
              CHOOSE i \in DOMAIN FieldNames :
                /\ FieldNames[i] = name
                /\ \A j \in 1 .. i - 1 : FieldNames[j] # name]

\* MySQLResult::Init, which Query calls once for a new object.
SetResult(rows) ==
    /\ m_Result = NoResult /\ m_NameToIndex = << >>
    /\ m_Result' = rows
    /\ m_CurRecord' = 0 /\ cursor' = 0
    /\ m_NameToIndex' = Indexes
    /\ UNCHANGED << more, column, wild, careless >>

\* Mutant of Fetched: the last row is taken for the end.
FetchedLate == IF cursor + 1 < Len(m_Result) THEN cursor + 1 ELSE 0

\* mysql_fetch_row: the next row, or NULL behind the last.
Fetched == IF cursor < Len(m_Result) THEN cursor + 1 ELSE 0

\* Without a result nothing is touched, not even m_CurRecord.
GetRecord ==
    /\ IF m_Result = NoResult
       THEN more' = FALSE /\ UNCHANGED << m_CurRecord, cursor >>
       ELSE /\ m_CurRecord' = Fetched
            /\ more' = (m_CurRecord' # 0)
            /\ cursor' = IF m_CurRecord' = 0 THEN cursor ELSE m_CurRecord'
    /\ column' = NoValue
    /\ UNCHANGED << m_Result, m_NameToIndex, wild, careless >>

GetIndex(name) == IF name \in DOMAIN m_NameToIndex THEN m_NameToIndex[name] ELSE 0

\* GetInt, GetInt64, GetFloat: NULL counts as 0 (GetString: as an empty text).
Column(index) == IF m_Result[m_CurRecord][index] = NullColumn THEN 0 ELSE m_Result[m_CurRecord][index]

\* Get by name; without a row or a column of that name whatever is in memory there.
Get(name) ==
    /\ \/ /\ m_CurRecord # 0 /\ GetIndex(name) # 0
          /\ column' = [name |-> name, got |-> Column(GetIndex(name))]
          /\ UNCHANGED wild
       \/ /\ m_CurRecord = 0 \/ GetIndex(name) = 0
          /\ wild' = TRUE
          /\ UNCHANGED column
    /\ careless' = (careless \/ ~more \/ name \notin Columns)
    /\ UNCHANGED << m_Result, cursor, m_CurRecord, m_NameToIndex, more >>

Clear ==
    /\ m_CurRecord' = 0
    /\ m_Result' = NoResult /\ cursor' = 0
    /\ more' = FALSE
    /\ column' = NoValue
    /\ UNCHANGED << m_NameToIndex, wild, careless >>

ResultNext ==
    \/ \E rows \in Tables : SetResult(rows)
    \/ GetRecord
    \/ \E name \in Columns \cup {"missing"} : Get(name)
    \/ Clear

ResultSpec == ResultInit /\ [][ResultNext]_resultVars
----------------------------------------------------------------------------
(***************************************************************************)
(* "while (GetRecord()) { DoRead(); }": a caller who keeps to that reads   *)
(* only columns of rows that are there; what it reads is the column of the *)
(* row it is at, the first one of that name, as a number even if it is     *)
(* NULL; and when GetRecord ends the loop every row has been seen.         *)
(***************************************************************************)
ReadsEveryRow ==
    /\ wild => careless
    /\ column # NoValue =>
         \E i \in DOMAIN FieldNames :
           /\ FieldNames[i] = column.name
           /\ \A j \in 1 .. i - 1 : FieldNames[j] # FieldNames[i]
           /\ column.got = IF m_Result[cursor][i] = NullColumn THEN 0 ELSE m_Result[cursor][i]
    /\ m_Result # NoResult /\ cursor > 0 /\ ~more => cursor = Len(m_Result)
============================================================================
