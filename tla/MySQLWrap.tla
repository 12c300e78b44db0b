----------------------------- MODULE MySQLWrap -----------------------------
(***************************************************************************)
(* MySQLWrap: one connection to MySQL, used by one thread.  A statement    *)
(* answers with a result set or a plain OK, and a procedure may have more  *)
(* results follow; the client library (external) refuses every command     *)
(* while a result set has not been stored or more results are to come.     *)
(* Query stores the first result, Execute stores none, and ClearResult is  *)
(* called before statements and START TRANSACTION, to get rid of the rest. *)
(* Asserts do nothing (NDEBUG).                                            *)
(***************************************************************************)
EXTENDS Naturals, FiniteSets

CONSTANTS
    Statements,   \* [rows : BOOLEAN, follow : Nat, writes : BOOLEAN]
    MaxCommands   \* bound: statements

ASSUME MySQLAssumption ==
    /\ Statements \subseteq [rows : BOOLEAN, follow : Nat, writes : BOOLEAN]
    /\ MaxCommands \in Nat

VARIABLES
    unstored,    \* number of the statement whose result set is not stored, or 0
    follow,      \* how many results the server has still to deliver
    session,     \* "closed", "up", "lost" (the server closed it) or "crashed"
    in_trans,    \* the server: a transaction is open,
    work,        \*   what it has written in it,
    stored,      \*   and what is stored for good
    in_program,  \* the program: between StartTransaction and EndTransaction,
    mine,        \*   what it has written in between,
    kept,        \*   in transactions it ended well,
    dropped,     \*   and in those it had rolled back
    result,      \* the last MySQLResult: of and for which statement it was made
    count,       \* statements so far
    lost,        \* the server has gone away at some time
    unread,      \* Execute has left a result set unstored
    refused      \* kinds of commands that were refused as out of step

serverVars == << in_trans, work, stored >>
programVars == << in_program, mine, kept, dropped >>
mysqlVars == << unstored, follow, session, serverVars, programVars, result, count, lost, unread, refused >>

MySQLInit ==
    /\ unstored = 0 /\ follow = 0
    /\ session = "closed"
    /\ in_trans = FALSE /\ work = {} /\ stored = {}
    /\ in_program = FALSE /\ mine = {} /\ kept = {} /\ dropped = {}
    /\ result = [of |-> 0, asked |-> 0]
    /\ count = 0
    /\ lost = FALSE /\ unread = FALSE
    /\ refused = {}
----------------------------------------------------------------------------
(* The client library and the server.                                      *)

\* The next command, with n results left to come, is sent and answered.
InStep(n) == unstored = 0 /\ n = 0

Refuse(command, n) == refused' = IF InStep(n) THEN refused ELSE refused \cup {command}

\* Mutant of ClearResult: one result is fetched, not all of them.
ClearResultOnce == IF unstored = 0 /\ follow > 0 THEN follow - 1 ELSE follow

(***************************************************************************)
(* ClearResult, by what is left to come: mysql_next_result fails at once   *)
(* while a result set is unstored; otherwise each result is stored and     *)
(* freed until there are no more.                                          *)
(***************************************************************************)
ClearResult == IF unstored = 0 THEN 0 ELSE follow

\* A statement's effect on the server: outside a transaction it is final.
WriteRow(n) ==
    /\ work' = IF in_trans THEN work \cup n ELSE work
    /\ stored' = IF in_trans THEN stored ELSE stored \cup n
    /\ mine' = IF in_program THEN mine \cup n ELSE mine
    /\ UNCHANGED in_trans

\* START TRANSACTION commits what is open; COMMIT and ROLLBACK end it.
StartsTransaction == in_trans' = TRUE /\ work' = {} /\ stored' = stored \cup work

Commits == in_trans' = FALSE /\ work' = {} /\ stored' = stored \cup work

RollsBack == in_trans' = FALSE /\ work' = {} /\ UNCHANGED stored

\* The session ends on the server's side: its open transaction is undone.
EndSession == in_trans' = FALSE /\ work' = {} /\ UNCHANGED stored

\* A command other than a statement; its outcome is not looked at.
Command(name, n, Effect) ==
    /\ Refuse(name, n)
    /\ IF session = "up" /\ InStep(n) THEN Effect ELSE UNCHANGED serverVars
----------------------------------------------------------------------------
Usable == session \in {"up", "lost"}

\* Init: mysql_init, then a connection or (the assert does nothing) none.
Connect ==
    /\ session = "closed"
    /\ session' \in {"up", "lost"}
    /\ unstored' = 0 /\ follow' = 0
    /\ UNCHANGED << serverVars, programVars, result, count, lost, unread, refused >>

\* Release, which the program calls outside its transactions.
Disconnect ==
    /\ Usable /\ ~in_program
    /\ session' = "closed"
    /\ EndSession
    /\ UNCHANGED << unstored, follow, programVars, result, count, lost, unread, refused >>

\* The server restarts, or closes a connection that was idle for too long.
Lose ==
    /\ session = "up"
    /\ session' = "lost" /\ lost' = TRUE
    /\ EndSession
    /\ UNCHANGED << unstored, follow, programVars, result, count, unread, refused >>

(***************************************************************************)
(* StartMySQLQuery: ClearResult, then the statement, which the server      *)
(* executes as number count + 1 or rejects.                                *)
(***************************************************************************)
StartMySQLQuery ==
    /\ Usable
    /\ count < MaxCommands
    /\ count' = count + 1
    /\ UNCHANGED << in_program, kept, dropped, lost >>

Succeeds(s) ==
    /\ session = "up" /\ InStep(ClearResult)
    /\ follow' = s.follow
    /\ WriteRow(IF s.writes THEN {count + 1} ELSE {})
    /\ UNCHANGED << session, refused >>

Fails ==
    /\ follow' = ClearResult
    /\ Refuse("statement", ClearResult)
    /\ UNCHANGED mine

Execute(s) ==
    /\ StartMySQLQuery
    /\ \/ Succeeds(s) /\ unstored' = IF s.rows THEN count + 1 ELSE 0
       \/ Fails /\ UNCHANGED << unstored, serverVars, session >>
    /\ unread' = (unread \/ unstored' = count + 1)
    /\ UNCHANGED result

\* Mutant of Store: mysql_use_result, which leaves the rows to be fetched.
StoreUse(n) ==
    /\ unstored' = n
    /\ result' = [of |-> n, asked |-> count + 1]

\* mysql_store_result of what statement number n answered.
Store(n) ==
    /\ unstored' = 0
    /\ result' = [of |-> n, asked |-> count + 1]

\* A statement without rows is executed, and leaves nothing to be stored.
CrashesAfter(s) ==
    /\ session = "up" /\ InStep(ClearResult)
    /\ session' = "crashed"
    /\ follow' = s.follow
    /\ in_trans' = FALSE /\ work' = {}
    /\ stored' = IF ~in_trans /\ s.writes THEN stored \cup {count + 1} ELSE stored
    /\ UNCHANGED << mine, unstored, result, refused >>

(***************************************************************************)
(* Query: the answer is stored, or, when the statement failed, whatever is *)
(* there to be stored; if nothing is, MySQLResult::Init reads through NULL.*)
(***************************************************************************)
Query(s) ==
    /\ StartMySQLQuery
    /\ \/ s.rows /\ Succeeds(s) /\ Store(count + 1)
       \/ ~s.rows /\ CrashesAfter(s)
       \/ unstored # 0 /\ Fails /\ Store(unstored) /\ UNCHANGED << serverVars, session >>
       \/ unstored = 0 /\ Fails /\ EndSession /\ session' = "crashed" /\ UNCHANGED << unstored, result >>
    /\ UNCHANGED unread

StartTransaction ==
    /\ Usable /\ ~in_program
    /\ in_program' = TRUE
    /\ mine' = {}
    /\ follow' = ClearResult
    /\ Command("start", ClearResult, StartsTransaction)
    /\ UNCHANGED << unstored, session, kept, dropped, result, count, lost, unread >>

Commit == Command("end", follow, Commits)

\* Mutant of RollBack: it sends COMMIT.
RollBackCommits == Command("end", follow, Commits)

RollBack == Command("end", follow, RollsBack)

EndTransaction(ok) ==
    /\ Usable /\ in_program
    /\ in_program' = FALSE
    /\ IF ok THEN Commit ELSE RollBack
    /\ kept' = IF ok THEN kept \cup mine ELSE kept
    /\ dropped' = IF ok THEN dropped ELSE dropped \cup mine
    /\ mine' = {}
    /\ UNCHANGED << unstored, follow, session, result, count, lost, unread >>
----------------------------------------------------------------------------
\* The bound is reached, or the program has crashed.
MySQLEnd == (count = MaxCommands \/ session = "crashed") /\ UNCHANGED mysqlVars

MySQLNext ==
    \/ Connect \/ Disconnect \/ Lose
    \/ \E s \in Statements : Query(s) \/ Execute(s)
    \/ StartTransaction
    \/ \E ok \in BOOLEAN : EndTransaction(ok)
    \/ MySQLEnd

MySQLSpec == MySQLInit /\ [][MySQLNext]_mysqlVars
----------------------------------------------------------------------------
(***************************************************************************)
(* "If it went well commit, if not roll back" (EndTransaction): what the   *)
(* program had rolled back is never stored.                                *)
(***************************************************************************)
RolledBackStaysOut == dropped \cap stored = {}

(***************************************************************************)
(* As far as that goes: unless START TRANSACTION, COMMIT or ROLLBACK was   *)
(* refused, which nobody notices, what the program had rolled back is      *)
(* never stored, also when the server goes away in between, and what it    *)
(* ended well is stored unless the server went away.                       *)
(***************************************************************************)
TransactionsHold ==
    refused \cap {"start", "end"} = {} =>
        /\ dropped \cap stored = {}
        /\ lost \/ kept \subseteq stored

(***************************************************************************)
(* "Clear what is left of earlier results" (StartMySQLQuery): however many *)
(* results a procedure had, they never get in the way of a later statement *)
(* or START TRANSACTION; only a result set that Execute left unstored does.*)
(***************************************************************************)
ClearedBefore == refused \cap {"statement", "start"} # {} => unread

(***************************************************************************)
(* The MySQLResult of a Query holds the rows of its own statement, not of  *)
(* an earlier one, unless Execute had left a result set unstored.          *)
(***************************************************************************)
OwnRows == ~unread => result.of = result.asked
============================================================================
