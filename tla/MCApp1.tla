------------------------------- MODULE MCApp1 -------------------------------
(***************************************************************************)
(* The HTTP server in two programs: one that starts and stops it at will   *)
(* and sends requests through it, and app1, which a signal may kill.  They *)
(* have nothing to do with each other; one run looks at both.              *)
(***************************************************************************)
EXTENDS App1, MCHttpServer

VARIABLE program  \* "server" or "app1"

bothVars == << allVars, program >>

BothInit == AppInit /\ program \in {"server", "app1"}

BothNext ==
    /\ \/ program = "server" /\ Next /\ UNCHANGED appVars
       \/ program = "app1" /\ AppNext
    /\ UNCHANGED program

\* The fairness of HttpServer and of App1.
BothSpec ==
    /\ BothInit
    /\ [][BothNext]_bothVars
    /\ WF_vars(program = "server" /\ ThreadProcess)
    /\ WF_vars(program = "server" /\ (LoopBreak \/ Join))
    /\ WF_allVars(program = "app1" /\ MainThread)
    /\ WF_allVars(program = "app1" /\ ServerThread)

(***************************************************************************)
(* Every client that was let in gets its answer, or sees its connection    *)
(* closed by Stop; none is left hanging.  (In app1 the process may be      *)
(* killed instead.)                                                        *)
(***************************************************************************)
ClientsAnswered == program = "server" => Answered

(***************************************************************************)
(* HttpServer's Stop returns, also one that comes before the thread has    *)
(* got anywhere or in the middle of the loop.                              *)
(***************************************************************************)
HttpStopReturns == program = "server" => StopReturns
=============================================================================
