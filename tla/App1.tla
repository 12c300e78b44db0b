-------------------------------- MODULE App1 --------------------------------
(***************************************************************************)
(* main() of app1 on Linux: it starts the HTTP server, installs OnSignal   *)
(* for SIGTERM and SIGINT, sleeps while is_run holds, stops the server and *)
(* destroys it.  A signal may come at any moment; before its handler is    *)
(* installed it kills the process.                                         *)
(***************************************************************************)
EXTENDS HttpServer

VARIABLES
    app,       \* where main() is
    is_run,
    handlers,  \* the signals OnSignal is installed for
    caught     \* whether OnSignal has run

appVars == << app, is_run, handlers, caught >>
allVars == << vars, appVars >>

Signals == {"SIGTERM", "SIGINT"}

AppInit ==
    /\ Init
    /\ app = "construct"
    /\ is_run = FALSE
    /\ handlers = {}
    /\ caught = FALSE

StartServer ==
    /\ app = "construct"
    /\ Start
    /\ app' = "started"
    /\ UNCHANGED << is_run, handlers, caught >>

\* Mutant of SetRun: is_run is set only after the handlers are installed.
SetRunLast ==
    /\ \/ /\ app = "started"
          /\ app' = "install"
          /\ UNCHANGED is_run
       \/ /\ app = "run" /\ ~is_run
          /\ is_run' = TRUE
          /\ UNCHANGED app
    /\ UNCHANGED << vars, handlers, caught >>

SetRun ==
    /\ app = "started"
    /\ is_run' = TRUE
    /\ app' = "install"
    /\ UNCHANGED << vars, handlers, caught >>

\* signal(SIGTERM, OnSignal), then signal(SIGINT, OnSignal).
Install ==
    /\ app = "install"
    /\ handlers' = IF handlers = {} THEN {"SIGTERM"} ELSE Signals
    /\ app' = IF handlers = {} THEN "install" ELSE "run"
    /\ UNCHANGED << vars, is_run, caught >>

\* The loop ends and http.Stop() is called.
StopServer ==
    /\ app = "run"
    /\ ~is_run
    /\ Stop
    /\ app' = "stop"
    /\ UNCHANGED << is_run, handlers, caught >>

StopGoesOn ==
    /\ app = "stop"
    /\ LoopBreak \/ Join
    /\ UNCHANGED appVars

\* Mutant of DestroyServer: main returns without having joined the thread.
DestroyServerEarly ==
    /\ app = "stop"
    /\ main = "join"
    /\ app' = "returned"
    /\ UNCHANGED << vars, is_run, handlers, caught >>

\* http goes out of scope after Stop has returned.
DestroyServer ==
    /\ app = "stop"
    /\ Destroy
    /\ app' = "returned"
    /\ UNCHANGED << is_run, handlers, caught >>

Alive == app \notin {"returned", "killed"}

OnSignal(s) ==
    /\ Alive
    /\ s \in handlers
    /\ is_run' = FALSE
    /\ caught' = TRUE
    /\ UNCHANGED << vars, app, handlers >>

\* The default action of a signal that has no handler.
Kill(s) ==
    /\ Alive
    /\ s \notin handlers
    /\ app' = "killed"
    /\ UNCHANGED << vars, is_run, handlers, caught >>

MainThread == StartServer \/ SetRun \/ Install \/ StopServer \/ StopGoesOn \/ DestroyServer

ServerThread == Alive /\ ThreadProcess /\ UNCHANGED appVars

Surroundings == Alive /\ (\E p \in Paths : Ask(p)) /\ UNCHANGED appVars

Ended == ~Alive /\ UNCHANGED allVars

AppNext ==
    \/ MainThread
    \/ ServerThread
    \/ Surroundings
    \/ \E s \in Signals : OnSignal(s) \/ Kill(s)
    \/ Ended

(***************************************************************************)
(* Both threads are scheduled; the main thread polls is_run every 200 ms.  *)
(* Nothing is assumed of signals and clients.                              *)
(***************************************************************************)
AppSpec ==
    /\ AppInit
    /\ [][AppNext]_allVars
    /\ WF_allVars(MainThread)
    /\ WF_allVars(ServerThread)
-----------------------------------------------------------------------------
(***************************************************************************)
(* "On Linux one leaves by a signal": a signal that was caught is not      *)
(* lost, whenever it came; the program ends.                               *)
(***************************************************************************)
SignalStops == caught ~> ~Alive

(***************************************************************************)
(* main() returns only after a signal, and then with the server's thread   *)
(* gone, its port closed, no client left waiting and the base freed.       *)
(***************************************************************************)
CleanReturn ==
    app = "returned" =>
        /\ caught
        /\ thread = "none"
        /\ ~listening
        /\ Waiting = {}
        /\ ~m_EventBase
=============================================================================
