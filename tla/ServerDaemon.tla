---------------------------- MODULE ServerDaemon ----------------------------
(***************************************************************************)
(* MCPServerDaemon of src/docs/mcp_server/run_server_daemon.py: main_loop  *)
(* installs signal_handler for SIGINT and SIGTERM, sets running and, while *)
(* running holds, runs a DAPMCPServer over stdio.  A server run returns    *)
(* when the client closes stdin and is then restarted at once; a run that  *)
(* raises is restarted after a 5 s sleep if running still holds.  The      *)
(* handler only clears running: it does not stop a server that is serving. *)
(*                                                                         *)
(* A signal that arrives is first only pending (CPython's C handler sets a *)
(* per-signal flag, so a second SIGINT before the first is handled is      *)
(* merged with it); the Python handler then runs in the main thread        *)
(* between two steps of the event loop, so at any step of main_loop.       *)
(* Before the handlers are installed the default ones end the process      *)
(* (KeyboardInterrupt caught by the __main__ block, or SIGTERM).           *)
(***************************************************************************)
EXTENDS Naturals

Signals == {"SIGINT", "SIGTERM"}

VARIABLES
  phase,      \* "init", "check", "starting", "serving", "failed",
              \* "sleeping", "done"
  running,    \* self.running
  stdin,      \* the client's end of stdio: "open" or "eof"
  pending,    \* signals received whose Python handler has not run yet
  received    \* history: the signals received so far

vars == <<phase, running, stdin, pending, received>>

signalled == received # {}

Init ==
  /\ phase = "init"
  /\ running = FALSE
  /\ stdin = "open"
  /\ pending = {}
  /\ received = {}

\* Lines 55-58: install the handlers, running := True.
Register ==
  /\ phase = "init"
  /\ phase' = "check"
  /\ running' = TRUE
  /\ UNCHANGED <<stdin, pending, received>>

\* Line 60: 'while self.running'.
LoopCheck ==
  /\ phase = "check"
  /\ phase' = IF running THEN "starting" ELSE "done"
  /\ UNCHANGED <<running, stdin, pending, received>>

\* run_server: a new DAPMCPServer starts serving stdio.
StartServer ==
  /\ phase = "starting"
  /\ phase' = "serving"
  /\ UNCHANGED <<running, stdin, pending, received>>

\* server.run() returns once stdin is closed; the loop goes round at once.
ServerReturns ==
  /\ phase = "serving"
  /\ stdin = "eof"
  /\ phase' = "check"
  /\ UNCHANGED <<running, stdin, pending, received>>

\* server.run() (or the constructor) raises; run_server re-raises.
ServerRaises ==
  /\ phase = "serving"
  /\ phase' = "failed"
  /\ UNCHANGED <<running, stdin, pending, received>>

\* Lines 67-73: sleep 5 s before a restart if still running, else break.
HandleError ==
  /\ phase = "failed"
  /\ phase' = IF running THEN "sleeping" ELSE "done"
  /\ UNCHANGED <<running, stdin, pending, received>>

\* Line 71: the 5 s sleep ends.
SleepDone ==
  /\ phase = "sleeping"
  /\ phase' = "check"
  /\ UNCHANGED <<running, stdin, pending, received>>

\* The client closes its end of stdio.
ClientDisconnects ==
  /\ stdin = "open"
  /\ stdin' = "eof"
  /\ UNCHANGED <<phase, running, pending, received>>

\* A SIGINT or SIGTERM arrives (one already pending is merged with it);
\* before line 55 the default handler ends the process.
SignalArrives(sig) ==
  /\ phase # "done"
  /\ sig \notin pending
  /\ received' = received \cup {sig}
  /\ IF phase = "init"
       THEN phase' = "done" /\ UNCHANGED pending
       ELSE pending' = pending \cup {sig} /\ UNCHANGED phase
  /\ UNCHANGED <<running, stdin>>

\* Mutant: the handler logs the signal but leaves running set.
signal_handler_LogOnly(sig) ==
  /\ phase # "done"
  /\ sig \in pending
  /\ pending' = pending \ {sig}
  /\ UNCHANGED <<phase, running, stdin, received>>

\* signal_handler (lines 37-40), run by the interpreter for a pending
\* signal.
signal_handler(sig) ==
  /\ phase # "done"
  /\ sig \in pending
  /\ running' = FALSE
  /\ pending' = pending \ {sig}
  /\ UNCHANGED <<phase, stdin, received>>

\* main_loop has returned and the process has exited.
Done ==
  /\ phase = "done"
  /\ UNCHANGED vars

DaemonStep ==
  Register \/ LoopCheck \/ StartServer \/ HandleError \/ SleepDone

Next ==
  \/ DaemonStep
  \/ ServerReturns \/ ServerRaises
  \/ ClientDisconnects
  \/ \E sig \in Signals : SignalArrives(sig) \/ signal_handler(sig)
  \/ Done

\* The event loop keeps running main_loop, the interpreter runs the
\* handler of a pending signal, and a server whose stdin is closed
\* returns: these steps are weakly fair.  Whether and when a signal
\* arrives or the client closes stdin is up to the environment.
Spec ==
  /\ Init /\ [][Next]_vars
  /\ WF_vars(DaemonStep)
  /\ WF_vars(ServerReturns)
  /\ \A sig \in Signals : WF_vars(signal_handler(sig))

\* The same, for a client that eventually closes stdin.
SpecClientLeaves == Spec /\ WF_vars(ClientDisconnects)

-----------------------------------------------------------------------------
\* Once a SIGINT or SIGTERM has arrived, the daemon eventually exits.
\* signal_handler only clears running, which main_loop reads when the
\* server run it is in returns or fails: wherever in main_loop the signal
\* lands (even between the while-check and the start of a new server),
\* the daemon exits once the client has gone away (SpecClientLeaves).
\* With a client that keeps its session open (Spec) it never does,
\* although the handler is there "for a correct shutdown".
SignalStopsDaemon == signalled ~> phase = "done"

====
