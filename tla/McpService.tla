------------------------------ MODULE McpService ------------------------------
(***************************************************************************)
(* The documentation MCP service as run_server_daemon.py runs it: the      *)
(* daemon's main_loop (ServerDaemon) restarting a DAPMCPServer (McpServer)  *)
(* that answers a client's tool calls over stdio.  A server answers calls  *)
(* only while it is serving; server.run() returns at end of input only     *)
(* after it has answered every call still in the input; and a server run   *)
(* that raises loses the call it had read and not yet answered.            *)
(***************************************************************************)
EXTENDS ServerDaemon, Sequences

CONSTANTS Trees, DapFiles, CellFiles, DapExamples, CellExamples, Queries, MaxRequests

VARIABLES docs, examples, inbox, responses, sent

Server == INSTANCE McpServer

serverVars == <<docs, examples, inbox, responses, sent>>
allVars == <<vars, serverVars>>

ServiceInit == Init /\ Server!ServerInit

\* The stdio server reads the rest of its input before run() returns.
ReturnsAtEof ==
  /\ ServerReturns
  /\ inbox = <<>>
  /\ UNCHANGED serverVars

\* server.run() raises: a call it had read and not yet answered is lost
\* with it; calls still in the pipe are read by the next server.
RaisesMidCall ==
  /\ ServerRaises
  /\ \/ inbox' = inbox
     \/ inbox # <<>> /\ inbox' = Tail(inbox)
  /\ UNCHANGED <<docs, examples, responses, sent>>

\* A serving server answers the next call.
Serve ==
  /\ phase = "serving"
  /\ Server!HandleRequest
  /\ UNCHANGED vars

\* The client writes a call while its end of stdio is open.
Send ==
  /\ stdin = "open"
  /\ \E r \in Server!Requests : Server!ClientSends(r)
  /\ UNCHANGED vars

DaemonOnly ==
  /\ \/ DaemonStep \/ ClientDisconnects \/ Done
     \/ \E sig \in Signals : SignalArrives(sig) \/ signal_handler(sig)
  /\ UNCHANGED serverVars

ServiceNext == DaemonOnly \/ ReturnsAtEof \/ RaisesMidCall \/ Serve \/ Send

\* Fairness as in ServerDaemon, and a serving server reads its input.
ServiceSpec ==
  /\ ServiceInit /\ [][ServiceNext]_allVars
  /\ WF_allVars(DaemonStep /\ UNCHANGED serverVars)
  /\ WF_allVars(ReturnsAtEof)
  /\ WF_allVars(Serve)
  /\ \A sig \in Signals : WF_allVars(signal_handler(sig) /\ UNCHANGED serverVars)

\* The same, for a client that eventually closes stdin.
ServiceSpecClientLeaves ==
  ServiceSpec /\ WF_allVars(ClientDisconnects /\ UNCHANGED serverVars)

SearchAnswersReflectDocs == Server!SearchAnswersReflectDocs
ExamplesAnswerReflectsTree == Server!ExamplesAnswerReflectsTree

====
