---------------------------- MODULE AppLifecycle ----------------------------
(***************************************************************************)
(* internal/app.Run and the goroutines it starts: the servers, which hand  *)
(* at most one error each to an unbuffered channel that Run receives from  *)
(* at most once, the flusher, the handlers the servers serve, and the end: *)
(* cancel, wait for everybody, close the storage, return the code.         *)
(***************************************************************************)
EXTENDS Naturals, FiniteSets

CONSTANTS HttpServers,  \* the http server and the profiler: same Run
          GrpcServers,
          Handlers,     \* requests
          Home          \* Home[h]: the server that serves h

Servers == HttpServers \cup GrpcServers

ASSUME ServersAssumption ==
  /\ HttpServers \cap GrpcServers = {}
  /\ Home \in [Handlers -> Servers]

VARIABLES
  mpc,        \* where app.Run is
  code,       \* the value it returns
  ctxDone,    \* the context is cancelled
  signalled,  \* history: a signal cancelled it
  spc,        \* spc[s]: where Run of server s is
  listener,   \* listener[s]: the goroutine of ListenAndServe or Serve
  hpc,        \* hpc[h]: request h
  flusher,    \* Run of the flusher
  store       \* the storage

vars == <<mpc, code, ctxDone, signalled, spc, listener, hpc, flusher, store>>

MainPC == {"init", "select", "wait", "close", "exited"}
ServerPC == {"none", "listen", "select", "report", "shutdown", "stopped"}

Init ==
  /\ mpc = "init" /\ code = 0 /\ ctxDone = FALSE /\ signalled = FALSE
  /\ spc = [s \in Servers |-> "none"] /\ listener = [s \in Servers |-> "none"]
  /\ hpc = [h \in Handlers |-> "none"] /\ flusher = "none" /\ store = "none"

(***************************************************************************)
(* app.Run.                                                                *)
(***************************************************************************)

\* createStorage fails, or everything is started.
Boot ==
  /\ mpc = "init"
  /\ \/ /\ mpc' = "exited" /\ code' = 1
        /\ UNCHANGED <<spc, listener, flusher, store>>
     \/ /\ mpc' = "select" /\ code' = 0
        /\ store' = "open" /\ flusher' = "running"
        /\ spc' = [s \in Servers |-> IF s \in GrpcServers THEN "listen" ELSE "select"]
        /\ listener' = [s \in Servers |-> "starting"]
  /\ UNCHANGED <<ctxDone, signalled, hpc>>

Signal ==
  /\ mpc # "exited" /\ ~ctxDone
  /\ ctxDone' = TRUE /\ signalled' = TRUE
  /\ UNCHANGED <<mpc, code, spc, listener, hpc, flusher, store>>

MainDone ==
  /\ mpc = "select" /\ ctxDone
  /\ mpc' = "wait"
  /\ UNCHANGED <<code, ctxDone, signalled, spc, listener, hpc, flusher, store>>

\* Mutant: nobody waits for the flusher.
WaitDoneServersOnly ==
  /\ mpc = "wait"
  /\ \A s \in Servers : spc[s] = "stopped"
  /\ mpc' = "close"
  /\ UNCHANGED <<code, ctxDone, signalled, spc, listener, hpc, flusher, store>>

\* wg.Wait: every server and the flusher have called Done.
WaitDone ==
  /\ mpc = "wait"
  /\ flusher = "stopped" /\ \A s \in Servers : spc[s] = "stopped"
  /\ mpc' = "close"
  /\ UNCHANGED <<code, ctxDone, signalled, spc, listener, hpc, flusher, store>>

StoreClose ==
  /\ mpc = "close"
  /\ store' = "closed"
  /\ mpc' = "exited"
  /\ UNCHANGED <<code, ctxDone, signalled, spc, listener, hpc, flusher>>

(***************************************************************************)
(* The servers. Http-like ones listen and serve on a goroutine; the gRPC   *)
(* server listens first, and its Run reports a failure at once.            *)
(***************************************************************************)

ListenOk(s) ==
  /\ listener[s] = "starting" /\ mpc # "exited"
  /\ listener' = [listener EXCEPT ![s] = "serving"]
  /\ spc' = IF s \in GrpcServers THEN [spc EXCEPT ![s] = "select"] ELSE spc
  /\ UNCHANGED <<mpc, code, ctxDone, signalled, hpc, flusher, store>>

ListenFails(s) ==
  /\ listener[s] = "starting" /\ mpc # "exited"
  /\ listener' = [listener EXCEPT ![s] = "unbound"]
  /\ spc' = IF s \in GrpcServers THEN [spc EXCEPT ![s] = "report"] ELSE spc
  /\ UNCHANGED <<mpc, code, ctxDone, signalled, hpc, flusher, store>>

\* Accept fails for good on a server that was serving.
ServeFails(s) ==
  /\ listener[s] = "serving" /\ mpc # "exited"
  /\ listener' = [listener EXCEPT ![s] = "broken"]
  /\ UNCHANGED <<mpc, code, ctxDone, signalled, spc, hpc, flusher, store>>

SelectError(s) ==
  /\ spc[s] = "select" /\ listener[s] \in {"unbound", "broken"}
  /\ spc' = [spc EXCEPT ![s] = "report"]
  /\ UNCHANGED <<mpc, code, ctxDone, signalled, listener, hpc, flusher, store>>

\* Mutant: Run of the gRPC server has no case for the context.
SelectDoneHttpOnly(s) ==
  /\ s \in HttpServers /\ spc[s] = "select" /\ ctxDone
  /\ spc' = [spc EXCEPT ![s] = "shutdown"]
  /\ listener' = [listener EXCEPT ![s] = "closed"]
  /\ UNCHANGED <<mpc, code, ctxDone, signalled, hpc, flusher, store>>

\* Shutdown and GracefulStop close the listener and wait for the handlers.
SelectDone(s) ==
  /\ spc[s] = "select" /\ ctxDone
  /\ spc' = [spc EXCEPT ![s] = "shutdown"]
  /\ listener' = [listener EXCEPT ![s] = "closed"]
  /\ UNCHANGED <<mpc, code, ctxDone, signalled, hpc, flusher, store>>

\* Mutant: the error does not change the code.
ReportZero(s) ==
  /\ spc[s] = "report" /\ mpc = "select"
  /\ mpc' = "wait" /\ ctxDone' = TRUE
  /\ spc' = [spc EXCEPT ![s] = "stopped"]
  /\ UNCHANGED <<code, signalled, listener, hpc, flusher, store>>

\* errc <- err meets the receive of app.Run, which cancels the context. After a
\* broken Serve only the gRPC server still waits for its handlers.
Report(s) ==
  /\ spc[s] = "report" /\ mpc = "select"
  /\ mpc' = "wait" /\ code' = 1 /\ ctxDone' = TRUE
  /\ spc' = [spc EXCEPT ![s] =
               IF s \in GrpcServers /\ listener[s] = "broken" THEN "shutdown" ELSE "stopped"]
  /\ UNCHANGED <<signalled, listener, hpc, flusher, store>>

ShutdownDone(s) ==
  /\ spc[s] = "shutdown"
  /\ \A h \in Handlers : Home[h] = s => hpc[h] # "running"
  /\ spc' = [spc EXCEPT ![s] = "stopped"]
  /\ UNCHANGED <<mpc, code, ctxDone, signalled, listener, hpc, flusher, store>>

(***************************************************************************)
(* Requests and the flusher.                                               *)
(***************************************************************************)

HandlerStart(h) ==
  /\ hpc[h] = "none" /\ listener[Home[h]] = "serving" /\ mpc # "exited"
  /\ hpc' = [hpc EXCEPT ![h] = "running"]
  /\ UNCHANGED <<mpc, code, ctxDone, signalled, spc, listener, flusher, store>>

\* The handler uses the storage and answers.
HandlerEnd(h) ==
  /\ hpc[h] = "running" /\ mpc # "exited"
  /\ hpc' = [hpc EXCEPT ![h] = "served"]
  /\ UNCHANGED <<mpc, code, ctxDone, signalled, spc, listener, flusher, store>>

FlusherStop ==
  /\ flusher = "running" /\ ctxDone
  /\ flusher' = "stopped"
  /\ UNCHANGED <<mpc, code, ctxDone, signalled, spc, listener, hpc, store>>

Main == Boot \/ MainDone \/ WaitDone \/ StoreClose
Server(s) == \/ ListenOk(s) \/ ListenFails(s) \/ ServeFails(s) \/ SelectError(s)
             \/ SelectDone(s) \/ Report(s) \/ ShutdownDone(s)
Handler(h) == HandlerStart(h) \/ HandlerEnd(h)

Next == \/ Main \/ Signal \/ FlusherStop
        \/ \E s \in Servers : Server(s)
        \/ \E h \in Handlers : Handler(h)

Spec == Init /\ [][Next]_vars

\* Every goroutine that can go on does, and a handler returns: the storage calls
\* do, and Push does unless the queue is wedged (Flusher). Listeners need not
\* fail, nobody has to send a request or a signal.
Fairness ==
  /\ WF_vars(Main) /\ WF_vars(FlusherStop)
  /\ \A s \in Servers : /\ WF_vars(ListenOk(s) \/ ListenFails(s))
                        /\ WF_vars(SelectError(s) \/ SelectDone(s))
                        /\ WF_vars(Report(s)) /\ WF_vars(ShutdownDone(s))
  /\ \A h \in Handlers : WF_vars(HandlerEnd(h))

FairSpec == Spec /\ Fairness

-----------------------------------------------------------------------------

\* The types.
TypeOK ==
  /\ mpc \in MainPC /\ code \in 0..1 /\ ctxDone \in BOOLEAN /\ signalled \in BOOLEAN
  /\ spc \in [Servers -> ServerPC]
  /\ listener \in [Servers -> {"none", "starting", "serving", "unbound", "broken", "closed"}]
  /\ hpc \in [Handlers -> {"none", "running", "served"}]
  /\ flusher \in {"none", "running", "stopped"} /\ store \in {"none", "open", "closed"}

\* The storage is closed last: no flush and no handler is in progress, except
\* handlers of an http server whose accept loop broke, which nobody waits for.
StoreClosedLast ==
  store = "closed" =>
    /\ flusher = "stopped"
    /\ \A h \in Handlers : hpc[h] = "running" =>
         Home[h] \in HttpServers /\ listener[Home[h]] = "broken"

\* Run returns 0 only after a signal, and 1 only if the storage could not be made
\* or a server failed.
CodeTellsWhy ==
  mpc = "exited" =>
    /\ code = 0 => signalled
    /\ code = 1 => store = "none" \/ \E s \in Servers : listener[s] \in {"unbound", "broken"}

\* A server wants to report when Run receives no more: its wg.Done is never called.
Unheard == mpc = "wait" /\ \E s \in Servers : spc[s] = "report"

\* A server failed, and something else ended the application beside it.
TwoCauses ==
  \E s \in Servers : /\ listener[s] \in {"unbound", "broken"}
                     /\ \/ signalled
                        \/ \E r \in Servers \ {s} : listener[r] \in {"unbound", "broken"}

\* Once cancelled the application ends. Only a second cause can keep it: a report
\* that is not heard, as Run was called away before by a signal or by another error.
StopsWhenCancelled ==
  (ctxDone /\ mpc # "init") ~> (mpc = "exited" \/ (Unheard /\ TwoCauses))

\* app.go:89, "It runs until interrupted or some error occurs": it ends when a
\* server has failed.
EndsOnError ==
  (\E s \in Servers : listener[s] \in {"unbound", "broken"}) ~> mpc = "exited"
=============================================================================
