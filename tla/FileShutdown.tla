---------------------------- MODULE FileShutdown ----------------------------
(***************************************************************************)
(* The delayed deletions over the file storage, while app.Run brings both  *)
(* down: Flusher and FileStore, step by step, with one context that ends   *)
(* the two of them in no order, and the call of Close after wg.Wait. The   *)
(* flush callback is a call of the storage that runs with the mutex of the *)
(* queue held; the persister is at work beside it. No crash here: that is  *)
(* FileStore's.                                                            *)
(***************************************************************************)
EXTENDS FileStore, Functions

CONSTANTS Pushes,     \* the calls of Push, each for one deletion
          UrlOf,      \* UrlOf[p]: the path and the user of that deletion
          Stores,     \* the calls of Store and StoreBatch by handlers
          StoredBy,   \* StoredBy[s]: the urls of such a call
          FlushSize

ASSUME PushesAssumption ==
  IsFiniteSet(Pushes) /\ "runner" \notin Pushes /\ "free" \notin Pushes
ASSUME FlushSizeAssumption == FlushSize \in Nat \ {0}

\* The buffers that Run can give to the callback.
Batches == {b \in UNION {[1..n -> Pushes] : n \in 1..Cardinality(Pushes)} : IsInjective(b)}

\* The calls of the storage that there can be (Calls of FileStore), and what they
\* ask for (its RequestOf): deleteURLs passes a batch to the storage as it is.
StorageCalls == Batches \cup Stores

StorageRequests ==
  [c \in StorageCalls |->
     IF c \in Stores THEN [kind |-> "store", urls |-> StoredBy[c]]
     ELSE [kind |-> "delete", urls |-> [i \in DOMAIN c |-> UrlOf[c[i]]]]]

ASSUME StorageCallsAssumption == StorageCalls \subseteq Calls

\* The variables of the queue; the context, ctxDone, is the one of FileStore.
VARIABLES qshutdown, flushNeed, fillChan, bufMux, buf, size, qpc, rpc, delivered, early

Queue == INSTANCE Flusher WITH Calls <- Pushes, shutdown <- qshutdown, pc <- qpc

queueVars == <<qshutdown, flushNeed, fillChan, bufMux, buf, size, qpc, rpc, delivered, early>>
fileVars == <<mem, changed, shutdown, pc, ppc, dump, file, torn, done, closer,
              up, lives, dirty, ioErr, missed, inflight>>
shutdownVars == <<ctxDone, queueVars, fileVars>>

ShutdownInit == Queue!Init /\ Init

\* A step of the queue alone, while the process is there.
QueueStep(A) == up = "up" /\ A /\ UNCHANGED fileVars

Push(p) == QueueStep(Queue!Push(p))

\* Run outside of the callback.
Select == QueueStep(Queue!SelectFill \/ Queue!SelectTimer \/ Queue!SelectDone)
FlushBegin == QueueStep(Queue!FlushBegin)

InFlush == rpc \in {"flush", "finalflush"}

\* deleteURLs calls DeleteUserURLs with the buffer, the mutex held.
DeleteURLs == InFlush /\ Writer(buf) /\ UNCHANGED queueVars

\* The callback returned; an error was logged.
FlushReturn == InFlush /\ pc[buf] \in {"acked", "refused"} /\ QueueStep(Queue!FlushEnd)

\* A handler stores urls; the persister at its work.
Handler(s) == Writer(s) /\ UNCHANGED queueVars
Persist == Persister /\ UNCHANGED queueVars

\* A signal or an error ends the context of both.
CancelBoth == Queue!Cancel /\ Cancel

\* wg.Wait came back, the flusher among those it waited for.
Close == ctxDone /\ rpc = "stopped" /\ CloseSend /\ UNCHANGED queueVars

\* Close returns and the process exits.
End == (CloseReturn \/ Exit) /\ UNCHANGED queueVars

ShutdownNext == \/ \E p \in Pushes : Push(p)
                \/ Select \/ FlushBegin \/ DeleteURLs \/ FlushReturn
                \/ \E s \in Stores : Handler(s)
                \/ Persist \/ CancelBoth \/ Close \/ End

ShutdownSpec == ShutdownInit /\ [][ShutdownNext]_shutdownVars

\* As in Flusher and FileStore; the callback is a call in progress, and
\* app.Run goes on when it can.
ShutdownFairness ==
  /\ \A p \in Pushes : WF_shutdownVars(QueueStep(Queue!PushAppend(p)))
                       /\ WF_shutdownVars(QueueStep(Queue!PushSend(p)))
  /\ WF_shutdownVars(Select)
  /\ SF_shutdownVars(QueueStep(Queue!SelectFill)) /\ SF_shutdownVars(QueueStep(Queue!SelectDone))
  /\ WF_shutdownVars(FlushBegin) /\ WF_shutdownVars(DeleteURLs) /\ WF_shutdownVars(FlushReturn)
  /\ WF_shutdownVars(SelectTimer /\ UNCHANGED queueVars)
  /\ SF_shutdownVars(SelectStop /\ UNCHANGED queueVars)
  /\ WF_shutdownVars((PersistLoad \/ PersistOpen \/ PersistDump
                      \/ WriteFails \/ WriteRest \/ PersistClear)
                     /\ UNCHANGED queueVars)
  /\ WF_shutdownVars(Close) /\ WF_shutdownVars(End)

ShutdownFairSpec == ShutdownSpec /\ ShutdownFairness

-----------------------------------------------------------------------------

\* The batches that element p was in when it was handed over.
Handed(p) == {b \in Batches : p \in Range(b) /\ pc[b] # "idle"}

\* Where a deletion that was accepted can be when the storage is closed, without an
\* i/o error: in the file, refused by a storage that was stopping, overlooked by
\* the flag (finding of FileStore), overtaken by the last dump, or pushed too
\* late. It is in no other way lost, and a running storage refuses nothing.
LostOnlyInShutdown ==
  /\ \A b \in Batches : pc[b] = "refused" => shutdown /\ ctxDone
  /\ closer = "closed" /\ ~ioErr =>
       \A p \in Pushes : qpc[p] = "done" =>
         \/ \E b \in Handed(p) :
              pc[b] = "refused" \/ (pc[b] = "acked" /\ b \notin dirty \ (missed \cup inflight))
         \/ p \in Range(buf) /\ p \notin early

\* A cancelled application ends: the queue stops though the storage refuses it,
\* Close meets a persister that may have stopped before, and the process exits.
ProcessEnds == ctxDone ~> (up = "down" \/ Queue!Wedged)

\* batch.go:69, "URLs are pushed to flusher queue and deleted asynchronously": what
\* the queue had before its shutdown is deleted by the time it stopped.
EarlyDeletesApplied ==
  rpc = "stopped" => \A p \in early : \E b \in Handed(p) : pc[b] = "acked"
=============================================================================
