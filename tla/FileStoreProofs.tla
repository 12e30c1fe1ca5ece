-------------------------- MODULE FileStoreProofs --------------------------
(***************************************************************************)
(* Proofs about FileStore for any calls, requests and number of lives: the *)
(* file is a part of one dump, a torn file needs a crash or an error, and  *)
(* what the reset flag and a graceful stop really promise. The inductive   *)
(* invariant relates the map, the last dump and the file, and the calls    *)
(* that have changed the map since the dump (dirty) to the flag.           *)
(***************************************************************************)
EXTENDS FileShutdown, FiniteSetTheorems, SequenceTheorems, TLAPS

IsFcn(m) == m = [k \in DOMAIN m |-> m[k]]

\* What the steps need to know of the types.
Shape ==
  /\ IsFcn(mem) /\ IsFcn(dump) /\ IsFcn(file)
  /\ pc \in [Calls -> CallPC] /\ ppc \in PersistPC
  /\ changed \in BOOLEAN /\ shutdown \in BOOLEAN
  /\ up \in {"up", "down", "broken"}
  /\ dirty \subseteq Calls /\ missed \subseteq Calls /\ inflight \subseteq Calls

\* The file is a part of the last dump, and all of it between two rewrites.
FileInv ==
  /\ FileOfOneDump
  /\ TornOnlyMidWrite
  /\ ppc = "dump" => DOMAIN file = {}
  /\ ppc \notin {"dump", "write"} /\ ~ioErr => file = dump

\* The map is the last dump unless a dirty call changed it; only a rewrite in
\* progress may reset the flag, and then it remembers whose mark it resets.
DirtyInv ==
  /\ dirty = {} => mem = dump
  /\ up = "up" => \A c \in dirty : pc[c] \in {"mark", "acked"}
  /\ ppc \in {"open", "dump", "write", "clear"} => changed
  /\ ~changed => \A c \in dirty : pc[c] = "acked" => c \in missed

\* The last persist: only calls that were in progress can still change the map.
StopInv ==
  /\ ppc = "closed" => shutdown
  /\ shutdown => /\ ppc # "select"
                 /\ \A c \in Calls : pc[c] \in {"apply", "mark"} => c \in inflight
                 /\ ppc \in {"write", "clear"} => dirty \subseteq inflight
  /\ CloseKeepsAcked

IInv == Shape /\ FileInv /\ DirtyInv /\ StopInv

-----------------------------------------------------------------------------

\* The maps that the operations of UrlMap build are functions.
LEMMA MapShapes ==
  ASSUME NEW m, NEW urls
  PROVE  /\ IsFcn(EmptyMap)
         /\ IsFcn(PutAll(m, urls))
         /\ IsFcn(MarkDeleted(m, urls))
BY DEF IsFcn, EmptyMap, PutAll, MarkDeleted

LEMMA InitIInv == Init => IInv
<1> SUFFICES ASSUME Init PROVE IInv
  OBVIOUS
<1>1. Shape
  BY MapShapes DEF Init, Shape, CallPC, PersistPC
<1>2. FileInv
  BY DEF Init, FileInv, FileOfOneDump, TornOnlyMidWrite, EmptyMap
<1>3. DirtyInv /\ StopInv
  BY DEF Init, DirtyInv, StopInv, CloseKeepsAcked
<1> QED  BY <1>1, <1>2, <1>3 DEF IInv

LEMMA NextShape == IInv /\ [Next]_vars => Shape'
<1> SUFFICES ASSUME IInv, [Next]_vars PROVE Shape'
  OBVIOUS
<1> USE DEF IInv, Shape, CallPC, PersistPC, AfterPersist
<1>1. ASSUME NEW c \in Calls, Enter(c) PROVE Shape'
  BY <1>1 DEF Enter
<1>2. ASSUME NEW c \in Calls, Apply(c) PROVE Shape'
  BY <1>2, MapShapes DEF Apply
<1>3. ASSUME NEW c \in Calls, Mark(c) PROVE Shape'
  BY <1>3 DEF Mark
<1>4. CASE SelectTimer \/ SelectStop \/ PersistLoad \/ PersistOpen
  BY <1>4, MapShapes DEF SelectTimer, SelectStop, PersistLoad, PersistOpen
<1>5. CASE PersistDump \/ WriteSome \/ WriteFails \/ WriteRest \/ PersistClear
  BY <1>5 DEF PersistDump, WriteSome, WriteFails, WriteRest, PersistClear, Part, IsFcn
<1>6. CASE Cancel \/ CloseSend \/ CloseReturn \/ Exit \/ Crash
  BY <1>6 DEF Cancel, CloseSend, CloseReturn, Exit, Crash, Stop
<1>7. CASE Restart
  <2>1. CASE Loads /\ up' = "up" /\ Boot(file)
    BY <1>7, <2>1 DEF Restart, Boot
  <2>2. CASE ~Loads /\ up' = "broken"
    BY <1>7, <2>2 DEF Restart
  <2> QED  BY <1>7, <2>1, <2>2 DEF Restart
<1>8. CASE UNCHANGED vars
  BY <1>8 DEF vars
<1> QED
  BY <1>1, <1>2, <1>3, <1>4, <1>5, <1>6, <1>7, <1>8 DEF Next, Writer, Persister, App

LEMMA NextFileInv == IInv /\ [Next]_vars => FileInv'
<1> SUFFICES ASSUME IInv, [Next]_vars PROVE FileInv'
  OBVIOUS
<1> USE DEF IInv, Shape, PersistPC, FileInv, FileOfOneDump, TornOnlyMidWrite
<1>1. ASSUME UNCHANGED <<dump, file, torn, ppc, ioErr>> PROVE FileInv'
  BY <1>1
<1>2. ASSUME NEW c \in Calls, Writer(c) PROVE FileInv'
  BY <1>1, <1>2 DEF Writer, Enter, Apply, Mark
<1>3. CASE SelectTimer \/ SelectStop \/ PersistLoad \/ PersistClear
  BY <1>3 DEF SelectTimer, SelectStop, PersistLoad, PersistClear, AfterPersist
<1>4. CASE PersistOpen
  BY <1>4 DEF PersistOpen, AfterPersist, EmptyMap
<1>5. CASE PersistDump
  BY <1>5 DEF PersistDump
<1>6. CASE WriteSome
  BY <1>6 DEF WriteSome, Part
<1>7. CASE WriteFails
  BY <1>7 DEF WriteFails, AfterPersist
<1>8. CASE WriteRest
  <2>1. CASE Part(DOMAIN dump, FALSE) /\ UNCHANGED ioErr
    <3>1. file' = dump /\ torn' = FALSE
      BY <2>1 DEF Part, IsFcn
    <3> QED  BY <1>8, <3>1 DEF WriteRest
  <2>2. CASE ioErr' = TRUE /\ UNCHANGED <<file, torn>>
    BY <1>8, <2>2 DEF WriteRest
  <2> QED  BY <1>8, <2>1, <2>2 DEF WriteRest
<1>9. CASE Cancel \/ CloseSend \/ CloseReturn \/ Exit \/ Crash
  BY <1>1, <1>9 DEF Cancel, CloseSend, CloseReturn, Exit, Crash, Stop
<1>10. CASE Restart
  <2>1. CASE Loads /\ up' = "up" /\ Boot(file)
    <3>1. dump' = file /\ file' = file /\ torn' = FALSE /\ ppc' = "select"
      BY <1>10, <2>1 DEF Restart, Boot, Loads
    <3> QED  BY <3>1
  <2>2. CASE ~Loads /\ UNCHANGED <<dump, ppc, ioErr>>
    BY <1>1, <1>10, <2>2 DEF Restart
  <2> QED  BY <1>10, <2>1, <2>2 DEF Restart
<1>11. CASE UNCHANGED vars
  BY <1>1, <1>11 DEF vars
<1> QED
  BY <1>2, <1>3, <1>4, <1>5, <1>6, <1>7, <1>8, <1>9, <1>10, <1>11
  DEF Next, Persister, App

LEMMA NextDirtyInv == IInv /\ [Next]_vars => DirtyInv'
<1> SUFFICES ASSUME IInv, [Next]_vars PROVE DirtyInv'
  OBVIOUS
<1> USE DEF IInv, Shape, PersistPC, CallPC, DirtyInv
<1>1. ASSUME UNCHANGED <<mem, dump, dirty, missed, changed, pc, ppc, up>> PROVE DirtyInv'
  BY <1>1
<1>2. ASSUME NEW c \in Calls, Enter(c) PROVE DirtyInv'
  BY <1>2 DEF Enter
<1>3. ASSUME NEW c \in Calls, Apply(c) PROVE DirtyInv'
  BY <1>3 DEF Apply
<1>4. ASSUME NEW c \in Calls, Mark(c) PROVE DirtyInv'
  BY <1>4 DEF Mark
<1>5. CASE SelectTimer \/ SelectStop \/ PersistLoad \/ PersistOpen
  BY <1>5 DEF SelectTimer, SelectStop, PersistLoad, PersistOpen, AfterPersist
<1>6. CASE PersistDump \/ WriteSome \/ WriteFails \/ WriteRest
  BY <1>6 DEF PersistDump, WriteSome, WriteFails, WriteRest, AfterPersist
<1>7. CASE PersistClear
  BY <1>7 DEF PersistClear, AfterPersist
<1>8. CASE Cancel \/ CloseSend \/ CloseReturn
  BY <1>1, <1>8 DEF Cancel, CloseSend, CloseReturn
<1>9. CASE Exit \/ Crash
  BY <1>9 DEF Exit, Crash, Stop
<1>10. CASE Restart
  <2>1. CASE Loads /\ up' = "up" /\ Boot(file)
    BY <1>10, <2>1 DEF Restart, Boot
  <2>2. CASE ~Loads /\ up' = "broken"
               /\ UNCHANGED <<mem, dump, dirty, missed, changed, pc, ppc>>
    BY <2>2
  <2> QED  BY <1>10, <2>1, <2>2 DEF Restart
<1>11. CASE UNCHANGED vars
  BY <1>1, <1>11 DEF vars
<1> QED
  BY <1>2, <1>3, <1>4, <1>5, <1>6, <1>7, <1>8, <1>9, <1>10, <1>11
  DEF Next, Writer, Persister, App

LEMMA NextStopInv == IInv /\ [Next]_vars => StopInv'
<1> SUFFICES ASSUME IInv, [Next]_vars PROVE StopInv'
  OBVIOUS
<1> USE DEF IInv, Shape, PersistPC, CallPC, StopInv, CloseKeepsAcked
<1>1. ASSUME UNCHANGED <<shutdown, ppc, pc, inflight, dirty, missed, ioErr>> PROVE StopInv'
  BY <1>1
<1>2. ASSUME NEW c \in Calls, Writer(c) PROVE StopInv'
  BY <1>2 DEF Writer, Enter, Apply, Mark
<1>3. CASE SelectTimer \/ SelectStop \/ PersistOpen
  BY <1>3 DEF SelectTimer, SelectStop, PersistOpen, AfterPersist
<1>4. CASE PersistLoad
  <2>1. up = "up" /\ ppc = "load" /\ UNCHANGED <<shutdown, pc, inflight, dirty, missed, ioErr>>
    BY <1>4 DEF PersistLoad
  <2>2. CASE changed
    BY <1>4, <2>1, <2>2 DEF PersistLoad
  <2>3. CASE ~changed
    <3>1. shutdown => dirty \subseteq missed \cup inflight
      BY <2>1, <2>3 DEF DirtyInv
    <3> QED  BY <1>4, <2>1, <2>3, <3>1 DEF PersistLoad, AfterPersist
  <2> QED  BY <2>2, <2>3
<1>5. CASE PersistDump \/ WriteSome \/ WriteFails \/ WriteRest
  <2>1. CASE PersistDump
    BY <2>1 DEF PersistDump
  <2>2. CASE WriteSome
    BY <1>1, <2>2 DEF WriteSome
  <2>3. CASE WriteFails
    BY <2>3 DEF WriteFails, AfterPersist
  <2>4. CASE WriteRest
    <3>1. /\ ppc = "write" /\ ppc' = "clear"
          /\ UNCHANGED <<shutdown, pc, inflight, dirty, missed>>
      BY <2>4 DEF WriteRest
    <3> QED  BY <3>1
  <2> QED  BY <1>5, <2>1, <2>2, <2>3, <2>4
<1>6. CASE PersistClear
  <2>1. ppc = "clear" /\ ppc' = AfterPersist /\ UNCHANGED <<shutdown, pc, inflight, dirty, ioErr>>
    BY <1>6 DEF PersistClear
  <2>2. CASE shutdown
    <3>1. dirty \subseteq inflight /\ ppc' = "closed"
      BY <2>1, <2>2 DEF AfterPersist
    <3> QED  BY <2>1, <2>2, <3>1
  <2>3. CASE ~shutdown
    BY <2>1, <2>3 DEF AfterPersist
  <2> QED  BY <2>2, <2>3
<1>7. CASE Cancel \/ CloseSend \/ CloseReturn
  BY <1>1, <1>7 DEF Cancel, CloseSend, CloseReturn
<1>8. CASE Exit \/ Crash
  BY <1>8 DEF Exit, Crash, Stop
<1>9. CASE Restart
  <2>1. CASE Loads /\ up' = "up" /\ Boot(file)
    BY <1>9, <2>1 DEF Restart, Boot
  <2>2. CASE ~Loads /\ UNCHANGED <<shutdown, ppc, inflight, dirty, missed, ioErr>>
    BY <1>1, <1>9, <2>2 DEF Restart
  <2> QED  BY <1>9, <2>1, <2>2 DEF Restart
<1>10. CASE UNCHANGED vars
  BY <1>1, <1>10 DEF vars
<1> QED
  BY <1>2, <1>3, <1>4, <1>5, <1>6, <1>7, <1>8, <1>9, <1>10 DEF Next, Persister, App

-----------------------------------------------------------------------------

\* IInv is inductive.
THEOREM Inductive == Spec => []IInv
<1>1. IInv /\ [Next]_vars => IInv'
  BY NextShape, NextFileInv, NextDirtyInv, NextStopInv DEF IInv
<1> QED  BY InitIInv, <1>1, PTL DEF Spec

\* The file never mixes two dumps.
THEOREM OneDump == Spec => []FileOfOneDump
<1>1. IInv => FileOfOneDump
  BY DEF IInv, FileInv
<1> QED  BY <1>1, Inductive, PTL

\* Only a crash or an i/o error during a rewrite leaves a torn file behind.
THEOREM TornMidWrite == Spec => []TornOnlyMidWrite
<1>1. IInv => TornOnlyMidWrite
  BY DEF IInv, FileInv
<1> QED  BY <1>1, Inductive, PTL

\* With the flag reset, no mark missed and nobody about to mark, the file is the map.
THEOREM QuietFile == Spec => []QuietFileIsCurrent
<1>1. IInv => QuietFileIsCurrent
  <2> SUFFICES ASSUME IInv, up = "up", ppc \in {"select", "closed"}, ~changed, ~ioErr,
                      \A c \in Calls : pc[c] # "mark", missed = {}
               PROVE  file = mem
    BY DEF QuietFileIsCurrent
  <2>1. dirty = {}
    BY DEF IInv, Shape, DirtyInv
  <2> QED  BY <2>1 DEF IInv, DirtyInv, FileInv
<1> QED  BY <1>1, Inductive, PTL

\* What a graceful stop persists.
THEOREM GracefulStop == Spec => []CloseKeepsAcked
<1>1. IInv => CloseKeepsAcked
  BY DEF IInv, StopInv
<1> QED  BY <1>1, Inductive, PTL

-----------------------------------------------------------------------------

(***************************************************************************)
(* FileShutdown: the queue and the storage while both stop. Each step is a *)
(* step of Flusher or leaves its variables alone, and the same of          *)
(* FileStore, so their inductive invariants hold of the composition; Glue  *)
(* says what holds between the two.                                        *)
(***************************************************************************)

QP == INSTANCE FlusherProofs WITH Calls <- Pushes, shutdown <- qshutdown, pc <- qpc

\* The storage stops after the context ended, Close is called after the queue
\* stopped, a call is refused by a storage that stops, and what the queue handed
\* over was in a batch whose call returned.
Glue ==
  /\ shutdown => ctxDone
  /\ done = 1 => closer # "none"
  /\ closer # "none" => ctxDone /\ rpc = "stopped"
  /\ closer = "closed" => ppc = "closed"
  /\ \A c \in Calls : pc[c] = "refused" => shutdown
  /\ InFlush => buf # <<>>
  /\ \A p \in Range(delivered) :
       \E b \in Batches : p \in Range(b) /\ pc[b] \in {"acked", "refused"}

\* The buffer of a queue in order that is not empty is a batch.
LEMMA BufferIsBatch ==
  ASSUME QP!IInv, buf # <<>>
  PROVE  buf \in Batches
<1>1. buf \in Seq(Pushes) /\ delivered \in Seq(Pushes)
  BY DEF QP!IInv, QP!TypeOK
<1>2. IsInjective(buf)
  <2>1. \A i, j \in DOMAIN (delivered \o buf) :
          (delivered \o buf)[i] = (delivered \o buf)[j] => i = j
    BY DEF QP!IInv, QP!StoredExactlyOnce, QP!IsInjective, QP!Log
  <2>2. \A i \in DOMAIN buf : /\ Len(delivered) + i \in DOMAIN (delivered \o buf)
                              /\ (delivered \o buf)[Len(delivered) + i] = buf[i]
    BY <1>1
  <2>3. \A i, j \in DOMAIN buf :
          i \in Nat /\ j \in Nat /\ Len(delivered) \in Nat
          /\ (Len(delivered) + i = Len(delivered) + j => i = j)
    BY <1>1
  <2> QED  BY <2>1, <2>2, <2>3 DEF IsInjective
<1>3. Len(buf) \in Nat \ {0} /\ buf \in [1..Len(buf) -> Pushes]
  BY <1>1
<1>4. Len(buf) <= Cardinality(Pushes) /\ Cardinality(Pushes) \in Nat
  <2>1. buf \in Injection(1..Len(buf), Pushes)
    BY <1>2, <1>3 DEF Injection
  <2>2. Cardinality(1..Len(buf)) = Len(buf)
    BY <1>3, FS_Interval
  <2> QED  BY <2>1, <2>2, FS_Injection, FS_CardinalityType, PushesAssumption
<1>5. Len(buf) \in 1..Cardinality(Pushes)
  BY <1>3, <1>4
<1> QED  BY <1>2, <1>3, <1>5 DEF Batches

\* Every step is one of the queue or leaves it alone.
LEMMA QueueStepOrNone == [ShutdownNext]_shutdownVars => [QP!Next]_(QP!vars)
<1> SUFFICES ASSUME [ShutdownNext]_shutdownVars PROVE QP!Next \/ UNCHANGED QP!vars
  OBVIOUS
<1> USE DEF QueueStep, fileVars
<1>1. ASSUME NEW p \in Pushes, Push(p) PROVE QP!Push(p)
  BY <1>1 DEF Push, Queue!Push, Queue!PushEnter, Queue!PushAppend, Queue!PushSend, Queue!Free,
              QP!Push, QP!PushEnter, QP!PushAppend, QP!PushSend, QP!Free
<1>2. CASE Select
  BY <1>2 DEF Select, Queue!SelectFill, Queue!SelectTimer, Queue!SelectDone, Queue!Log,
              Queue!Range, QP!Next, QP!Run, QP!SelectFill, QP!SelectTimer, QP!SelectDone,
              QP!Log, QP!Range
<1>3. CASE FlushBegin
  BY <1>3 DEF FlushBegin, Queue!FlushBegin, Queue!AfterFlush, Queue!Free, Queue!Runner,
              QP!Next, QP!Run, QP!FlushBegin, QP!AfterFlush, QP!Free, QP!Runner
<1>4. CASE FlushReturn
  BY <1>4 DEF FlushReturn, Queue!FlushEnd, Queue!AfterFlush, Queue!Free,
              QP!Next, QP!Run, QP!FlushEnd, QP!AfterFlush, QP!Free
<1>5. CASE CancelBoth
  BY <1>5 DEF CancelBoth, Queue!Cancel, QP!Next, QP!Cancel
<1>6. ASSUME UNCHANGED <<ctxDone, queueVars>> PROVE UNCHANGED QP!vars
  BY <1>6 DEF queueVars, QP!vars
<1>7. ASSUME NEW c, Writer(c), UNCHANGED queueVars PROVE UNCHANGED QP!vars
  BY <1>6, <1>7 DEF Writer, Enter, Apply, Mark
<1>8. CASE Persist
  BY <1>6, <1>8 DEF Persist, Persister, SelectTimer, SelectStop, PersistLoad, PersistOpen,
                    PersistDump, WriteSome, WriteFails, WriteRest, PersistClear
<1>9. CASE Close \/ End \/ UNCHANGED shutdownVars
  BY <1>6, <1>9 DEF Close, CloseSend, End, CloseReturn, Exit, Stop, shutdownVars
<1> QED
  BY <1>1, <1>2, <1>3, <1>4, <1>5, <1>7, <1>8, <1>9
  DEF ShutdownNext, DeleteURLs, Handler, QP!Next

\* Every step is one of the storage or leaves it alone.
LEMMA StoreStepOrNone ==
  QP!IInv /\ Glue /\ [ShutdownNext]_shutdownVars => [Next]_vars
<1> SUFFICES ASSUME QP!IInv, Glue, [ShutdownNext]_shutdownVars PROVE Next \/ UNCHANGED vars
  OBVIOUS
<1>1. ASSUME UNCHANGED <<ctxDone, fileVars>> PROVE UNCHANGED vars
  BY <1>1 DEF fileVars, vars
<1>2. ASSUME NEW p \in Pushes, Push(p) PROVE UNCHANGED vars
  BY <1>1, <1>2 DEF Push, QueueStep, Queue!Push, Queue!PushEnter, Queue!PushAppend,
                    Queue!PushSend
<1>3. CASE Select \/ FlushBegin \/ FlushReturn
  BY <1>1, <1>3 DEF Select, FlushBegin, FlushReturn, QueueStep, Queue!SelectFill,
                    Queue!SelectTimer, Queue!SelectDone, Queue!FlushBegin, Queue!FlushEnd
<1>4. CASE DeleteURLs
  BY <1>4, BufferIsBatch, StorageCallsAssumption DEF DeleteURLs, Glue, StorageCalls, Next
<1>5. ASSUME NEW s \in Stores, Handler(s) PROVE Next
  BY <1>5, StorageCallsAssumption DEF Handler, StorageCalls, Next
<1>6. CASE Persist \/ CancelBoth \/ Close \/ End
  BY <1>6 DEF Persist, CancelBoth, Close, End, Next, App
<1>7. CASE UNCHANGED shutdownVars
  BY <1>1, <1>7 DEF shutdownVars
<1> QED  BY <1>2, <1>3, <1>4, <1>5, <1>6, <1>7 DEF ShutdownNext


\* Glue holds at first.
LEMMA GlueInit == ShutdownInit => Glue
<1> SUFFICES ASSUME ShutdownInit PROVE Glue
  OBVIOUS
<1>1. Range(delivered) = {}
  BY DEF ShutdownInit, Queue!Init, Range
<1>2. StorageCalls \subseteq Calls
  BY StorageCallsAssumption
<1> QED  BY <1>1, <1>2 DEF ShutdownInit, Queue!Init, Init, Glue, InFlush

\* The call for batch b returned.
Returned(b) == pc[b] \in {"acked", "refused"}

\* What the queue handed over: it grows by the batch of a call that returned.
LEMMA GlueDelivered ==
  ASSUME QP!IInv, Shape, Glue, [ShutdownNext]_shutdownVars
  PROVE  \A p \in Range(delivered)' :
           \E b \in Batches : p \in Range(b) /\ pc'[b] \in {"acked", "refused"}
<1> USE StorageCallsAssumption DEF Shape, StorageCalls
<1>1. \A b \in Batches : Returned(b) => pc'[b] \in {"acked", "refused"}
  <2> SUFFICES ASSUME NEW b \in Batches, Returned(b) PROVE pc'[b] \in {"acked", "refused"}
    OBVIOUS
  <2>1. b \in Calls
    OBVIOUS
  <2>2. CASE Next
    <3>1. ASSUME NEW c \in Calls, Writer(c) PROVE pc'[b] \in {"acked", "refused"}
      BY <2>1, <3>1 DEF Returned, Writer, Enter, Apply, Mark
    <3>2. CASE Persister
      BY <3>2 DEF Returned, Persister, SelectTimer, SelectStop, PersistLoad, PersistOpen,
                  PersistDump, WriteSome, WriteFails, WriteRest, PersistClear
    <3>3. CASE App
      BY <2>1, <3>3 DEF Returned, App, Cancel, CloseSend, CloseReturn, Exit, Crash, Stop,
                        Restart
    <3> QED  BY <2>2, <3>1, <3>2, <3>3 DEF Next
  <2>3. CASE UNCHANGED vars
    BY <2>3 DEF vars, Returned
  <2> QED  BY <2>2, <2>3, StoreStepOrNone
<1>2. CASE delivered' = delivered
  BY <1>1, <1>2 DEF Glue, Returned
<1>3. CASE FlushReturn
  <2>1. buf \in Batches /\ Returned(buf) /\ delivered' = delivered \o buf
    BY <1>3, BufferIsBatch DEF FlushReturn, QueueStep, Queue!FlushEnd, Glue, Returned
  <2>2. Range(delivered \o buf) = Range(delivered) \cup Range(buf)
    BY RangeConcatenation DEF QP!IInv, QP!TypeOK
  <2> QED  BY <1>1, <2>1, <2>2 DEF Glue, Returned
<1>4. delivered' = delivered \/ FlushReturn
  <2>1. CASE ShutdownNext
    BY <2>1 DEF ShutdownNext, Push, Select, FlushBegin, DeleteURLs, Handler, Persist,
                CancelBoth, Close, End, QueueStep, queueVars,
                Queue!Push, Queue!PushEnter, Queue!PushAppend, Queue!PushSend,
                Queue!SelectFill, Queue!SelectTimer, Queue!SelectDone, Queue!FlushBegin,
                Queue!Cancel
  <2>2. CASE UNCHANGED shutdownVars
    BY <2>2 DEF shutdownVars, queueVars
  <2> QED  BY <2>1, <2>2
<1> QED  BY <1>2, <1>3, <1>4


\* Every step keeps Glue.
LEMMA GlueNext ==
  QP!IInv /\ IInv /\ Glue /\ [ShutdownNext]_shutdownVars => Glue'
<1> SUFFICES ASSUME QP!IInv, IInv, Glue, [ShutdownNext]_shutdownVars PROVE Glue'
  OBVIOUS
<1> DEFINE Signals == /\ shutdown => ctxDone
                      /\ done = 1 => closer # "none"
                      /\ closer # "none" => ctxDone /\ rpc = "stopped"
                      /\ closer = "closed" => ppc = "closed"
           Refusals == \A c \in Calls : pc[c] = "refused" => shutdown
           Batch == InFlush => buf # <<>>
<1>1. \A p \in Range(delivered)' :
        \E b \in Batches : p \in Range(b) /\ pc'[b] \in {"acked", "refused"}
  BY GlueDelivered DEF IInv
<1> SUFFICES Signals' /\ Refusals' /\ Batch'
  BY <1>1 DEF Glue
<1>2. ASSUME UNCHANGED fileVars, ctxDone' = ctxDone, rpc = "stopped" => rpc' = "stopped"
      PROVE  Signals' /\ Refusals'
  BY <1>2 DEF Glue, fileVars
<1>3. ASSUME NEW p \in Pushes, Push(p) PROVE Signals' /\ Refusals' /\ Batch'
  <2>1. rpc' = rpc /\ ctxDone' = ctxDone /\ UNCHANGED fileVars
    BY <1>3 DEF Push, QueueStep, Queue!Push, Queue!PushEnter, Queue!PushAppend,
                Queue!PushSend
  <2>2. buf' = buf \/ buf' = Append(buf, p)
    BY <1>3 DEF Push, QueueStep, Queue!Push, Queue!PushEnter, Queue!PushAppend,
                Queue!PushSend
  <2>3. buf \in Seq(Pushes) => Append(buf, p) # <<>>
    BY AppendProperties
  <2> QED  BY <1>2, <2>1, <2>2, <2>3 DEF Glue, InFlush, QP!IInv, QP!TypeOK
<1>4. CASE Select \/ FlushBegin \/ FlushReturn
  <2>1. /\ UNCHANGED <<fileVars, ctxDone>> /\ rpc # "stopped"
        /\ rpc' \in {"flush", "finalflush"} => buf' # <<>>
    BY <1>4 DEF Select, FlushBegin, FlushReturn, QueueStep, Queue!SelectFill,
                Queue!SelectTimer, Queue!SelectDone, Queue!FlushBegin, Queue!FlushEnd,
                Queue!AfterFlush
  <2> QED  BY <1>2, <2>1 DEF InFlush
<1>5. ASSUME NEW c, Writer(c), UNCHANGED queueVars PROVE Signals' /\ Refusals' /\ Batch'
  BY <1>5 DEF Writer, Enter, Apply, Mark, Glue, InFlush, queueVars, IInv, Shape
<1>6. CASE Persist
  <2> USE DEF Persist, Glue, InFlush, queueVars
  <2>1. CASE SelectTimer \/ SelectStop \/ PersistLoad \/ PersistOpen \/ PersistDump
    BY <1>6, <2>1 DEF SelectTimer, SelectStop, PersistLoad, PersistOpen, PersistDump
  <2>2. CASE WriteSome
    BY <1>6, <2>2 DEF WriteSome
  <2>3. CASE WriteFails
    BY <1>6, <2>3 DEF WriteFails
  <2>4. CASE WriteRest
    BY <1>6, <2>4 DEF WriteRest
  <2>5. CASE PersistClear
    BY <1>6, <2>5 DEF PersistClear
  <2> QED  BY <1>6, <2>1, <2>2, <2>3, <2>4, <2>5 DEF Persister
<1>7. CASE CancelBoth
  BY <1>7 DEF CancelBoth, Queue!Cancel, Cancel, Glue, InFlush
<1>8. CASE Close
  BY <1>8 DEF Close, CloseSend, Glue, InFlush, queueVars
<1>9. CASE End
  BY <1>9 DEF End, CloseReturn, Exit, Stop, Glue, InFlush, queueVars, IInv, Shape
<1>10. CASE UNCHANGED shutdownVars
  BY <1>10 DEF shutdownVars, queueVars, fileVars, Glue, InFlush
<1> QED
  BY <1>3, <1>4, <1>5, <1>6, <1>7, <1>8, <1>9, <1>10 DEF ShutdownNext, DeleteURLs, Handler

-----------------------------------------------------------------------------

\* The queue of the composition is Flusher: whatever the storage and its stop do
\* to it, its elements are stored once and its mutex has one holder.
THEOREM ShutdownRunsQueue == ShutdownSpec => QP!Spec /\ []QP!IInv
<1>1. ShutdownInit => QP!Init
  BY DEF ShutdownInit, Queue!Init, QP!Init, Queue!Free, QP!Free
<1>2. QP!Spec => []QP!IInv
  BY QP!Inductive, PushesAssumption, FlushSizeAssumption
<1>3. ShutdownSpec => QP!Spec
  BY <1>1, QueueStepOrNone, PTL DEF ShutdownSpec, QP!Spec
<1> QED  BY <1>2, <1>3, PTL

\* The inductive invariant of the composition.
THEOREM ShutdownInductive == ShutdownSpec => [](IInv /\ Glue)
<1>1. ShutdownInit => IInv /\ Glue
  BY GlueInit, InitIInv DEF ShutdownInit
<1>2. QP!IInv /\ IInv /\ Glue /\ [ShutdownNext]_shutdownVars => IInv' /\ Glue'
  <2> SUFFICES ASSUME QP!IInv, IInv, Glue, [ShutdownNext]_shutdownVars
               PROVE  IInv' /\ Glue'
    OBVIOUS
  <2>1. [Next]_vars
    BY StoreStepOrNone
  <2>2. IInv'
    BY <2>1, NextShape, NextFileInv, NextDirtyInv, NextStopInv DEF IInv
  <2> QED  BY <2>2, GlueNext
<1> QED  BY <1>1, <1>2, ShutdownRunsQueue, PTL DEF ShutdownSpec

\* The storage of the composition is FileStore, with the batches of the queue and
\* the stores of the handlers as its calls.
THEOREM ShutdownRunsStore == ShutdownSpec => Spec
<1>1. ShutdownInit => Init
  BY DEF ShutdownInit
<1> QED
  BY <1>1, StoreStepOrNone, ShutdownRunsQueue, ShutdownInductive, PTL
  DEF ShutdownSpec, Spec

\* An accepted deletion is lost by the stop of the application only in the ways
\* that LostOnlyInShutdown names: app.Run cancels both, waits, and calls Close.
THEOREM LostOnlyThere == ShutdownSpec => []LostOnlyInShutdown
<1>1. QP!IInv /\ IInv /\ Glue => LostOnlyInShutdown
  <2> SUFFICES ASSUME QP!IInv, IInv, Glue PROVE LostOnlyInShutdown
    OBVIOUS
  <2>1. ASSUME NEW b \in Batches, pc[b] = "refused" PROVE shutdown /\ ctxDone
    BY <2>1, StorageCallsAssumption DEF Glue, StorageCalls
  <2>2. ASSUME closer = "closed", ~ioErr, NEW p \in Pushes, qpc[p] = "done"
        PROVE  \/ \E b \in Handed(p) :
                    \/ pc[b] = "refused"
                    \/ pc[b] = "acked" /\ b \notin dirty \ (missed \cup inflight)
               \/ p \in Range(buf) /\ p \notin early
    <3>1. dirty \subseteq missed \cup inflight
      BY <2>2 DEF Glue, IInv, StopInv, CloseKeepsAcked
    <3>2. p \in Range(delivered) \/ p \in Range(buf)
      <4>1. p \in QP!Range(QP!Log)
        BY <2>2 DEF QP!IInv, QP!StoredExactlyOnce, QP!Appended
      <4>2. QP!Range(QP!Log) = Range(delivered \o buf)
        BY DEF QP!Range, QP!Log, Range
      <4> QED  BY <4>1, <4>2, RangeConcatenation DEF QP!IInv, QP!TypeOK
    <3>3. CASE p \in Range(delivered)
      <4>1. PICK b \in Batches : p \in Range(b) /\ pc[b] \in {"acked", "refused"}
        BY <3>3 DEF Glue
      <4>2. b \in Handed(p)
        BY <4>1 DEF Handed
      <4> QED  BY <3>1, <4>1, <4>2
    <3>4. CASE p \in Range(buf) /\ p \notin Range(delivered)
      <4>1. early \subseteq QP!Range(delivered)
        BY <2>2 DEF Glue, QP!IInv, QP!EarlyInv, QP!EarlyDelivered
      <4> QED  BY <3>4, <4>1 DEF QP!Range, Range
    <3> QED  BY <3>2, <3>3, <3>4
  <2> QED  BY <2>1, <2>2 DEF LostOnlyInShutdown
<1> QED  BY <1>1, ShutdownRunsQueue, ShutdownInductive, PTL
=============================================================================
