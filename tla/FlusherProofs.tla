--------------------------- MODULE FlusherProofs ---------------------------
(***************************************************************************)
(* Proofs about Flusher for any finite or infinite set of calls and any    *)
(* flush size. The inductive invariant says who holds the mutex in which   *)
(* state, what the flag flushNeed promises, when the shutdown flag is set  *)
(* and what the history variable early remembers.                          *)
(***************************************************************************)
EXTENDS Flusher, SequenceTheorems, TLAPS

\* The mutex is held by the call that sends, or by the runner that flushes.
LockInv ==
  /\ \A c \in Calls : pc[c] = "send" <=> bufMux = c
  /\ bufMux = Runner <=> rpc \in {"flush", "finalflush"}

\* A requested flush has its token in the channel or the runner on its way, and
\* a full buffer has requested one or is about to.
WakeInv ==
  /\ flushNeed => fillChan = 1 \/ rpc \notin {"select", "stopped"}
  /\ Len(buf) >= FlushSize => flushNeed \/ \E c \in Calls : pc[c] = "send"

\* The shutdown flag is set exactly from the last turn of the loop on.
CloseInv ==
  /\ shutdown <=> rpc \in {"finallock", "finalflush", "stopped"}
  /\ \A c \in Calls : pc[c] = "refused" => shutdown

EarlyInv ==
  /\ early \subseteq Range(Log)
  /\ EarlyDelivered

\* A token that came behind the runner's select has its flag set until the flush,
\* and nobody sends a token while the flag is set.
TokenInv ==
  /\ rpc = "lock" /\ fillChan = 1 => flushNeed
  /\ \A c \in Calls : pc[c] = "send" => ~flushNeed

IInv == TypeOK /\ LockInv /\ StoredExactlyOnce /\ WakeInv /\ TokenInv /\ CloseInv /\ EarlyInv

-----------------------------------------------------------------------------

(***************************************************************************)
(* Sequences.                                                              *)
(***************************************************************************)

\* Appending to the second part of a concatenation appends to the whole.
LEMMA ConcatAppend ==
  ASSUME NEW S, NEW s \in Seq(S), NEW t \in Seq(S), NEW e \in S
  PROVE  s \o Append(t, e) = Append(s \o t, e)
<1>1. Append(t, e) = t \o <<e>> /\ Append(s \o t, e) = (s \o t) \o <<e>>
  BY AppendIsConcat, ConcatProperties
<1>2. <<e>> \in Seq(S)
  OBVIOUS
<1> QED  BY <1>1, <1>2, ConcatAssociative

\* A new element keeps a sequence without repetitions, and joins its range.
LEMMA AppendNew ==
  ASSUME NEW S, NEW s \in Seq(S), NEW e \in S
  PROVE  /\ Range(Append(s, e)) = Range(s) \cup {e}
         /\ IsInjective(s) /\ e \notin Range(s) => IsInjective(Append(s, e))
<1> DEFINE t == Append(s, e)
<1>1. /\ t \in Seq(S) /\ Len(t) = Len(s) + 1 /\ Len(s) \in Nat
      /\ DOMAIN t = 1..Len(s) + 1 /\ DOMAIN s = 1..Len(s)
      /\ \A i \in 1..Len(s) : t[i] = s[i]
      /\ t[Len(s) + 1] = e
  BY AppendProperties, LenProperties
<1> HIDE DEF t
<1>2. Range(t) = Range(s) \cup {e}
  BY <1>1 DEF Range
<1>3. ASSUME IsInjective(s), e \notin Range(s), NEW i \in DOMAIN t, NEW j \in DOMAIN t,
             t[i] = t[j]
      PROVE  i = j
  <2>1. \A k \in 1..Len(s) : s[k] # e
    BY <1>1, <1>3 DEF Range
  <2>2. \A a, b \in 1..Len(s) : s[a] = s[b] => a = b
    BY <1>1, <1>3 DEF IsInjective
  <2> QED  BY <1>1, <1>3, <2>1, <2>2
<1> QED  BY <1>2, <1>3 DEF IsInjective, t

-----------------------------------------------------------------------------

(***************************************************************************)
(* The inductive invariant.                                                *)
(***************************************************************************)

LEMMA InitIInv == Init => IInv
<1> SUFFICES ASSUME Init PROVE IInv
  OBVIOUS
<1>1. <<>> \in Seq(Calls) /\ Log = <<>> /\ Len(Log) = 0 /\ DOMAIN Log = {}
  BY ConcatEmptySeq, EmptySeq DEF Init, Log
<1>2. TypeOK
  <2>1. pc \in [Calls -> PushPC] /\ rpc \in RunPC
    BY DEF Init, PushPC, RunPC
  <2>2. early \in SUBSET Calls /\ fillChan \in 0..1 /\ size \in Nat
    BY DEF Init
  <2> QED  BY <1>1, <2>1, <2>2 DEF Init, TypeOK
<1>3. LockInv /\ CloseInv
  BY CallsAssumption DEF Init, LockInv, CloseInv, Runner, Free
<1>4. StoredExactlyOnce
  BY <1>1 DEF Init, StoredExactlyOnce, IsInjective, Range, Appended
<1>5. WakeInv
  BY FlushSizeAssumption, <1>1 DEF Init, WakeInv
<1>6. EarlyInv /\ TokenInv
  BY DEF Init, EarlyInv, EarlyDelivered, TokenInv
<1> QED  BY <1>2, <1>3, <1>4, <1>5, <1>6 DEF IInv

\* Every step keeps the types.
LEMMA NextTypeOK == TypeOK /\ [Next]_vars => TypeOK'
<1> SUFFICES ASSUME TypeOK, [Next]_vars PROVE TypeOK'
  OBVIOUS
<1> USE DEF TypeOK, PushPC, RunPC
<1>1. ASSUME NEW c \in Calls, PushEnter(c) PROVE TypeOK'
  BY <1>1 DEF PushEnter
<1>2. ASSUME NEW c \in Calls, PushAppend(c) PROVE TypeOK'
  BY <1>2, AppendProperties DEF PushAppend
<1>3. ASSUME NEW c \in Calls, PushSend(c) PROVE TypeOK'
  BY <1>3 DEF PushSend
<1>4. CASE SelectFill
  BY <1>4 DEF SelectFill
<1>5. CASE SelectTimer
  BY <1>5 DEF SelectTimer
<1>6. CASE SelectDone
  <2>1. Log \in Seq(Calls)
    BY ConcatProperties DEF Log
  <2> QED  BY <1>6, <2>1, RangeOfSeq DEF SelectDone
<1>7. CASE FlushBegin
  BY <1>7 DEF FlushBegin, AfterFlush
<1>8. CASE FlushEnd
  BY <1>8, ConcatProperties, EmptySeq DEF FlushEnd, AfterFlush
<1>9. CASE Cancel
  BY <1>9 DEF Cancel
<1>10. CASE UNCHANGED vars
  BY <1>10 DEF vars
<1> QED
  BY <1>1, <1>2, <1>3, <1>4, <1>5, <1>6, <1>7, <1>8, <1>9, <1>10 DEF Next, Push, Run

\* The types and the ownership of the mutex.
LEMMA NextLockInv == TypeOK /\ LockInv /\ [Next]_vars => LockInv'
<1> SUFFICES ASSUME TypeOK, LockInv, [Next]_vars PROVE LockInv'
  OBVIOUS
<1> USE CallsAssumption DEF TypeOK, LockInv, PushPC, RunPC, Runner, Free
<1>1. ASSUME NEW c \in Calls, PushEnter(c) PROVE LockInv'
  BY <1>1 DEF PushEnter
<1>2. ASSUME NEW c \in Calls, PushAppend(c) PROVE LockInv'
  BY <1>2 DEF PushAppend
<1>3. ASSUME NEW c \in Calls, PushSend(c) PROVE LockInv'
  BY <1>3 DEF PushSend
<1>4. CASE SelectFill \/ SelectTimer \/ SelectDone \/ Cancel
  BY <1>4 DEF SelectFill, SelectTimer, SelectDone, Cancel
<1>5. CASE FlushBegin
  BY <1>5 DEF FlushBegin, AfterFlush
<1>6. CASE FlushEnd
  BY <1>6 DEF FlushEnd, AfterFlush
<1>7. CASE UNCHANGED vars
  BY <1>7 DEF vars
<1> QED
  BY <1>1, <1>2, <1>3, <1>4, <1>5, <1>6, <1>7 DEF Next, Push, Run

\* The wake-up promise: the flag is reset only together with an empty buffer.
LEMMA NextWakeInv == TypeOK /\ LockInv /\ WakeInv /\ [Next]_vars => WakeInv'
<1> SUFFICES ASSUME TypeOK, LockInv, WakeInv, [Next]_vars PROVE WakeInv'
  OBVIOUS
<1> USE DEF TypeOK, WakeInv, PushPC, RunPC
<1>1. ASSUME NEW c \in Calls, PushEnter(c) PROVE WakeInv'
  BY <1>1 DEF PushEnter
<1>2. ASSUME NEW c \in Calls, PushAppend(c) PROVE WakeInv'
  <2>1. \A d \in Calls : pc[d] # "send"
    BY <1>2, CallsAssumption DEF PushAppend, LockInv, Free
  <2>2. CASE pc' = [pc EXCEPT ![c] = "send"]
    BY <1>2, <2>2 DEF PushAppend
  <2>3. CASE Len(buf') < FlushSize \/ flushNeed
    <3>1. Len(buf') \in Nat
      BY <1>2, AppendProperties, LenProperties DEF PushAppend
    <3> QED  BY <1>2, <2>3, <3>1, FlushSizeAssumption DEF PushAppend
  <2> QED  BY <1>2, <2>2, <2>3 DEF PushAppend
<1>3. ASSUME NEW c \in Calls, PushSend(c) PROVE WakeInv'
  BY <1>3 DEF PushSend
<1>4. CASE SelectFill \/ SelectTimer \/ SelectDone \/ Cancel
  BY <1>4 DEF SelectFill, SelectTimer, SelectDone, Cancel
<1>5. CASE FlushBegin
  BY <1>5, EmptySeq, FlushSizeAssumption DEF FlushBegin, AfterFlush
<1>6. CASE FlushEnd
  BY <1>6, EmptySeq, FlushSizeAssumption DEF FlushEnd, AfterFlush
<1>7. CASE UNCHANGED vars
  BY <1>7 DEF vars
<1> QED
  BY <1>1, <1>2, <1>3, <1>4, <1>5, <1>6, <1>7 DEF Next, Push, Run

\* The token: the runner leaves its select with the channel empty, unless it stops.
LEMMA NextTokenInv == TypeOK /\ LockInv /\ TokenInv /\ [Next]_vars => TokenInv'
<1> SUFFICES ASSUME TypeOK, LockInv, TokenInv, [Next]_vars PROVE TokenInv'
  OBVIOUS
<1> USE DEF TypeOK, TokenInv, PushPC, RunPC
<1>1. ASSUME NEW c \in Calls, PushEnter(c) PROVE TokenInv'
  BY <1>1 DEF PushEnter
<1>2. ASSUME NEW c \in Calls, PushAppend(c) PROVE TokenInv'
  BY <1>2 DEF PushAppend
<1>3. ASSUME NEW c \in Calls, PushSend(c) PROVE TokenInv'
  <2>1. \A d \in Calls : pc[d] = "send" => d = c
    BY <1>3 DEF PushSend, LockInv
  <2> QED  BY <1>3, <2>1 DEF PushSend
<1>4. CASE SelectFill \/ SelectTimer \/ SelectDone \/ Cancel
  BY <1>4 DEF SelectFill, SelectTimer, SelectDone, Cancel
<1>5. CASE FlushBegin
  BY <1>5 DEF FlushBegin, AfterFlush
<1>6. CASE FlushEnd
  BY <1>6 DEF FlushEnd, AfterFlush
<1>7. CASE UNCHANGED vars
  BY <1>7 DEF vars
<1> QED
  BY <1>1, <1>2, <1>3, <1>4, <1>5, <1>6, <1>7 DEF Next, Push, Run

\* The shutdown flag.
LEMMA NextCloseInv == TypeOK /\ CloseInv /\ [Next]_vars => CloseInv'
<1> SUFFICES ASSUME TypeOK, CloseInv, [Next]_vars PROVE CloseInv'
  OBVIOUS
<1> USE DEF TypeOK, CloseInv, PushPC, RunPC
<1>1. ASSUME NEW c \in Calls, Push(c) PROVE CloseInv'
  BY <1>1 DEF Push, PushEnter, PushAppend, PushSend
<1>2. CASE SelectFill \/ SelectTimer \/ SelectDone \/ Cancel
  BY <1>2 DEF SelectFill, SelectTimer, SelectDone, Cancel
<1>3. CASE FlushBegin \/ FlushEnd
  BY <1>3 DEF FlushBegin, FlushEnd, AfterFlush
<1>4. CASE UNCHANGED vars
  BY <1>4 DEF vars
<1> QED
  BY <1>1, <1>2, <1>3, <1>4 DEF Next, Run

\* A call of Push appends its element to what was stored; no other step changes it.
LEMMA LogStep ==
  ASSUME TypeOK, [Next]_vars
  PROVE  /\ Log \in Seq(Calls)
         /\ \/ \E c \in Calls : PushAppend(c) /\ Log' = Append(Log, c)
            \/ /\ \A c \in Calls : ~PushAppend(c)
               /\ Log' = Log /\ size' = size /\ Appended' = Appended
<1> USE DEF TypeOK
<1>1. Log \in Seq(Calls)
  BY ConcatProperties DEF Log
<1>2. ASSUME NEW c \in Calls, PushAppend(c) PROVE Log' = Append(Log, c)
  BY <1>2, ConcatAppend DEF PushAppend, Log
<1>3. ASSUME \A c \in Calls : ~PushAppend(c)
      PROVE  Log' = Log /\ size' = size /\ Appended' = Appended
  <2> USE DEF PushPC, Log, Appended
  <2>1. ASSUME NEW c \in Calls, PushEnter(c) \/ PushSend(c)
        PROVE  Log' = Log /\ size' = size /\ Appended' = Appended
    BY <2>1 DEF PushEnter, PushSend
  <2>2. CASE SelectFill \/ SelectTimer \/ SelectDone \/ FlushBegin \/ Cancel
    BY <2>2 DEF SelectFill, SelectTimer, SelectDone, FlushBegin, Cancel
  <2>3. CASE FlushEnd
    <3>1. delivered' \in Seq(Calls) /\ buf' = <<>> /\ delivered' = delivered \o buf
      BY <2>3, ConcatProperties DEF FlushEnd
    <3>2. delivered' \o buf' = delivered \o buf
      BY <3>1, ConcatEmptySeq
    <3> QED  BY <2>3, <3>2 DEF FlushEnd
  <2>4. CASE UNCHANGED vars
    BY <2>4 DEF vars
  <2> QED  BY <1>3, <2>1, <2>2, <2>3, <2>4 DEF Next, Push, Run
<1> QED  BY <1>1, <1>2, <1>3

\* What was stored stays stored once.
LEMMA NextStored == TypeOK /\ StoredExactlyOnce /\ [Next]_vars => StoredExactlyOnce'
<1> SUFFICES ASSUME TypeOK, StoredExactlyOnce, [Next]_vars PROVE StoredExactlyOnce'
  OBVIOUS
<1>1. ASSUME NEW c \in Calls, PushAppend(c), Log' = Append(Log, c)
      PROVE  StoredExactlyOnce'
  <2>1. Log \in Seq(Calls)
    BY LogStep
  <2>2. c \notin Range(Log) /\ IsInjective(Log)
    BY <1>1 DEF PushAppend, StoredExactlyOnce, Appended
  <2>3. IsInjective(Log') /\ Range(Log') = Range(Log) \cup {c}
    BY <1>1, <2>1, <2>2, AppendNew
  <2>4. Appended' = Appended \cup {c}
    BY <1>1 DEF PushAppend, Appended, TypeOK
  <2>5. size' = Len(Log')
    BY <1>1, <2>1, AppendProperties DEF PushAppend, StoredExactlyOnce
  <2> QED  BY <2>3, <2>4, <2>5 DEF StoredExactlyOnce
<1>2. CASE Log' = Log /\ size' = size /\ Appended' = Appended
  BY <1>2 DEF StoredExactlyOnce
<1> QED  BY <1>1, <1>2, LogStep

\* The last flush takes everything, and what it took is not lost again.
LEMMA NextEarlyInv ==
  TypeOK /\ StoredExactlyOnce /\ EarlyInv /\ [Next]_vars => EarlyInv'
<1> SUFFICES ASSUME TypeOK, StoredExactlyOnce, EarlyInv, [Next]_vars PROVE EarlyInv'
  OBVIOUS
<1>1. Range(Log) \subseteq Range(Log')
  <2>1. ASSUME NEW c \in Calls, Log' = Append(Log, c)
        PROVE  Range(Log) \subseteq Range(Log')
    BY <2>1, LogStep, AppendNew
  <2> QED  BY <2>1, LogStep
<1>2. ASSUME UNCHANGED <<rpc, early, delivered>> PROVE EarlyInv'
  BY <1>1, <1>2 DEF EarlyInv, EarlyDelivered
<1>3. ASSUME NEW c \in Calls, Push(c) PROVE EarlyInv'
  BY <1>2, <1>3 DEF Push, PushEnter, PushAppend, PushSend
<1>4. CASE SelectFill \/ SelectTimer \/ SelectDone
  <2>1. Range(Log') = Range(Log)
    BY <1>4 DEF SelectFill, SelectTimer, SelectDone, Log
  <2> QED
    BY <1>4, <2>1 DEF SelectFill, SelectTimer, SelectDone, EarlyInv, EarlyDelivered
<1>5. CASE FlushBegin
  <2>1. UNCHANGED <<early, delivered, buf>>
    BY <1>5 DEF FlushBegin
  <2>2. rpc' = "stopped" => delivered' = Log
    BY <1>5, <2>1, ConcatEmptySeq DEF FlushBegin, AfterFlush, TypeOK, Log
  <2> QED  BY <1>1, <2>1, <2>2 DEF EarlyInv, EarlyDelivered
<1>6. CASE FlushEnd
  <2>1. delivered' = Log /\ early' = early
    BY <1>6 DEF FlushEnd, Log
  <2> QED  BY <1>1, <2>1 DEF EarlyInv, EarlyDelivered
<1>7. CASE Cancel \/ UNCHANGED vars
  BY <1>2, <1>7 DEF Cancel, vars
<1> QED  BY <1>3, <1>4, <1>5, <1>6, <1>7 DEF Next, Run

-----------------------------------------------------------------------------

(***************************************************************************)
(* The theorems.                                                           *)
(***************************************************************************)

\* IInv is inductive, so it holds in every state of the queue.
THEOREM Inductive == Spec => []IInv
<1>1. IInv /\ [Next]_vars => IInv'
  BY NextTypeOK, NextLockInv, NextStored, NextWakeInv, NextTokenInv, NextCloseInv,
     NextEarlyInv
  DEF IInv
<1> QED  BY InitIInv, <1>1, PTL DEF Spec

\* The variables of buffer.Flusher keep their types.
THEOREM TypeCorrect == Spec => []TypeOK
<1>1. IInv => TypeOK
  BY DEF IInv
<1> QED  BY <1>1, Inductive, PTL

\* No element that Push stored is lost or handed over twice while Run runs or
\* after it stopped, and no refused call leaves an element behind.
THEOREM ExactlyOnce == Spec => []StoredExactlyOnce
<1>1. IInv => StoredExactlyOnce
  BY DEF IInv
<1> QED  BY <1>1, Inductive, PTL

\* A full buffer never waits for the timer with the channel empty.
THEOREM WakeUp == Spec => []NoLostWakeup
<1>1. IInv => NoLostWakeup
  BY DEF IInv, WakeInv, NoLostWakeup
<1> QED  BY <1>1, Inductive, PTL

\* The last flush hands over everything stored before the shutdown.
THEOREM EarlyElements == Spec => []EarlyDelivered
<1>1. IInv => EarlyDelivered
  BY DEF IInv, EarlyInv
<1> QED  BY <1>1, Inductive, PTL

\* The slice given to the flush callback is not appended to while it runs.
THEOREM BatchIsOwned == Spec => BatchOwned
<1>1. IInv /\ [Next]_vars
        => [(rpc \in {"flush", "finalflush"}) => (buf' = buf \/ buf' = <<>>)]_vars
  <2> SUFFICES ASSUME IInv, [Next]_vars, rpc \in {"flush", "finalflush"}
               PROVE  buf' = buf \/ buf' = <<>>
    OBVIOUS
  <2>1. bufMux = Runner /\ \A c \in Calls : ~PushAppend(c)
    BY DEF IInv, LockInv, PushAppend, Runner, Free
  <2> QED
    BY <2>1 DEF Next, Push, Run, PushEnter, PushSend, SelectFill, SelectTimer,
                SelectDone, FlushBegin, FlushEnd, Cancel, vars
<1> QED  BY <1>1, Inductive, PTL DEF Spec, BatchOwned

\* The wedge of a blocked send and a waiting or stopped runner is a deadlock.
THEOREM WedgeIsForever == Spec => WedgedForever
<1>1. IInv /\ [Next]_vars => [Wedged => Wedged']_vars
  <2> SUFFICES ASSUME IInv, [Next]_vars, Wedged PROVE Wedged'
    OBVIOUS
  <2>1. PICK c \in Calls : pc[c] = "send" /\ bufMux = c
    BY DEF Wedged, IInv, LockInv
  <2>2. fillChan = 1 /\ rpc \in {"lock", "finallock", "stopped"} /\ bufMux # Free
    BY <2>1, CallsAssumption DEF Wedged, Free
  <2>3. fillChan' = 1 /\ rpc' = rpc /\ pc'[c] = "send"
    BY <2>1, <2>2 DEF IInv, TypeOK, Next, Push, Run, PushEnter, PushAppend, PushSend,
                      SelectFill, SelectTimer, SelectDone, FlushBegin, FlushEnd,
                      Cancel, vars
  <2> QED  BY <2>2, <2>3 DEF Wedged
<1> QED  BY <1>1, Inductive, PTL DEF Spec, WedgedForever

\* A queue that nobody shuts down does not wedge, whatever the order of its pushes.
THEOREM WedgesInShutdown == Spec => []WedgedOnlyInShutdown
<1>1. IInv => WedgedOnlyInShutdown
  BY DEF IInv, TokenInv, CloseInv, Wedged, WedgedOnlyInShutdown
<1> QED  BY <1>1, Inductive, PTL

\* The queue of goroutines, mutex, flags and channel implements DelayedQueue:
\* elements are taken once, in order, and refused only when it shuts down.
THEOREM ImplementsQueue == Spec => QueueSpec
<1> DEFINE refusedCalls == {c \in Calls : pc[c] = "refused"}
<1>1. Init => Queue!Init
  BY DEF Init, Queue!Init
<1>2. IInv /\ [Next]_vars => [Queue!Next]_Queue!vars
  <2> SUFFICES ASSUME IInv, [Next]_vars PROVE [Queue!Next]_Queue!vars
    OBVIOUS
  <2> USE DEF IInv, TypeOK, PushPC, RunPC
  <2>0. Queue!Known = Appended \cup refusedCalls
    <3>1. Queue!Range(delivered) = Range(delivered) /\ Queue!Range(buf) = Range(buf)
      BY DEF Queue!Range, Range
    <3>2. Range(delivered) \cup Range(buf) = Appended
      BY RangeConcatenation DEF StoredExactlyOnce, Log
    <3> QED  BY <3>1, <3>2 DEF Queue!Known
  <2>1. ASSUME NEW c \in Calls, PushEnter(c), shutdown PROVE Queue!Refuse(c)
    <3>1. c \notin Queue!Known
      BY <2>0, <2>1 DEF PushEnter, Appended
    <3>2. refusedCalls' = refusedCalls \cup {c}
      BY <2>1 DEF PushEnter
    <3> QED  BY <2>1, <3>1, <3>2 DEF PushEnter, Queue!Refuse
  <2>2. ASSUME NEW c \in Calls, PushEnter(c), ~shutdown PROVE UNCHANGED Queue!vars
    <3>1. refusedCalls' = refusedCalls
      BY <2>2 DEF PushEnter
    <3> QED  BY <2>2, <3>1 DEF PushEnter, Queue!vars
  <2>3. ASSUME NEW c \in Calls, PushAppend(c) PROVE Queue!Take(c)
    <3>1. c \notin Queue!Known
      BY <2>0, <2>3 DEF PushAppend, Appended
    <3>2. refusedCalls' = refusedCalls
      BY <2>3 DEF PushAppend
    <3> QED  BY <2>3, <3>1, <3>2 DEF PushAppend, Queue!Take
  <2>4. ASSUME NEW c \in Calls, PushSend(c) PROVE UNCHANGED Queue!vars
    <3>1. refusedCalls' = refusedCalls
      BY <2>4 DEF PushSend
    <3> QED  BY <2>4, <3>1 DEF PushSend, Queue!vars
  <2>5. CASE SelectDone
    <3>1. UNCHANGED <<buf, delivered, pc>> /\ ~shutdown /\ shutdown'
      BY <2>5 DEF SelectDone, CloseInv
    <3> QED  BY <3>1 DEF Queue!Next, Queue!Close
  <2>6. CASE SelectFill \/ SelectTimer \/ FlushBegin \/ Cancel \/ UNCHANGED vars
    BY <2>6 DEF SelectFill, SelectTimer, FlushBegin, Cancel, vars, Queue!vars
  <2>7. CASE FlushEnd
    <3>1. CASE buf = <<>>
      BY <2>7, <3>1, ConcatEmptySeq DEF FlushEnd, Queue!vars
    <3>2. CASE buf # <<>>
      BY <2>7, <3>2 DEF FlushEnd, Queue!Next, Queue!HandOver
    <3> QED  BY <3>1, <3>2
  <2> QED
    BY <2>1, <2>2, <2>3, <2>4, <2>5, <2>6, <2>7 DEF Next, Push, Run, Queue!Next
<1> QED  BY <1>1, <1>2, Inductive, PTL DEF Spec, QueueSpec, Queue!Spec
=============================================================================
