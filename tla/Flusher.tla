------------------------------- MODULE Flusher -------------------------------
(***************************************************************************)
(* internal/buffer: the queue between the delete requests and the storage. *)
(* Push runs on the goroutine of a request, Run on a goroutine of its own, *)
(* and they share a slice under a mutex, two atomic flags and a channel of *)
(* capacity one that wakes Run up when the slice reaches the flush size.   *)
(***************************************************************************)
EXTENDS Naturals, Sequences, Functions

CONSTANTS Calls,      \* the calls of Push; each pushes the element it is named by
          FlushSize   \* cfg.FlushSize

ASSUME FlushSizeAssumption == FlushSize \in Nat \ {0}
ASSUME CallsAssumption == "runner" \notin Calls /\ "free" \notin Calls

Runner == "runner"    \* the goroutine that executes Run
Free == "free"        \* the mutex when nobody holds it

VARIABLES
  shutdown,    \* atomic: Run has seen its context cancelled
  flushNeed,   \* atomic: a flush has been asked for and not done
  fillChan,    \* tokens in the channel, 0 or 1
  bufMux,      \* who holds the mutex
  buf,         \* the elements waiting for a flush
  size,        \* incremented by every Push, never reset
  pc,          \* pc[c]: where call c of Push is
  rpc,         \* where Run is
  ctxDone,     \* the context given to Run is cancelled
  delivered,   \* history: the elements given to the flush callback, in order
  early        \* history: the elements stored when shutdown was set

vars == <<shutdown, flushNeed, fillChan, bufMux, buf, size, pc, rpc, ctxDone,
          delivered, early>>

PushPC == {"idle", "lock", "send", "done", "refused"}
RunPC == {"select", "lock", "finallock", "flush", "finalflush", "stopped"}

\* Every element stored so far, oldest first.
Log == delivered \o buf

Init ==
  /\ shutdown = FALSE /\ flushNeed = FALSE /\ fillChan = 0
  /\ bufMux = Free /\ buf = <<>> /\ size = 0
  /\ pc = [c \in Calls |-> "idle"] /\ rpc = "select" /\ ctxDone = FALSE
  /\ delivered = <<>> /\ early = {}

(***************************************************************************)
(* Push.                                                                   *)
(***************************************************************************)

\* Mutant: the queue is bounded, a full buffer refuses.
PushEnterBounded(c) ==
  /\ pc[c] = "idle"
  /\ pc' = [pc EXCEPT ![c] = IF shutdown \/ Len(buf) >= FlushSize THEN "refused" ELSE "lock"]
  /\ UNCHANGED <<shutdown, flushNeed, fillChan, bufMux, buf, size, rpc,
                 ctxDone, delivered, early>>

PushEnter(c) ==
  /\ pc[c] = "idle"
  /\ pc' = [pc EXCEPT ![c] = IF shutdown THEN "refused" ELSE "lock"]
  /\ UNCHANGED <<shutdown, flushNeed, fillChan, bufMux, buf, size, rpc,
                 ctxDone, delivered, early>>

\* Mutant: the append without the lock.
PushAppendUnlocked(c) ==
  /\ pc[c] = "lock"
  /\ size' = size + 1
  /\ buf' = Append(buf, c)
  /\ pc' = [pc EXCEPT ![c] = "done"]
  /\ UNCHANGED <<shutdown, flushNeed, fillChan, bufMux, rpc, ctxDone, delivered, early>>

\* Lock, size++, append, and the test of the fill level: a call that has to
\* wake the runner up keeps the mutex, any other one releases it and returns.
PushAppend(c) ==
  /\ pc[c] = "lock"
  /\ bufMux = Free
  /\ size' = size + 1
  /\ buf' = Append(buf, c)
  /\ \/ /\ Len(buf') >= FlushSize /\ ~flushNeed
        /\ bufMux' = c
        /\ pc' = [pc EXCEPT ![c] = "send"]
     \/ /\ Len(buf') < FlushSize \/ flushNeed
        /\ bufMux' = Free
        /\ pc' = [pc EXCEPT ![c] = "done"]
  /\ UNCHANGED <<shutdown, flushNeed, fillChan, rpc, ctxDone, delivered, early>>

\* fillChan <- struct{}{} blocks, with the mutex held, while the channel is full.
PushSend(c) ==
  /\ pc[c] = "send"
  /\ fillChan = 0
  /\ fillChan' = 1
  /\ flushNeed' = TRUE
  /\ bufMux' = Free
  /\ pc' = [pc EXCEPT ![c] = "done"]
  /\ UNCHANGED <<shutdown, buf, size, rpc, ctxDone, delivered, early>>

(***************************************************************************)
(* Run: one action per ready case of its select, and the steps of doFlush. *)
(***************************************************************************)

SelectFill ==
  /\ rpc = "select"
  /\ fillChan = 1
  /\ fillChan' = 0
  /\ rpc' = "lock"
  /\ UNCHANGED <<shutdown, flushNeed, bufMux, buf, size, pc, ctxDone,
                 delivered, early>>

\* Mutant: one ticker for all rounds, whose tick may be there before the token.
SelectTicker ==
  /\ rpc = "select"
  /\ rpc' = "lock"
  /\ UNCHANGED <<shutdown, flushNeed, fillChan, bufMux, buf, size, pc, ctxDone,
                 delivered, early>>

\* time.After is made anew for every select: a token or a cancellation that is
\* there already, or comes before the interval is over, is taken first.
SelectTimer ==
  /\ rpc = "select"
  /\ fillChan = 0 /\ ~ctxDone
  /\ rpc' = "lock"
  /\ UNCHANGED <<shutdown, flushNeed, fillChan, bufMux, buf, size, pc, ctxDone,
                 delivered, early>>

\* Mutant: Run returns without the last flush.
SelectDoneNoFlush ==
  /\ rpc = "select"
  /\ ctxDone
  /\ shutdown' = TRUE
  /\ rpc' = "stopped"
  /\ early' = Range(Log)
  /\ UNCHANGED <<flushNeed, fillChan, bufMux, buf, size, pc, ctxDone, delivered>>

SelectDone ==
  /\ rpc = "select"
  /\ ctxDone
  /\ shutdown' = TRUE
  /\ rpc' = "finallock"
  /\ early' = Range(Log)
  /\ UNCHANGED <<flushNeed, fillChan, bufMux, buf, size, pc, ctxDone, delivered>>

\* Mutant: the loop goes on after the last flush.
AfterFlushAgain == "select"

\* doFlush returned: the loop goes on, or Run returns after the last flush.
AfterFlush == IF rpc \in {"finallock", "finalflush"} THEN "stopped" ELSE "select"

\* Mutant: doFlush works without the lock.
FlushBeginUnlocked ==
  /\ rpc \in {"lock", "finallock"}
  /\ \/ /\ buf = <<>>
        /\ flushNeed' = FALSE
        /\ rpc' = AfterFlush
     \/ /\ buf # <<>>
        /\ rpc' = IF rpc = "lock" THEN "flush" ELSE "finalflush"
        /\ UNCHANGED flushNeed
  /\ UNCHANGED <<shutdown, fillChan, bufMux, buf, size, pc, ctxDone, delivered, early>>

\* Mutant: only a full buffer is flushed, the timer does nothing.
FlushBeginOnlyFull ==
  /\ rpc \in {"lock", "finallock"}
  /\ bufMux = Free
  /\ \/ /\ buf = <<>> \/ ~flushNeed
        /\ rpc' = AfterFlush
        /\ UNCHANGED <<bufMux, flushNeed>>
     \/ /\ buf # <<>> /\ flushNeed
        /\ bufMux' = Runner
        /\ rpc' = IF rpc = "lock" THEN "flush" ELSE "finalflush"
        /\ UNCHANGED flushNeed
  /\ UNCHANGED <<shutdown, fillChan, buf, size, pc, ctxDone, delivered, early>>

\* The lock of doFlush. An empty buffer is left at once, the flag reset; else
\* the flush callback runs with the mutex held.
FlushBegin ==
  /\ rpc \in {"lock", "finallock"}
  /\ bufMux = Free
  /\ \/ /\ buf = <<>>
        /\ flushNeed' = FALSE
        /\ rpc' = AfterFlush
        /\ UNCHANGED bufMux
     \/ /\ buf # <<>>
        /\ bufMux' = Runner
        /\ rpc' = IF rpc = "lock" THEN "flush" ELSE "finalflush"
        /\ UNCHANGED flushNeed
  /\ UNCHANGED <<shutdown, fillChan, buf, size, pc, ctxDone, delivered, early>>

\* Mutant: the buffer is not replaced.
FlushEndKeepsBuffer ==
  /\ rpc \in {"flush", "finalflush"}
  /\ delivered' = delivered \o buf
  /\ flushNeed' = FALSE
  /\ bufMux' = Free
  /\ rpc' = AfterFlush
  /\ UNCHANGED <<shutdown, fillChan, buf, size, pc, ctxDone, early>>

\* Mutant: the flag is not reset.
FlushEndKeepsFlag ==
  /\ rpc \in {"flush", "finalflush"}
  /\ delivered' = delivered \o buf
  /\ buf' = <<>>
  /\ bufMux' = Free
  /\ rpc' = AfterFlush
  /\ UNCHANGED <<shutdown, flushNeed, fillChan, size, pc, ctxDone, early>>

\* The callback returns: the buffer is replaced, the flag reset, the mutex freed.
FlushEnd ==
  /\ rpc \in {"flush", "finalflush"}
  /\ delivered' = delivered \o buf
  /\ buf' = <<>>
  /\ flushNeed' = FALSE
  /\ bufMux' = Free
  /\ rpc' = AfterFlush
  /\ UNCHANGED <<shutdown, fillChan, size, pc, ctxDone, early>>

\* The application cancels the context (a signal, or a server that failed).
Cancel ==
  /\ ~ctxDone
  /\ ctxDone' = TRUE
  /\ UNCHANGED <<shutdown, flushNeed, fillChan, bufMux, buf, size, pc, rpc,
                 delivered, early>>

Push(c) == PushEnter(c) \/ PushAppend(c) \/ PushSend(c)
Run == SelectFill \/ SelectTimer \/ SelectDone \/ FlushBegin \/ FlushEnd

Next == (\E c \in Calls : Push(c)) \/ Run \/ Cancel

Spec == Init /\ [][Next]_vars

(***************************************************************************)
(* Fairness. A call in progress and the runner are goroutines the Go       *)
(* scheduler runs, the mutex is eventually granted to a waiter (Calls is   *)
(* finite, so weak fairness is enough), the interval timer fires, and the  *)
(* flush callback returns. A ready case of a select that is reached again  *)
(* and again is eventually picked: select chooses uniformly among the      *)
(* ready ones. Nobody is obliged to call Push or to cancel.                *)
(***************************************************************************)
Fairness ==
  /\ \A c \in Calls : WF_vars(PushAppend(c)) /\ WF_vars(PushSend(c))
  /\ WF_vars(SelectFill \/ SelectTimer \/ SelectDone)
  /\ SF_vars(SelectFill)
  /\ SF_vars(SelectDone)
  /\ WF_vars(FlushBegin) /\ WF_vars(FlushEnd)

FairSpec == Spec /\ Fairness

-----------------------------------------------------------------------------

\* The type of every variable of the queue.
TypeOK ==
  /\ shutdown \in BOOLEAN /\ flushNeed \in BOOLEAN /\ fillChan \in 0..1
  /\ bufMux \in Calls \cup {Runner, Free}
  /\ buf \in Seq(Calls) /\ size \in Nat
  /\ pc \in [Calls -> PushPC] /\ rpc \in RunPC /\ ctxDone \in BOOLEAN
  /\ delivered \in Seq(Calls) /\ early \in SUBSET Calls

Appended == {c \in Calls : pc[c] \in {"send", "done"}}

\* A Push that got past the lock has stored its element once and for all: it
\* waits in buf or was given to the callback, never both, never twice, and no
\* refused call left anything behind. size counts exactly these elements.
StoredExactlyOnce ==
  /\ IsInjective(Log)
  /\ Range(Log) = Appended
  /\ size = Len(Log)

\* A buffer that is full while the runner waits in its select has a token in
\* fillChan, or a caller about to send one: no full buffer is left to the timer.
NoLostWakeup ==
  /\ rpc = "select"
  /\ Len(buf) >= FlushSize
  /\ \A c \in Calls : pc[c] # "send"
  => fillChan = 1

\* The flush of the shutdown hands over everything stored before the shutdown
\* flag was set: what is still in the buffer of a stopped flusher came from
\* calls that were between the test of the flag and the lock at that moment.
EarlyDelivered == rpc = "stopped" => early \subseteq Range(delivered)

\* The callback owns the batch while it runs: between the lock and the unlock
\* of doFlush nobody appends to the slice it was given.
BatchOwned ==
  [][(rpc \in {"flush", "finalflush"}) => (buf' = buf \/ buf' = <<>>)]_vars

\* Everyone waits for everyone: a Push holds the mutex and waits for room in a
\* channel whose only receiver waits for the mutex, or has stopped.
Wedged ==
  /\ fillChan = 1
  /\ \E c \in Calls : pc[c] = "send"
  /\ rpc \in {"lock", "finallock", "stopped"}

\* There is no way out of it: no timer, no cancellation and no other call
\* of Push ends the wait.
WedgedForever == [][Wedged => Wedged']_vars

\* Only the shutdown wedges the queue. A token may stay behind in the channel (a
\* call sent it while the runner was on its way to the lock), but as long as
\* Run goes round it takes that token before it locks again, and the call that
\* waits to send the next one gets its room.
WedgedOnlyInShutdown == Wedged => shutdown

\* Before the shutdown a stored element is handed over.
EventuallyDelivered ==
  \A c \in Calls : c \in Range(buf) ~> (c \in Range(delivered) \/ ctxDone)

\* app.go:89, "It runs until interrupted or some error occurs": an interrupt ends
\* the context, and then Run of the queue, which app.Run waits for, comes to its end.
InterruptEndsRun == ctxDone ~> rpc = "stopped"

\* The concurrent queue implements the abstract one.
Queue == INSTANCE DelayedQueue
           WITH Elements <- Calls, pending <- buf, closed <- shutdown,
                refused <- {c \in Calls : pc[c] = "refused"}

QueueSpec == Queue!Spec
=============================================================================
