------------------------------ MODULE FileStore ------------------------------
(***************************************************************************)
(* internal/storage/file: the memory store, and a goroutine that rewrites  *)
(* a file with a dump of it every interval and once more at shutdown. The  *)
(* operations of the memory store are atomic here, as MemoryStore shows    *)
(* that others see them. A process may crash at any step and be started    *)
(* again on the file it left; what was written to the file survives.       *)
(***************************************************************************)
EXTENDS UrlMap

CONSTANTS Calls,       \* the calls of Store, StoreBatch and DeleteUserURLs
          RequestOf,   \* RequestOf[c]: [kind, urls] of call c
          BadOrigs,    \* the origs url.Parse refuses; ShortenBatch lets them in
          MaxLives     \* bound: how often the process is started

ASSUME MaxLivesAssumption == MaxLives \in Nat \ {0}
ASSUME RequestOfAssumption ==
  \A c \in Calls : RequestOf[c].kind \in {"store", "delete"}

VARIABLES
  mem,       \* the map of the embedded memory store
  changed,   \* atomic: the map was changed since the file was written
  shutdown,  \* atomic: set before the last persist
  pc,        \* pc[c]: where call c is
  ppc,       \* where maintainPersistence is
  dump,      \* the copy that persist writes, or wrote last
  file,      \* the records in the file
  torn,      \* the last line of the file is incomplete
  done,      \* tokens in the channel of Close
  closer,    \* where the caller of Close is
  ctxDone,   \* the context given to New is cancelled
  up,        \* "up", "down", or "broken" when New cannot read the file
  lives,     \* how often the process was started
  dirty,     \* history: calls that changed mem after the last dump was taken
  ioErr,     \* history: the last rewrite of the file failed or was cut short
  missed,    \* history: dirty calls whose mark was reset with the rewrite
  inflight   \* history: the calls in progress when shutdown was set

vars == <<mem, changed, shutdown, pc, ppc, dump, file, torn, done, closer,
          ctxDone, up, lives, dirty, ioErr, missed, inflight>>

CallPC == {"idle", "apply", "mark", "acked", "failed", "refused", "lost"}
PersistPC == {"select", "load", "open", "dump", "write", "clear", "closed"}

Boot(map) ==
  /\ mem' = map /\ dump' = map
  /\ changed' = FALSE /\ shutdown' = FALSE /\ ppc' = "select"
  /\ done' = 0 /\ closer' = "none" /\ ctxDone' = FALSE
  /\ dirty' = {} /\ missed' = {} /\ ioErr' = FALSE
  /\ inflight' = {}

Init ==
  /\ mem = EmptyMap /\ dump = EmptyMap /\ file = EmptyMap /\ torn = FALSE
  /\ changed = FALSE /\ shutdown = FALSE /\ ppc = "select"
  /\ pc = [c \in Calls |-> "idle"]
  /\ done = 0 /\ closer = "none" /\ ctxDone = FALSE
  /\ up = "up" /\ lives = 1
  /\ dirty = {} /\ missed = {} /\ ioErr = FALSE /\ inflight = {}

(***************************************************************************)
(* Store, StoreBatch and DeleteUserURLs of the file store.                 *)
(***************************************************************************)

\* A call starts while the process runs and tests the shutdown flag.
Enter(c) ==
  /\ up = "up" /\ pc[c] = "idle"
  /\ pc' = [pc EXCEPT ![c] = IF shutdown THEN "refused" ELSE "apply"]
  /\ UNCHANGED <<mem, changed, shutdown, ppc, dump, file, torn, done, closer,
                 ctxDone, up, lives, dirty, ioErr, missed, inflight>>

\* The operation of the memory store.
Apply(c) ==
  LET urls == RequestOf[c].urls IN
  /\ up = "up" /\ pc[c] = "apply"
  /\ \/ /\ RequestOf[c].kind = "store"
        /\ \E i \in DOMAIN urls : Taken(mem, urls[i].short)
        /\ pc' = [pc EXCEPT ![c] = "failed"]
        /\ UNCHANGED <<mem, dirty>>
     \/ /\ RequestOf[c].kind = "store"
        /\ \A i \in DOMAIN urls : ~Taken(mem, urls[i].short)
        /\ mem' = PutAll(mem, urls)
        /\ pc' = [pc EXCEPT ![c] = "mark"]
        /\ dirty' = dirty \cup {c}
     \/ /\ RequestOf[c].kind = "delete"
        /\ mem' = MarkDeleted(mem, urls)
        /\ pc' = [pc EXCEPT ![c] = "mark"]
        /\ dirty' = dirty \cup {c}
  /\ UNCHANGED <<changed, shutdown, ppc, dump, file, torn, done, closer,
                 ctxDone, up, lives, ioErr, missed, inflight>>

\* Mutant: a deletion is not marked.
MarkStoresOnly(c) ==
  /\ up = "up" /\ pc[c] = "mark"
  /\ changed' = (changed \/ RequestOf[c].kind = "store")
  /\ pc' = [pc EXCEPT ![c] = "acked"]
  /\ UNCHANGED <<mem, shutdown, ppc, dump, file, torn, done, closer, ctxDone,
                 up, lives, dirty, ioErr, missed, inflight>>

\* changed.Store(true), and the caller is told that all went well.
Mark(c) ==
  /\ up = "up" /\ pc[c] = "mark"
  /\ changed' = TRUE
  /\ pc' = [pc EXCEPT ![c] = "acked"]
  /\ UNCHANGED <<mem, shutdown, ppc, dump, file, torn, done, closer, ctxDone,
                 up, lives, dirty, ioErr, missed, inflight>>

(***************************************************************************)
(* maintainPersistence.                                                    *)
(***************************************************************************)

\* time.After is made anew for every select, so Close or a cancellation that is
\* there already, or comes before the interval is over, is taken first.
SelectTimer ==
  /\ up = "up" /\ ppc = "select"
  /\ done = 0 /\ ~ctxDone
  /\ ppc' = "load"
  /\ UNCHANGED <<mem, changed, shutdown, pc, dump, file, torn, done, closer,
                 ctxDone, up, lives, dirty, ioErr, missed, inflight>>

\* Mutant: Close is not listened to.
SelectStopCtxOnly ==
  /\ up = "up" /\ ppc = "select"
  /\ ctxDone
  /\ shutdown' = TRUE
  /\ inflight' = {c \in Calls : pc[c] \in {"apply", "mark"}}
  /\ ppc' = "load"
  /\ UNCHANGED <<mem, changed, pc, dump, file, torn, done, closer, ctxDone, up,
                 lives, dirty, ioErr, missed>>

SelectStop ==
  /\ up = "up" /\ ppc = "select"
  /\ \/ done = 1 /\ done' = 0
     \/ ctxDone /\ done' = done
  /\ shutdown' = TRUE
  /\ inflight' = {c \in Calls : pc[c] \in {"apply", "mark"}}
  /\ ppc' = "load"
  /\ UNCHANGED <<mem, changed, pc, dump, file, torn, closer, ctxDone, up,
                 lives, dirty, ioErr, missed>>

\* persist returned: the loop goes on, or close(finish).
AfterPersist == IF shutdown THEN "closed" ELSE "select"

\* Mutant: no persist at shutdown.
PersistLoadNotLast ==
  /\ up = "up" /\ ppc = "load"
  /\ ppc' = IF changed /\ ~shutdown THEN "open" ELSE AfterPersist
  /\ UNCHANGED <<mem, changed, shutdown, pc, dump, file, torn, done, closer,
                 ctxDone, up, lives, dirty, ioErr, missed, inflight>>

\* Mutant: no persist but the one at shutdown.
PersistLoadLast ==
  /\ up = "up" /\ ppc = "load"
  /\ ppc' = IF changed /\ shutdown THEN "open" ELSE AfterPersist
  /\ UNCHANGED <<mem, changed, shutdown, pc, dump, file, torn, done, closer,
                 ctxDone, up, lives, dirty, ioErr, missed, inflight>>

\* The test of changed; an unchanged map is not written.
PersistLoad ==
  /\ up = "up" /\ ppc = "load"
  /\ ppc' = IF changed THEN "open" ELSE AfterPersist
  /\ UNCHANGED <<mem, changed, shutdown, pc, dump, file, torn, done, closer,
                 ctxDone, up, lives, dirty, ioErr, missed, inflight>>

\* Mutant: the file is opened without O_TRUNC.
PersistOpenKeeps ==
  /\ up = "up" /\ ppc = "open"
  /\ ppc' = "dump"
  /\ ioErr' = FALSE
  /\ UNCHANGED <<mem, changed, shutdown, pc, dump, file, torn, done, closer,
                 ctxDone, up, lives, dirty, missed, inflight>>

\* OpenFile with O_TRUNC empties the file, or fails and leaves it alone.
PersistOpen ==
  /\ up = "up" /\ ppc = "open"
  /\ \/ /\ file' = EmptyMap /\ torn' = FALSE
        /\ ppc' = "dump"
        /\ ioErr' = FALSE
     \/ /\ ppc' = AfterPersist
        /\ ioErr' = TRUE
        /\ UNCHANGED <<file, torn>>
  /\ UNCHANGED <<mem, changed, shutdown, pc, dump, done, closer, ctxDone, up,
                 lives, dirty, missed, inflight>>

PersistDump ==
  /\ up = "up" /\ ppc = "dump"
  /\ dump' = mem
  /\ dirty' = {}
  /\ missed' = {}
  /\ ppc' = "write"
  /\ UNCHANGED <<mem, changed, shutdown, pc, file, torn, done, closer, ctxDone,
                 up, lives, ioErr, inflight>>

Part(K, isTorn) ==
  /\ file' = [k \in K |-> dump[k]]
  /\ torn' = isTorn

\* The buffered writer hands a part of the lines to the file, in the order of a
\* map iteration; the part may end inside a line.
WriteSome ==
  /\ up = "up" /\ ppc = "write"
  /\ \E K \in SUBSET DOMAIN dump, isTorn \in BOOLEAN :
       /\ DOMAIN file \subseteq K
       /\ K # DOMAIN dump /\ <<K, isTorn>> # <<DOMAIN file, torn>>
       /\ torn /\ K = DOMAIN file => isTorn
       /\ Part(K, isTorn)
  /\ UNCHANGED <<mem, changed, shutdown, pc, ppc, dump, done, closer, ctxDone,
                 up, lives, dirty, ioErr, missed, inflight>>

\* A write fails while lines are still to be added: persist logs it, changed
\* stays set.
WriteFails ==
  /\ up = "up" /\ ppc = "write" /\ DOMAIN dump # {}
  /\ ioErr' = TRUE
  /\ ppc' = AfterPersist
  /\ UNCHANGED <<mem, changed, shutdown, pc, dump, file, torn, done, closer,
                 ctxDone, up, lives, dirty, missed, inflight>>

\* Mutant: the buffered lines are not flushed.
WriteRestNoFlush ==
  /\ up = "up" /\ ppc = "write"
  /\ ppc' = "clear"
  /\ UNCHANGED <<mem, changed, shutdown, pc, dump, file, torn, done, closer,
                 ctxDone, up, lives, dirty, ioErr, missed, inflight>>

\* The deferred flush writes the rest. Its error is dropped: persist goes on as
\* if the file were complete.
WriteRest ==
  /\ up = "up" /\ ppc = "write"
  /\ \/ /\ Part(DOMAIN dump, FALSE)
        /\ UNCHANGED ioErr
     \/ /\ DOMAIN dump # {}
        /\ ioErr' = TRUE
        /\ UNCHANGED <<file, torn>>
  /\ ppc' = "clear"
  /\ UNCHANGED <<mem, changed, shutdown, pc, dump, done, closer, ctxDone, up,
                 lives, dirty, missed, inflight>>

\* changed.Store(false): also for a call that changed the map after the dump
\* and has set the flag already.
PersistClear ==
  /\ up = "up" /\ ppc = "clear"
  /\ changed' = FALSE
  /\ missed' = {c \in dirty : pc[c] = "acked"}
  /\ ppc' = AfterPersist
  /\ UNCHANGED <<mem, shutdown, pc, dump, file, torn, done, closer, ctxDone, up,
                 lives, dirty, ioErr, inflight>>

(***************************************************************************)
(* The application: cancellation, Close, the end of the process, a crash,  *)
(* and New on the file that is left.                                       *)
(***************************************************************************)

Cancel ==
  /\ up = "up" /\ ~ctxDone
  /\ ctxDone' = TRUE
  /\ UNCHANGED <<mem, changed, shutdown, pc, ppc, dump, file, torn, done,
                 closer, up, lives, dirty, ioErr, missed, inflight>>

CloseSend ==
  /\ up = "up" /\ closer = "none"
  /\ done' = 1
  /\ closer' = "wait"
  /\ UNCHANGED <<mem, changed, shutdown, pc, ppc, dump, file, torn, ctxDone,
                 up, lives, dirty, ioErr, missed, inflight>>

CloseReturn ==
  /\ up = "up" /\ closer = "wait" /\ ppc = "closed"
  /\ closer' = "closed"
  /\ UNCHANGED <<mem, changed, shutdown, pc, ppc, dump, file, torn, done,
                 ctxDone, up, lives, dirty, ioErr, missed, inflight>>

\* The process ends: after Close, or by a crash. Calls in progress are lost.
Stop ==
  /\ up' = "down"
  /\ pc' = [c \in Calls |-> IF pc[c] \in {"apply", "mark"} THEN "lost" ELSE pc[c]]
  /\ UNCHANGED <<mem, changed, shutdown, ppc, dump, file, torn, done, closer,
                 ctxDone, lives, dirty, ioErr, missed, inflight>>

Exit == up = "up" /\ closer = "closed" /\ Stop

Crash == up = "up" /\ closer # "closed" /\ Stop

\* readURLsFromFile takes every line, or fails at a torn one and at a record
\* with an orig that does not parse.
Loads == ~torn /\ \A k \in DOMAIN file : file[k].orig \notin BadOrigs

\* New on the file of the last process.
Restart ==
  /\ up = "down" /\ lives < MaxLives
  /\ lives' = lives + 1
  /\ \/ Loads /\ up' = "up" /\ Boot(file)
     \/ /\ ~Loads /\ up' = "broken"
        /\ UNCHANGED <<mem, changed, shutdown, ppc, dump, done, closer, ctxDone,
                       dirty, ioErr, missed, inflight>>
  /\ UNCHANGED <<pc, file, torn>>

Writer(c) == Enter(c) \/ Apply(c) \/ Mark(c)
Persister == SelectTimer \/ SelectStop \/ PersistLoad \/ PersistOpen
             \/ PersistDump \/ WriteSome \/ WriteFails \/ WriteRest \/ PersistClear
App == Cancel \/ CloseSend \/ CloseReturn \/ Exit \/ Crash \/ Restart

Next == (\E c \in Calls : Writer(c)) \/ Persister \/ App

Spec == Init /\ [][Next]_vars
(***************************************************************************)
(* Fairness: started calls and the persister are goroutines that run, its  *)
(* interval timer fires, its file operations end, its select does not pass *)
(* over a ready case forever, and writes make progress: WriteSome is left  *)
(* out. Nobody has to call, cancel, close, crash or restart.               *)
(***************************************************************************)
Fairness ==
  /\ \A c \in Calls : WF_vars(Apply(c)) /\ WF_vars(Mark(c))
  /\ WF_vars(SelectTimer) /\ SF_vars(SelectStop)
  /\ WF_vars(PersistLoad) /\ WF_vars(PersistOpen) /\ WF_vars(PersistDump)
  /\ WF_vars(WriteFails \/ WriteRest) /\ WF_vars(PersistClear)
  /\ WF_vars(CloseReturn)

FairSpec == Spec /\ Fairness

-----------------------------------------------------------------------------

\* The file never mixes the records of two dumps, not even after a crash in the
\* middle of a rewrite or after a rewrite that failed.
FileOfOneDump ==
  \A k \in DOMAIN file : k \in DOMAIN dump /\ file[k] = dump[k]

\* Only a process that died while it wrote, or a failed write, leaves an incomplete
\* line for the next start to stumble over: a graceful stop never does.
TornOnlyMidWrite == torn => ppc = "write" \/ ioErr

\* While nothing is to be done (no call between its change and its mark, the
\* flag reset, no i/o error) the file is the map, but for the calls whose mark
\* was reset together with a rewrite that did not see their change.
QuietFileIsCurrent ==
  /\ up = "up" /\ ppc \in {"select", "closed"} /\ ~changed /\ ~ioErr
  /\ \A c \in Calls : pc[c] # "mark"
  /\ missed = {}
  => file = mem

\* file.go:49, "changed indicates that in-memory store was changed after last
\* file persistence": a reset flag means that the file is the map.
ChangedMeansUnsaved ==
  /\ up = "up" /\ ppc = "select" /\ ~changed /\ ~ioErr
  /\ \A c \in Calls : pc[c] # "mark"
  => file = mem

\* file.go:62-63, "If file path in configuration is pointing to valid file with data
\* saved before, it will be loaded": what a graceful stop wrote is loaded.
SavedFileLoads == up = "broken" => ppc # "closed" \/ ioErr

\* A graceful stop persists every change but those of calls that were in
\* progress when it began and those whose mark had been reset.
CloseKeepsAcked ==
  ppc = "closed" /\ ~ioErr => dirty \subseteq missed \cup inflight

\* Close returns, unless the process crashes first.
CloseReturns == closer = "wait" ~> (closer = "closed" \/ up # "up")

\* An acknowledged change is in a dump before long, unless its mark was reset,
\* the disk fails, or the store stops.
EventuallyDumped ==
  \A c \in Calls :
    (c \in dirty /\ pc[c] = "acked")
      ~> (c \notin dirty \/ c \in missed \/ ioErr \/ up # "up" \/ ppc = "closed")
=============================================================================
