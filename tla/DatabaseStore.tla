---------------------------- MODULE DatabaseStore ----------------------------
(***************************************************************************)
(* internal/storage/database as a storage of its own: concurrent calls of  *)
(* its methods, of one process or of several over the same table, each a   *)
(* few statements, with the overwriting Store that no service asks for.    *)
(* A statement may fail on the connection, executed or not.                *)
(***************************************************************************)
EXTENDS Database

CONSTANTS Calls,
          Requests,   \* Requests[c]: what call c may be, [kind, overwrite, urls]
          Hashes, Users, Origs,
          MaxClock,   \* bound: the time stops there
          MaxFaults   \* bound: how many statements fail on the connection

ASSUME DatabaseAssumption == MaxClock \in Nat \ {0} /\ MaxFaults \in Nat

Kinds == {"store", "batch", "get", "list", "stats", "delete"}

\* Every request is a call of a method, and no url looks like an outcome of Get.
ASSUME RequestsAssumption ==
  \A c \in Calls : \A q \in Requests[c] :
    /\ q.kind \in Kinds
    /\ q.kind = "store" => q.urls[1].orig \notin {"not found", "deleted"}

VARIABLES
  rows,     \* the table
  clock,    \* the time
  faults,   \* statements that failed on the connection so far
  pc,       \* pc[c]: the statement that call c sends next
  req,      \* req[c]: its arguments; a url is [short, orig, user, ts]
  now,      \* now[c]: the time when a call of DeleteUserURLs began
  ans       \* ans[c]: what it returned, [err, val]

vars == <<rows, clock, faults, pc, req, now, ans>>

NoRequest == [kind |-> "none", overwrite |-> FALSE, urls |-> <<>>]

Init ==
  /\ rows = NoRows /\ clock = 1 /\ faults = 0
  /\ pc = [c \in Calls |-> "idle"] /\ req = [c \in Calls |-> NoRequest]
  /\ now = [c \in Calls |-> 0]
  /\ ans = [c \in Calls |-> [err |-> "none", val |-> "none"]]

Url(c) == req[c].urls[1]

Goto(c, at) == pc' = [pc EXCEPT ![c] = at] /\ UNCHANGED ans

Return(c, err, val) ==
  /\ pc' = [pc EXCEPT ![c] = "done"]
  /\ ans' = [ans EXCEPT ![c] = [err |-> err, val |-> val]]

NoFault == UNCHANGED faults
Fault == faults < MaxFaults /\ faults' = faults + 1

Call(c) ==
  /\ pc[c] = "idle"
  /\ \E r \in Requests[c] :
       /\ req' = [req EXCEPT ![c] = r]
       /\ Goto(c, IF r.kind # "store" THEN r.kind
                  ELSE IF r.overwrite THEN "lookup" ELSE "insert")
  /\ now' = [now EXCEPT ![c] = clock]
  /\ UNCHANGED <<rows, clock, faults>>

(***************************************************************************)
(* Store.                                                                  *)
(***************************************************************************)

\* The insert, and what its error says.
StoreInsert(c) ==
  /\ pc[c] = "insert"
  /\ \/ /\ ~HashTaken(rows, Url(c)) /\ ~OrigTaken(rows, Url(c))
        /\ rows' = Insert(rows, Url(c), clock)
        /\ Return(c, "ok", "none") /\ NoFault
     \/ /\ HashTaken(rows, Url(c))
        /\ Return(c, "already exists", "none") /\ NoFault /\ UNCHANGED rows
     \/ /\ OrigTaken(rows, Url(c))
        /\ Goto(c, "conflict") /\ NoFault /\ UNCHANGED rows
     \/ /\ Fault /\ Return(c, "failed", "none")
        /\ rows' \in {rows} \cup (IF HashTaken(rows, Url(c)) \/ OrigTaken(rows, Url(c)) THEN {}
                                  ELSE {Insert(rows, Url(c), clock)})
  /\ UNCHANGED <<clock, req, now>>

\* getHashByURL.
StoreConflict(c) ==
  LET live == LiveHashes(rows, Url(c).orig) IN
  /\ pc[c] = "conflict"
  /\ \/ \E h \in live : Return(c, "conflict", h) /\ NoFault
     \/ live = {} /\ Return(c, "not found", "none") /\ NoFault
     \/ Fault /\ Return(c, "failed", "none")
  /\ UNCHANGED <<rows, clock, req, now>>

\* Mutant: a path that is not there is updated too.
StoreLookupUpdates(c) ==
  LET orig == GetOrig(rows, Url(c).short) IN
  /\ pc[c] = "lookup"
  /\ \/ orig = "deleted" /\ Return(c, "deleted", "none") /\ NoFault
     \/ orig = Url(c).orig /\ Return(c, "ok", "none") /\ NoFault
     \/ orig \notin {"deleted", Url(c).orig} /\ Goto(c, "update") /\ NoFault
  /\ UNCHANGED <<rows, clock, req, now>>

\* storeWithOverwrite starts with Get, which returns no url and no error when its
\* statement fails.
StoreLookup(c) ==
  LET orig == GetOrig(rows, Url(c).short) IN
  /\ pc[c] = "lookup"
  /\ \/ orig = "not found" /\ Goto(c, "insert") /\ NoFault
     \/ orig = "deleted" /\ Return(c, "deleted", "none") /\ NoFault
     \/ orig = Url(c).orig /\ Return(c, "ok", "none") /\ NoFault
     \/ orig \notin {"not found", "deleted", Url(c).orig} /\ Goto(c, "update") /\ NoFault
     \/ Fault /\ Goto(c, "update")
  /\ UNCHANGED <<rows, clock, req, now>>

\* Row h gets the path of a url.
Move(h, url) ==
  [k \in (DOMAIN rows \ {h}) \cup {url.short} |->
     IF k = url.short THEN rows[h] ELSE rows[k]]

\* Mutant: no row is as good as one.
StoreUpdateAny(c) ==
  LET hs == {h \in DOMAIN rows : rows[h].orig = Url(c).orig} IN
  /\ pc[c] = "update"
  /\ \/ hs = {} /\ Return(c, "ok", "none") /\ UNCHANGED rows
     \/ \E h \in hs : rows' = Move(h, Url(c)) /\ Return(c, "ok", "none")
  /\ UNCHANGED <<clock, faults, req, now>>

\* updateOrig looks for the row by the new orig, and gives it the path.
StoreUpdate(c) ==
  LET hs == {h \in DOMAIN rows : rows[h].orig = Url(c).orig}
      free == DOMAIN rows \cap {Url(c).short} \subseteq hs
  IN
  /\ pc[c] = "update"
  /\ \/ hs = {} /\ Return(c, "no row", "none") /\ NoFault /\ UNCHANGED rows
     \/ \E h \in hs : free /\ rows' = Move(h, Url(c)) /\ Return(c, "ok", "none") /\ NoFault
     \/ hs # {} /\ ~free /\ Return(c, "failed", "none") /\ NoFault /\ UNCHANGED rows
     \/ /\ Fault /\ Return(c, "failed", "none")
        /\ rows' \in {rows} \cup {Move(h, Url(c)) : h \in {k \in hs : free}}
  /\ UNCHANGED <<clock, req, now>>

(***************************************************************************)
(* The other methods, of one statement or one transaction each.            *)
(***************************************************************************)

StoreBatch(c) ==
  /\ pc[c] = "batch"
  /\ \/ /\ BatchFits(rows, req[c].urls) /\ rows' = InsertBatch(rows, req[c].urls, clock)
        /\ Return(c, "ok", "none") /\ NoFault
     \/ /\ ~BatchFits(rows, req[c].urls) /\ UNCHANGED rows
        /\ Return(c, "already exists", "none") /\ NoFault
     \/ /\ Fault /\ Return(c, "failed", "none")
        /\ rows' \in {rows} \cup (IF BatchFits(rows, req[c].urls)
                                  THEN {InsertBatch(rows, req[c].urls, clock)} ELSE {})
  /\ UNCHANGED <<clock, req, now>>

Get(c) ==
  LET orig == GetOrig(rows, Url(c).short) IN
  /\ pc[c] = "get"
  /\ \/ orig \in {"not found", "deleted"} /\ Return(c, orig, "none") /\ NoFault
     \/ orig \notin {"not found", "deleted"} /\ Return(c, "ok", orig) /\ NoFault
     \/ Fault /\ Return(c, "ok", "empty")
  /\ UNCHANGED <<rows, clock, req, now>>

ListUserURLs(c) ==
  LET hs == UserHashes(rows, Url(c).user) IN
  /\ pc[c] = "list"
  /\ \/ hs = {} /\ Return(c, "not found", "none") /\ NoFault
     \/ hs # {} /\ Return(c, "ok", hs) /\ NoFault
     \/ Fault /\ Return(c, "failed", "none")
  /\ UNCHANGED <<rows, clock, req, now>>

Stats(c) ==
  /\ pc[c] = "stats"
  /\ \/ Return(c, "ok", StatsOf(rows)) /\ NoFault
     \/ Fault /\ Return(c, "failed", "none")
  /\ UNCHANGED <<rows, clock, req, now>>

\* The time that url i of a deletion is deleted up to: its own, else the one of
\* the last url before it that has one, else the time of the call.
StampAt(urls, i, began) ==
  LET set == {j \in 1..i : urls[j].ts # 0} IN
  IF set = {} THEN began ELSE urls[CHOOSE j \in set : \A k \in set : k <= j].ts

Stamped(c) ==
  [i \in DOMAIN req[c].urls |->
     [req[c].urls[i] EXCEPT !.ts = StampAt(req[c].urls, i, now[c])]]

DeleteUserURLs(c) ==
  LET affected == Cardinality({i \in DOMAIN req[c].urls :
                                 \E h \in DOMAIN rows : Deletes(Stamped(c)[i], rows, h)})
  IN
  /\ pc[c] = "delete"
  /\ \/ /\ rows' = DeleteBatch(rows, Stamped(c))
        /\ Return(c, "ok", affected) /\ NoFault
     \/ /\ rows' \in {rows, DeleteBatch(rows, Stamped(c))}
        /\ Return(c, "failed", "none") /\ Fault
  /\ UNCHANGED <<clock, req, now>>

Tick ==
  /\ clock < MaxClock
  /\ clock' = clock + 1
  /\ UNCHANGED <<rows, faults, pc, req, now, ans>>

Step(c) == \/ Call(c) \/ StoreInsert(c) \/ StoreConflict(c) \/ StoreLookup(c)
           \/ StoreUpdate(c) \/ StoreBatch(c) \/ Get(c) \/ ListUserURLs(c)
           \/ Stats(c) \/ DeleteUserURLs(c)

Next == (\E c \in Calls : Step(c)) \/ Tick

Spec == Init /\ [][Next]_vars

-----------------------------------------------------------------------------

Tells(c, err) == pc[c] # "done" /\ pc'[c] = "done" /\ ans'[c].err = err

\* Whatever happens between its statements, with overwrite or without, and with a
\* failed lookup too: when Store succeeds, the path leads to the url, and when
\* it tells of a conflict, the path it returns does, and is not deleted.
StoreTellsPath ==
  [][\A c \in Calls : req[c].kind = "store" =>
       /\ Tells(c, "ok") => /\ Url(c).short \in DOMAIN rows'
                            /\ rows'[Url(c).short].orig = Url(c).orig
       /\ Tells(c, "conflict") => /\ rows'[ans'[c].val].orig = Url(c).orig
                                  /\ ~rows'[ans'[c].val].deleted]_vars

\* Somebody overwrites path h: a store of that path, with the flag, at its update.
Overwrites(c, h) ==
  /\ pc[c] = "update" /\ pc'[c] = "done"
  /\ req[c].overwrite /\ Url(c).short = h

\* While every statement gets its answer, a path leads where it led until a store
\* with the overwrite flag names that path: no call without the flag and no
\* overwriting of another path changes its url or takes its row away, although
\* the update is made long after the lookup, and finds its row by the url.
OnlyOverwritten ==
  [][faults' = 0 => \A h \in DOMAIN rows :
       \/ h \in DOMAIN rows' /\ rows'[h].orig = rows[h].orig
       \/ \E c \in Calls : Overwrites(c, h)]_vars

\* database.go:63, "Overwrite flag controls if already stored url can be overwritten if
\* hash is the same": with the flag a live url is overwritten.
OverwriteOverwrites ==
  [][\A c \in Calls : pc[c] = "update" /\ faults' = 0 /\ pc'[c] = "done"
                        => ans'[c].err = "ok"]_vars

\* database.go:123, "Get retrieves stored url by its hash": what Get returns without an
\* error is an url.
GetReturnsUrl ==
  \A c \in Calls : req[c].kind = "get" /\ ans[c].err = "ok" => ans[c].val \in Origs

\* database.go:177, "deletion timestamp was not set, assuming now()": an url without
\* one is deleted if it is older than the call.
UnsetMeansNow ==
  [][\A c \in Calls : req[c].kind = "delete" /\ Tells(c, "ok") =>
       \A i \in DOMAIN req[c].urls : LET url == req[c].urls[i] IN
         /\ url.ts = 0 /\ url.short \in DOMAIN rows
         /\ rows[url.short].user = url.user /\ rows[url.short].ts < now[c]
         => rows'[url.short].deleted]_vars
=============================================================================
