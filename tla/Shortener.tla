------------------------------ MODULE Shortener ------------------------------
(***************************************************************************)
(* internal/services over internal/storage/database: the shortener and the *)
(* resolver called by concurrent requests, the delayed deletions in their  *)
(* queue, and the table of urls. Every SQL statement is a step, so two     *)
(* requests interleave between the insert and the lookup of a conflict,    *)
(* and a delete request, its pushes and the flush are steps of their own.  *)
(* The queue is the abstract DelayedQueue, which Flusher implements.       *)
(***************************************************************************)
EXTENDS Database

CONSTANTS Calls,      \* the requests in progress; each is served once
          Requests,   \* Requests[c]: what call c may ask, [kind, user, new, urls]
          Hashes, Users, Origs,
          MaxTries,   \* defaultStoreRetries
          MaxClock,   \* bound: the time stops there
          MaxFaults   \* bound: how many statements fail on the connection

ASSUME BoundsAssumption == MaxTries \in Nat \ {0} /\ MaxClock \in Nat /\ MaxFaults \in Nat

Kinds == {"shorten", "batch", "delete", "resolve", "list"}

\* Every request is of a known kind; a list of urls to store is one of urls, any
\* other one of paths.
ASSUME RequestsAssumption ==
  \A c \in Calls : \A q \in Requests[c] :
    /\ q.kind \in Kinds /\ q.user \in Users
    /\ q.urls \in Seq(IF q.kind \in {"shorten", "batch"} THEN Origs ELSE Hashes)
    /\ q.kind \in {"shorten", "resolve"} => Len(q.urls) = 1

VARIABLES
  rows,       \* the table
  clock,      \* the time, in units a timestamp can tell apart
  faults,     \* connection errors so far
  pc,         \* pc[c]: where call c is
  req,        \* req[c]: what it asks
  tries,      \* tries[c]: turns of the retry loop, or deletions pushed
  stamp,      \* stamp[c]: the timestamp of a delete request
  ans,        \* ans[c]: what the service returned, [err, val]
  pending,    \* the queue: deletions [call, n, short, user, ts] not flushed yet
  delivered,  \* the queue: deletions handed to deleteURLs
  refused,    \* the queue: deletions refused during the shutdown
  closed,     \* the queue: the shutdown flag
  stopped,    \* Run of the queue has returned
  ctxDone     \* the context of the application is cancelled

queue == <<pending, delivered, refused, closed>>
vars == <<rows, clock, faults, pc, req, tries, stamp, ans, pending, delivered,
          refused, closed, stopped, ctxDone>>

Deletions == [call : Calls, n : 1..3, short : Hashes, user : Users, ts : 0..MaxClock]
Queue == INSTANCE DelayedQueue WITH Elements <- Deletions

NoRequest == [kind |-> "none", user |-> "none", new |-> FALSE, urls |-> <<>>]

Init ==
  /\ rows = NoRows /\ clock = 1 /\ faults = 0
  /\ pc = [c \in Calls |-> "idle"] /\ req = [c \in Calls |-> NoRequest]
  /\ tries = [c \in Calls |-> 0] /\ stamp = [c \in Calls |-> 0]
  /\ ans = [c \in Calls |-> [err |-> "none", val |-> "none"]]
  /\ Queue!Init /\ stopped = FALSE /\ ctxDone = FALSE

Answer(c, err, val) ==
  /\ pc' = [pc EXCEPT ![c] = "done"]
  /\ ans' = [ans EXCEPT ![c] = [err |-> err, val |-> val]]

\* A statement fails on the connection, with the effect given or with none.
Fault == faults < MaxFaults /\ faults' = faults + 1

(***************************************************************************)
(* The requests.                                                           *)
(***************************************************************************)

\* A request starts. GetAll and DeleteBatch turn down a user whose session was
\* created with this request, and DeleteBatch an empty list.
Start(c) ==
  /\ pc[c] = "idle"
  /\ \E r \in Requests[c] :
       /\ req' = [req EXCEPT ![c] = r]
       /\ \/ /\ r.kind \in {"list", "delete"} /\ r.new
             /\ Answer(c, "unauthorized", "none")
             /\ UNCHANGED stamp
          \/ /\ r.kind = "delete" /\ ~r.new /\ r.urls = <<>>
             /\ Answer(c, "empty batch", "none")
             /\ UNCHANGED stamp
          \/ /\ r.kind = "delete" /\ ~r.new /\ r.urls # <<>>
             /\ stamp' = [stamp EXCEPT ![c] = clock]
             /\ pc' = [pc EXCEPT ![c] = "push"]
             /\ UNCHANGED ans
          \/ /\ r.kind # "delete" /\ ~(r.kind = "list" /\ r.new)
             /\ pc' = [pc EXCEPT ![c] = r.kind]
             /\ UNCHANGED <<stamp, ans>>
  /\ UNCHANGED <<rows, clock, faults, tries, queue, stopped, ctxDone>>

\* One turn of the loop of storeURL: a random path, and the insert.
Shorten(c) ==
  /\ pc[c] = "shorten"
  /\ \E h \in Hashes :
       LET url == [short |-> h, orig |-> req[c].urls[1], user |-> req[c].user] IN
       \/ /\ ~HashTaken(rows, url) /\ ~OrigTaken(rows, url)
          /\ rows' = Insert(rows, url, clock)
          /\ Answer(c, "ok", h)
          /\ UNCHANGED <<faults, tries>>
       \/ /\ HashTaken(rows, url)
          /\ tries' = [tries EXCEPT ![c] = @ + 1]
          /\ IF tries'[c] = MaxTries THEN Answer(c, "storage error", "none")
             ELSE UNCHANGED <<pc, ans>>
          /\ UNCHANGED <<rows, faults>>
       \/ /\ OrigTaken(rows, url)
          /\ pc' = [pc EXCEPT ![c] = "conflict"]
          /\ UNCHANGED <<rows, faults, tries, ans>>
       \/ /\ Fault
          /\ rows' \in {rows} \cup
                (IF HashTaken(rows, url) \/ OrigTaken(rows, url) THEN {}
                 ELSE {Insert(rows, url, clock)})
          /\ Answer(c, "storage error", "none")
          /\ UNCHANGED tries
  /\ UNCHANGED <<clock, req, stamp, queue, stopped, ctxDone>>

\* getHashByURL, a statement later: the row of the conflict may be a deleted
\* one, which it does not find.
Conflict(c) ==
  LET live == LiveHashes(rows, req[c].urls[1]) IN
  /\ pc[c] = "conflict"
  /\ \/ \E h \in live : Answer(c, "conflict", h) /\ UNCHANGED faults
     \/ live = {} /\ Answer(c, "storage error", "none") /\ UNCHANGED faults
     \/ Fault /\ Answer(c, "storage error", "none")
  /\ UNCHANGED <<rows, clock, req, tries, stamp, queue, stopped, ctxDone>>

\* Mutant: one statement for every url, without a transaction.
ShortenBatchNoTx(c) ==
  /\ pc[c] = "batch"
  /\ \E hs \in [DOMAIN req[c].urls -> Hashes], n \in 0..Len(req[c].urls) :
       LET urls == [i \in DOMAIN hs |-> [short |-> hs[i], orig |-> req[c].urls[i],
                                         user |-> req[c].user]]
           Fits(k) == BatchFits(rows, SubSeq(urls, 1, k))
       IN  /\ Fits(n) /\ (n = Len(urls) \/ ~Fits(n + 1))
           /\ rows' = InsertBatch(rows, SubSeq(urls, 1, n), clock)
           /\ IF n = Len(urls) THEN Answer(c, "ok", hs) ELSE Answer(c, "storage error", "none")
  /\ UNCHANGED <<faults, clock, req, tries, stamp, queue, stopped, ctxDone>>

\* ShortenBatch: a random path for every url, one transaction, no retry.
ShortenBatch(c) ==
  /\ pc[c] = "batch"
  /\ \E hs \in [DOMAIN req[c].urls -> Hashes] :
       LET urls == [i \in DOMAIN hs |-> [short |-> hs[i], orig |-> req[c].urls[i],
                                         user |-> req[c].user]]
       IN  \/ /\ BatchFits(rows, urls)
              /\ rows' = InsertBatch(rows, urls, clock)
              /\ Answer(c, "ok", hs)
              /\ UNCHANGED faults
           \/ /\ ~BatchFits(rows, urls)
              /\ Answer(c, "storage error", "none")
              /\ UNCHANGED <<rows, faults>>
           \/ /\ Fault
              /\ rows' \in {rows} \cup
                   (IF BatchFits(rows, urls) THEN {InsertBatch(rows, urls, clock)} ELSE {})
              /\ Answer(c, "storage error", "none")
  /\ UNCHANGED <<clock, req, tries, stamp, queue, stopped, ctxDone>>

\* One Push of the loop of DeleteBatch. The first refusal ends the loop; what
\* was pushed before stays in the queue.
PushNext(c) ==
  LET n == tries[c] + 1
      e == [call |-> c, n |-> n, short |-> req[c].urls[n], user |-> req[c].user,
            ts |-> stamp[c]]
  IN  /\ pc[c] = "push"
      /\ \/ /\ Queue!Take(e)
            /\ tries' = [tries EXCEPT ![c] = n]
            /\ IF n = Len(req[c].urls) THEN Answer(c, "ok", "none")
               ELSE UNCHANGED <<pc, ans>>
         \/ /\ Queue!Refuse(e)
            /\ Answer(c, "delete error", "none")
            /\ UNCHANGED tries
      /\ UNCHANGED <<rows, clock, faults, req, stamp, stopped, ctxDone>>

\* Resolve. Get hides a connection error: the caller sees an empty orig.
Resolve(c) ==
  LET orig == GetOrig(rows, req[c].urls[1]) IN
  /\ pc[c] = "resolve"
  /\ \/ /\ orig \in {"not found", "deleted"}
        /\ Answer(c, orig, "none")
        /\ UNCHANGED faults
     \/ /\ orig \notin {"not found", "deleted"}
        /\ Answer(c, "ok", orig)
        /\ UNCHANGED faults
     \/ Fault /\ Answer(c, "ok", "empty")
  /\ UNCHANGED <<rows, clock, req, tries, stamp, queue, stopped, ctxDone>>

\* GetAll: no live row is an error, like a failed statement.
GetAll(c) ==
  LET hs == UserHashes(rows, req[c].user) IN
  /\ pc[c] = "list"
  /\ \/ hs = {} /\ Answer(c, "not found", "none") /\ UNCHANGED faults
     \/ hs # {} /\ Answer(c, "ok", hs) /\ UNCHANGED faults
     \/ Fault /\ Answer(c, "storage error", "none")
  /\ UNCHANGED <<rows, clock, req, tries, stamp, queue, stopped, ctxDone>>

(***************************************************************************)
(* The flush callback deleteURLs, one transaction per batch: an error is   *)
(* logged and the batch is gone. A context cancelled during the flush may  *)
(* stop it before or after the commit; the last flush is called with a     *)
(* context that is cancelled already, and its statement is never sent.     *)
(***************************************************************************)
Flush ==
  /\ ~closed
  /\ Queue!HandOver
  /\ \/ rows' = DeleteBatch(rows, pending) /\ UNCHANGED faults
     \/ (ctxDone \/ faults < MaxFaults)
        /\ rows' \in {rows, DeleteBatch(rows, pending)}
        /\ faults' = IF ctxDone THEN faults ELSE faults + 1
  /\ UNCHANGED <<clock, pc, req, tries, stamp, ans, stopped, ctxDone>>

Close ==
  /\ ctxDone
  /\ Queue!Close
  /\ UNCHANGED <<rows, clock, faults, pc, req, tries, stamp, ans, stopped, ctxDone>>

LastFlush ==
  /\ closed /\ ~stopped
  /\ stopped' = TRUE
  /\ Queue!HandOver \/ (pending = <<>> /\ UNCHANGED queue)
  /\ UNCHANGED <<rows, clock, faults, pc, req, tries, stamp, ans, ctxDone>>

Cancel ==
  /\ ~ctxDone
  /\ ctxDone' = TRUE
  /\ UNCHANGED <<rows, clock, faults, pc, req, tries, stamp, ans, queue, stopped>>

Tick ==
  /\ clock < MaxClock
  /\ clock' = clock + 1
  /\ UNCHANGED <<rows, faults, pc, req, tries, stamp, ans, queue, stopped, ctxDone>>

Serve(c) == \/ Start(c) \/ Shorten(c) \/ Conflict(c) \/ ShortenBatch(c)
            \/ PushNext(c) \/ Resolve(c) \/ GetAll(c)

Next == \/ \E c \in Calls : Serve(c)
        \/ Flush \/ Close \/ LastFlush \/ Cancel \/ Tick

Spec == Init /\ [][Next]_vars

\* Requests in progress are served, the queue is flushed before it is stopped
\* and stops once the context is cancelled (Flusher, which says when it may not).
Fairness == /\ \A c \in Calls : WF_vars(Shorten(c) \/ Conflict(c) \/ ShortenBatch(c)
                                        \/ PushNext(c) \/ Resolve(c) \/ GetAll(c))
            /\ WF_vars(Flush) /\ WF_vars(Close) /\ WF_vars(LastFlush)

FairSpec == Spec /\ Fairness

-----------------------------------------------------------------------------

\* The path a caller was given, whether new or of a conflict, leads to the url it
\* asked for, in a batch too, and goes on doing so: the path of a conflict is
\* looked up by a second statement, and no call changes what a path leads to.
\* Who resolves a path is sent to what it leads to, or to an empty url when the
\* statement of Get has failed, whose error is hidden.
AnswerLeadsToOrig ==
  \A c \in Calls : ans[c].err \in {"ok", "conflict"} =>
    LET hs == CASE req[c].kind = "shorten" -> <<ans[c].val>>
                [] req[c].kind = "batch" -> ans[c].val
                [] OTHER -> <<>>
    IN  /\ \A i \in DOMAIN hs : hs[i] \in DOMAIN rows /\ rows[hs[i]].orig = req[c].urls[i]
        /\ req[c].kind = "resolve" =>
             \/ \E h \in DOMAIN rows : h = req[c].urls[1] /\ rows[h].orig = ans[c].val
             \/ ans[c].val = "empty" /\ faults > 0

\* A url that was deleted was deleted by its owner, in a request that came after
\* the url was created: neither a deletion that waits in the queue nor one sent
\* ahead of the url hits a row that is younger than the request.
DeletedByEarlierOwner ==
  \A h \in DOMAIN rows : rows[h].deleted =>
    \E i \in DOMAIN delivered : LET e == delivered[i] IN
      /\ e.short = h /\ e.user = rows[h].user /\ rows[h].ts < e.ts
      /\ req[e.call].kind = "delete" /\ req[e.call].user = rows[h].user /\ ~req[e.call].new

\* A call that reports an error has stored nothing, unless the connection failed.
ErrorStoresNothing ==
  [][\A c \in Calls :
       (pc[c] # "done" /\ ans'[c].err \notin {"none", "ok"} /\ faults' = faults)
         => rows' = rows]_vars

\* A deletion that was accepted is applied before the shutdown, if it names a row
\* of its user that is older, unless a statement failed.
DeletionApplied ==
  \A c \in Calls, h \in Hashes :
    (/\ pc[c] = "done" /\ ans[c].err = "ok" /\ req[c].kind = "delete"
     /\ h \in DOMAIN rows /\ rows[h].user = req[c].user /\ rows[h].ts < stamp[c]
     /\ \E i \in DOMAIN req[c].urls : req[c].urls[i] = h)
      ~> ((h \in DOMAIN rows /\ rows[h].deleted) \/ ctxDone \/ faults > 0)

\* batch.go:69, "URLs are pushed to flusher queue and deleted asynchronously": once
\* the queue stopped, what it took before the shutdown was deleted.
AcceptedDeletesApplied ==
  stopped /\ faults = 0 =>
    \A i \in DOMAIN delivered : \A h \in DOMAIN rows :
      Deletes(delivered[i], rows, h) => rows[h].deleted

\* The table is an abstract url store.
Urls == [h \in DOMAIN rows |-> [orig |-> rows[h].orig, user |-> rows[h].user,
                                deleted |-> rows[h].deleted]]
AbstractStore == INSTANCE UrlStore WITH Keys <- Hashes, urls <- Urls

UrlStoreSpec == AbstractStore!Spec
=============================================================================
