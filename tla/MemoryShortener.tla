--------------------------- MODULE MemoryShortener ---------------------------
(***************************************************************************)
(* internal/services over internal/storage/memory. As MemoryStore shows,   *)
(* a call of the storage is one step of an abstract url store; between the *)
(* steps of a request the others go on. Unlike the database, the memory    *)
(* stores an url twice, gives a deleted path away again, lists what is     *)
(* deleted, ignores the time of a deletion and never looks at the context. *)
(***************************************************************************)
EXTENDS UrlMap

CONSTANTS Calls,      \* the requests; each is served once
          Requests,   \* Requests[c]: what call c may ask, [kind, user, new, urls]
          Paths, Users, Origs,
          MaxTries    \* defaultStoreRetries

ASSUME MaxTriesAssumption == MaxTries \in Nat \ {0}

Kinds == {"shorten", "batch", "delete", "resolve", "list"}

\* Every request is of a known kind; a list of urls to store is one of urls, any
\* other one of paths.
ASSUME RequestsAssumption ==
  \A c \in Calls : \A r \in Requests[c] :
    /\ r.kind \in Kinds /\ r.user \in Users
    /\ r.urls \in Seq(IF r.kind \in {"shorten", "batch"} THEN Origs ELSE Paths)
    /\ r.kind \in {"shorten", "resolve"} => Len(r.urls) = 1

VARIABLES
  urls,       \* the map
  pc,         \* pc[c]: where call c is
  req,        \* req[c]: what it asks
  tries,      \* tries[c]: turns of the retry loop, or deletions pushed
  ans,        \* ans[c]: what the service returned, [err, val]
  born,       \* history: born[c], how many deletions came before the answer
  pending,    \* the queue: deletions [call, n, short, user] not flushed yet
  delivered,  \* the queue: deletions handed to deleteURLs
  refused,    \* the queue: deletions refused during the shutdown
  closed,     \* the queue: the shutdown flag
  stopped,    \* Run of the queue has returned
  ctxDone     \* the context of the application is cancelled

queue == <<pending, delivered, refused, closed>>
vars == <<urls, pc, req, tries, ans, born, queue, stopped, ctxDone>>

Deletions == [call : Calls, n : 1..3, short : Paths, user : Users]
Queue == INSTANCE DelayedQueue WITH Elements <- Deletions

NoRequest == [kind |-> "none", user |-> "none", new |-> FALSE, urls |-> <<>>]

Init ==
  /\ urls = EmptyMap
  /\ pc = [c \in Calls |-> "idle"] /\ req = [c \in Calls |-> NoRequest]
  /\ tries = [c \in Calls |-> 0] /\ born = [c \in Calls |-> 0]
  /\ ans = [c \in Calls |-> [err |-> "none", val |-> "none"]]
  /\ Queue!Init /\ stopped = FALSE /\ ctxDone = FALSE

Answer(c, err, val) ==
  /\ pc' = [pc EXCEPT ![c] = "done"]
  /\ ans' = [ans EXCEPT ![c] = [err |-> err, val |-> val]]
  /\ born' = [born EXCEPT ![c] = Len(delivered)]

\* A request starts, or is turned down before it reaches storage or queue.
Start(c) ==
  /\ pc[c] = "idle"
  /\ \E r \in Requests[c] :
       /\ req' = [req EXCEPT ![c] = r]
       /\ \/ r.kind \in {"list", "delete"} /\ r.new /\ Answer(c, "unauthorized", "none")
          \/ r.kind = "delete" /\ ~r.new /\ r.urls = <<>> /\ Answer(c, "empty batch", "none")
          \/ /\ r.kind \in {"list", "delete"} => ~r.new
             /\ r.kind = "delete" => r.urls # <<>>
             /\ pc' = [pc EXCEPT ![c] = r.kind]
             /\ UNCHANGED <<ans, born>>
  /\ UNCHANGED <<urls, tries, queue, stopped, ctxDone>>

\* The url of a path that was drawn for the i-th orig of a request.
Url(c, i, path) == [short |-> path, orig |-> req[c].urls[i], user |-> req[c].user]

\* Mutant: the path of the last try is answered, taken or not.
ShortenLastTry(c) ==
  /\ pc[c] = "shorten"
  /\ \E path \in Paths :
       \/ /\ ~Taken(urls, path)
          /\ urls' = PutAll(urls, <<Url(c, 1, path)>>)
          /\ Answer(c, "ok", path)
          /\ UNCHANGED tries
       \/ /\ Taken(urls, path)
          /\ tries' = [tries EXCEPT ![c] = @ + 1]
          /\ IF tries'[c] = MaxTries THEN Answer(c, "ok", path)
             ELSE UNCHANGED <<pc, ans, born>>
          /\ UNCHANGED urls
  /\ UNCHANGED <<req, queue, stopped, ctxDone>>

\* One turn of the loop of storeURL: a random path, and Store.
Shorten(c) ==
  /\ pc[c] = "shorten"
  /\ \E path \in Paths :
       \/ /\ ~Taken(urls, path)
          /\ urls' = PutAll(urls, <<Url(c, 1, path)>>)
          /\ Answer(c, "ok", path)
          /\ UNCHANGED tries
       \/ /\ Taken(urls, path)
          /\ tries' = [tries EXCEPT ![c] = @ + 1]
          /\ IF tries'[c] = MaxTries THEN Answer(c, "storage error", "none")
             ELSE UNCHANGED <<pc, ans, born>>
          /\ UNCHANGED urls
  /\ UNCHANGED <<req, queue, stopped, ctxDone>>

\* ShortenBatch: a random path for every url, no retry. Nothing keeps two urls
\* of a batch from the same path.
ShortenBatch(c) ==
  /\ pc[c] = "batch"
  /\ \E paths \in [DOMAIN req[c].urls -> Paths] :
       LET batch == [i \in DOMAIN paths |-> Url(c, i, paths[i])] IN
       \/ /\ \A i \in DOMAIN paths : ~Taken(urls, paths[i])
          /\ urls' = PutAll(urls, batch)
          /\ Answer(c, "ok", paths)
       \/ /\ \E i \in DOMAIN paths : Taken(urls, paths[i])
          /\ Answer(c, "storage error", "none")
          /\ UNCHANGED urls
  /\ UNCHANGED <<req, tries, queue, stopped, ctxDone>>

\* One Push of the loop of DeleteBatch.
PushNext(c) ==
  LET n == tries[c] + 1
      e == [call |-> c, n |-> n, short |-> req[c].urls[n], user |-> req[c].user]
  IN  /\ pc[c] = "delete"
      /\ \/ /\ Queue!Take(e)
            /\ tries' = [tries EXCEPT ![c] = n]
            /\ IF n = Len(req[c].urls) THEN Answer(c, "ok", "none")
               ELSE UNCHANGED <<pc, ans, born>>
         \/ /\ Queue!Refuse(e)
            /\ Answer(c, "delete error", "none")
            /\ UNCHANGED tries
      /\ UNCHANGED <<urls, req, stopped, ctxDone>>

Resolve(c) ==
  LET orig == GetOrig(urls, req[c].urls[1]) IN
  /\ pc[c] = "resolve"
  /\ \/ orig \in {"not found", "deleted"} /\ Answer(c, orig, "none")
     \/ orig \notin {"not found", "deleted"} /\ Answer(c, "ok", orig)
  /\ UNCHANGED <<urls, req, tries, queue, stopped, ctxDone>>

\* GetAll: an empty list is no error here.
GetAll(c) ==
  /\ pc[c] = "list"
  /\ Answer(c, "ok", UserShorts(urls, req[c].user))
  /\ UNCHANGED <<urls, req, tries, queue, stopped, ctxDone>>

\* The flush callback, in one critical section of the storage.
Flush ==
  /\ ~closed
  /\ Queue!HandOver
  /\ urls' = MarkDeleted(urls, pending)
  /\ UNCHANGED <<pc, req, tries, ans, born, stopped, ctxDone>>

Close ==
  /\ ctxDone
  /\ Queue!Close
  /\ UNCHANGED <<urls, pc, req, tries, ans, born, stopped, ctxDone>>

\* Mutant: the last flush is cut off by its context.
LastFlushCancelled ==
  /\ closed /\ ~stopped
  /\ stopped' = TRUE
  /\ Queue!HandOver \/ (pending = <<>> /\ UNCHANGED queue)
  /\ UNCHANGED <<urls, pc, req, tries, ans, born, ctxDone>>

\* The last flush, whose context is cancelled, is executed like any other.
LastFlush ==
  /\ closed /\ ~stopped
  /\ stopped' = TRUE
  /\ \/ Queue!HandOver /\ urls' = MarkDeleted(urls, pending)
     \/ pending = <<>> /\ UNCHANGED <<urls, queue>>
  /\ UNCHANGED <<pc, req, tries, ans, born, ctxDone>>

Cancel ==
  /\ ~ctxDone
  /\ ctxDone' = TRUE
  /\ UNCHANGED <<urls, pc, req, tries, ans, born, queue, stopped>>

Serve(c) == \/ Start(c) \/ Shorten(c) \/ ShortenBatch(c) \/ PushNext(c)
            \/ Resolve(c) \/ GetAll(c)

Next == \/ \E c \in Calls : Serve(c)
        \/ Flush \/ Close \/ LastFlush \/ Cancel

Spec == Init /\ [][Next]_vars

-----------------------------------------------------------------------------

\* The paths that call c was given, by the orig they were drawn for.
Given(c) ==
  IF ans[c].err # "ok" THEN <<>>
  ELSE CASE req[c].kind = "shorten" -> <<ans[c].val>>
         [] req[c].kind = "batch" -> ans[c].val
         [] OTHER -> <<>>

\* Deletion i of those delivered is for path k of user u, and came after answer c.
Gone(c, k) ==
  \E i \in DOMAIN delivered :
    i > born[c] /\ delivered[i].short = k /\ delivered[i].user = req[c].user

\* A path leads to the url that it was answered for, although the memory gives
\* deleted paths away: until its user has it deleted, or when a later url of
\* the same batch drew the same path.
AnswerLeadsToOrig ==
  \A c \in Calls : \A i \in DOMAIN Given(c) :
    LET k == Given(c)[i] IN
    \/ k \in DOMAIN urls /\ urls[k].orig = req[c].urls[i] /\ urls[k].user = req[c].user
    \/ Gone(c, k)
    \/ \E j \in DOMAIN Given(c) : j > i /\ Given(c)[j] = k

\* README.md:6-7, "store original url and provide shortened url back" and "redirect to
\* original url": every path that was answered leads to its url, if nobody
\* deletes it.
EveryAnswerLeadsToOrig ==
  \A c \in Calls : \A i \in DOMAIN Given(c) :
    LET k == Given(c)[i] IN
    Gone(c, k) \/ (k \in DOMAIN urls /\ urls[k].orig = req[c].urls[i])

\* A record is marked for its owner only: somebody who had the path before, or asks
\* for one that is not his, has no effect on the one who has it now.
DeletedByOwner ==
  \A k \in DOMAIN urls : urls[k].deleted =>
    \E i \in DOMAIN delivered :
      delivered[i].short = k /\ delivered[i].user = urls[k].user
      /\ req[delivered[i].call].kind = "delete" /\ ~req[delivered[i].call].new

\* A deletion that was handed over has been executed, in the last flush too: what
\* it names and is there was stored after it.
DeliveredIsDeleted ==
  \A i \in DOMAIN delivered : LET e == delivered[i] IN
    Owned(urls, e) /\ ~urls[e.short].deleted =>
      \E c \in Calls : \E j \in DOMAIN Given(c) :
        Given(c)[j] = e.short /\ req[c].user = e.user /\ born[c] >= i

\* Under its requests and its queue the map is still an abstract url store: the retries,
\* the batches and the last flush do to it what UrlStore lets a storage do.
AbstractStore == INSTANCE UrlStore WITH Keys <- Paths

UrlStoreSpec == AbstractStore!Spec
=============================================================================
