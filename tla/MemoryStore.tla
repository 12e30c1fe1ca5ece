----------------------------- MODULE MemoryStore -----------------------------
(***************************************************************************)
(* internal/storage/memory: the map of UrlMap behind a mutex, called from  *)
(* the goroutines of requests. Every operation but Stats takes the mutex;  *)
(* Stats walks over the map without it. A write to a Go map during such a  *)
(* walk is undefined: the runtime may detect it and abort the process, or  *)
(* the walk may count any of the records.                                  *)
(***************************************************************************)
EXTENDS UrlMap

CONSTANTS Threads,    \* the goroutines; each makes at most one call
          Keys, Users, Origs,
          Requests    \* [kind, urls, overwrite], urls the sequence it is about

ASSUME ThreadsAssumption == "free" \notin Threads
ASSUME RequestsAssumption ==
  \A r \in Requests :
    /\ r.kind \in {"store", "batch", "delete", "get", "list", "dump", "stats"}
    /\ r.urls \in Seq([short : Keys, orig : Origs, user : Users])
    /\ r.kind = "store" => Len(r.urls) = 1
    /\ \A i, j \in DOMAIN r.urls : r.urls[i].user = r.urls[j].user

Free == "free"

VARIABLES
  db,      \* the map
  mux,     \* who holds the mutex
  pc,      \* pc[t]: where the call of t is
  req,     \* req[t]: its arguments
  resp,    \* resp[t]: what it returned, [err, val]; before, what it counted so far
  next,    \* next[t]: the element of the batch it writes next
  fatal,   \* the runtime aborted the process
  base,    \* history: the map when the mutex was last taken
  seen     \* history: seen[t], the maps a reader could see since t was called

vars == <<db, mux, pc, req, resp, next, fatal, base, seen>>

ThreadPC == {"idle", "lock", "locked", "write", "iterate", "done"}
NoRequest == [kind |-> "none", urls |-> <<>>, overwrite |-> FALSE]

\* The map as those see it who wait for the mutex.
Committed == IF mux = Free THEN db ELSE base

Init ==
  /\ db = EmptyMap /\ base = EmptyMap
  /\ mux = Free /\ fatal = FALSE
  /\ pc = [t \in Threads |-> "idle"]
  /\ req = [t \in Threads |-> NoRequest]
  /\ resp = [t \in Threads |-> [err |-> "none", val |-> 0]]
  /\ next = [t \in Threads |-> 0]
  /\ seen = [t \in Threads |-> {}]

Call(t, r) ==
  /\ ~fatal /\ pc[t] = "idle"
  /\ req' = [req EXCEPT ![t] = r]
  /\ pc' = [pc EXCEPT ![t] = IF r.kind = "stats" THEN "iterate" ELSE "lock"]
  /\ seen' = [seen EXCEPT ![t] = {Committed}]
  /\ resp' = IF r.kind # "stats" THEN resp
             ELSE [resp EXCEPT ![t].val = [must |-> DOMAIN db, visited |-> {}, users |-> {}]]
  /\ UNCHANGED <<db, mux, next, fatal, base>>

Lock(t) ==
  /\ ~fatal /\ pc[t] = "lock" /\ mux = Free
  /\ mux' = t
  /\ base' = db
  /\ next' = [next EXCEPT ![t] = 1]
  /\ pc' = [pc EXCEPT ![t] = "locked"]
  /\ UNCHANGED <<db, req, resp, fatal, seen>>

\* The deferred unlock of a call that leaves map behind, and what it returns.
Return(t, err, val, map) ==
  /\ mux' = Free
  /\ pc' = [pc EXCEPT ![t] = "done"]
  /\ resp' = [resp EXCEPT ![t] = [err |-> err, val |-> val]]
  /\ seen' = [s \in Threads |-> IF pc[s] \in {"idle", "done"} THEN seen[s]
                                ELSE seen[s] \cup {map}]

\* A write while some Stats walks over the map may end the process.
Write(map) ==
  /\ db' = map
  /\ \/ fatal' = FALSE
     \/ fatal' = (\E s \in Threads : pc[s] = "iterate")

\* Mutant: a taken path is overwritten.
StoreOver(t) ==
  /\ ~fatal /\ pc[t] = "locked" /\ req[t].kind = "store"
  /\ Write(PutAll(db, req[t].urls))
  /\ Return(t, "ok", 0, db')
  /\ UNCHANGED <<req, next, base>>

Store(t) ==
  LET url == req[t].urls[1] IN
  /\ ~fatal /\ pc[t] = "locked" /\ req[t].kind = "store"
  /\ \/ /\ Taken(db, url.short) /\ ~req[t].overwrite
        /\ UNCHANGED <<db, fatal>>
        /\ Return(t, "already exists", 0, db)
     \/ /\ Taken(db, url.short) => req[t].overwrite
        /\ Write(PutAll(db, <<url>>))
        /\ Return(t, "ok", 0, db')
  /\ UNCHANGED <<req, next, base>>

\* The first loop of StoreBatch: one taken path fails the batch.
BatchCheck(t) ==
  LET urls == req[t].urls IN
  /\ ~fatal /\ pc[t] = "locked" /\ req[t].kind = "batch"
  /\ \/ /\ \E i \in DOMAIN urls : Taken(db, urls[i].short)
        /\ Return(t, "already exists", 0, db)
     \/ /\ \A i \in DOMAIN urls : ~Taken(db, urls[i].short)
        /\ pc' = [pc EXCEPT ![t] = "write"]
        /\ UNCHANGED <<mux, resp, seen>>
  /\ UNCHANGED <<db, fatal, req, next, base>>

DeleteStart(t) ==
  /\ ~fatal /\ pc[t] = "locked" /\ req[t].kind = "delete"
  /\ pc' = [pc EXCEPT ![t] = "write"]
  /\ UNCHANGED <<db, mux, req, resp, next, fatal, base, seen>>

\* Mutant: the write loop, too, fails at a path that is taken.
WriteNextChecked(t) ==
  LET url == req[t].urls[next[t]] IN
  /\ ~fatal /\ pc[t] = "write" /\ next[t] <= Len(req[t].urls)
  /\ \/ /\ req[t].kind = "batch" /\ Taken(db, url.short)
        /\ Return(t, "already exists", 0, db)
        /\ UNCHANGED <<db, fatal, next>>
     \/ /\ ~(req[t].kind = "batch" /\ Taken(db, url.short))
        /\ Write(IF req[t].kind = "batch" THEN PutAll(db, <<url>>) ELSE MarkDeleted(db, <<url>>))
        /\ next' = [next EXCEPT ![t] = @ + 1]
        /\ UNCHANGED <<mux, pc, resp, seen>>
  /\ UNCHANGED <<req, base>>

\* One turn of the loop that writes the records of StoreBatch or DeleteUserURLs.
WriteNext(t) ==
  LET url == req[t].urls[next[t]] IN
  /\ ~fatal /\ pc[t] = "write" /\ next[t] <= Len(req[t].urls)
  /\ \/ /\ req[t].kind = "batch"
        /\ Write(PutAll(db, <<url>>))
        /\ UNCHANGED resp
     \/ /\ req[t].kind = "delete" /\ Owned(db, url)
        /\ Write(MarkDeleted(db, <<url>>))
        /\ resp' = [resp EXCEPT ![t].val = @ + 1]
     \/ /\ req[t].kind = "delete" /\ ~Owned(db, url)
        /\ UNCHANGED <<db, fatal, resp>>
  /\ next' = [next EXCEPT ![t] = @ + 1]
  /\ UNCHANGED <<mux, pc, req, base, seen>>

WriteDone(t) ==
  /\ ~fatal /\ pc[t] = "write" /\ next[t] > Len(req[t].urls)
  /\ Return(t, "ok", resp[t].val, db)
  /\ UNCHANGED <<db, req, next, fatal, base>>

Get(t) ==
  /\ ~fatal /\ pc[t] = "locked" /\ req[t].kind = "get"
  /\ Return(t, "ok", GetOrig(db, req[t].urls[1].short), db)
  /\ UNCHANGED <<db, req, next, fatal, base>>

ListUserURLs(t) ==
  /\ ~fatal /\ pc[t] = "locked" /\ req[t].kind = "list"
  /\ Return(t, "ok", UserShorts(db, req[t].urls[1].user), db)
  /\ UNCHANGED <<db, req, next, fatal, base>>

\* Mutant: the owners of deleted records count.
StatsVisitAll(t) ==
  /\ ~fatal /\ pc[t] = "iterate"
  /\ \E k \in DOMAIN db \ resp[t].val.visited :
       resp' = [resp EXCEPT ![t].val.visited = @ \cup {k}, ![t].val.users = @ \cup {db[k].user}]
  /\ UNCHANGED <<db, mux, pc, req, next, fatal, base, seen>>

\* The walk of Stats meets a record, as it is now.
StatsVisit(t) ==
  /\ ~fatal /\ pc[t] = "iterate"
  /\ \E k \in DOMAIN db \ resp[t].val.visited :
       resp' = [resp EXCEPT ![t].val.visited = @ \cup {k},
                            ![t].val.users = @ \cup {db[j].user : j \in {i \in {k} : ~db[i].deleted}}]
  /\ UNCHANGED <<db, mux, pc, req, next, fatal, base, seen>>

\* Its end: every record that was there from the start was met, one that came
\* since was or was not. The size of the map is read last.
Stats(t) ==
  LET walk == resp[t].val IN
  /\ ~fatal /\ pc[t] = "iterate"
  /\ walk.must \subseteq walk.visited
  /\ pc' = [pc EXCEPT ![t] = "done"]
  /\ resp' = [resp EXCEPT ![t] = [err |-> "ok",
                val |-> [urls |-> Cardinality(DOMAIN db), users |-> Cardinality(walk.users)]]]
  /\ UNCHANGED <<db, mux, req, next, fatal, base, seen>>

\* Mutant: the copy is made without the lock.
DumpUnlocked(t) ==
  /\ ~fatal /\ pc[t] = "lock" /\ req[t].kind = "dump"
  /\ pc' = [pc EXCEPT ![t] = "done"]
  /\ resp' = [resp EXCEPT ![t] = [err |-> "ok", val |-> db]]
  /\ UNCHANGED <<db, mux, req, next, fatal, base, seen>>

\* Dump copies the map for the file store.
Dump(t) ==
  /\ ~fatal /\ pc[t] = "locked" /\ req[t].kind = "dump"
  /\ Return(t, "ok", db, db)
  /\ UNCHANGED <<db, req, next, fatal, base>>

Step(t) ==
  \/ \E r \in Requests : Call(t, r)
  \/ Lock(t) \/ Store(t) \/ BatchCheck(t) \/ DeleteStart(t)
  \/ WriteNext(t) \/ WriteDone(t) \/ Get(t) \/ ListUserURLs(t) \/ Dump(t)
  \/ StatsVisit(t) \/ Stats(t)

Next == \E t \in Threads : Step(t)

Spec == Init /\ [][Next]_vars

-----------------------------------------------------------------------------

Records == [orig : Origs, user : Users, deleted : BOOLEAN]

\* The types of the store and of the calls.
TypeOK ==
  /\ DOMAIN db \subseteq Keys /\ db \in [DOMAIN db -> Records]
  /\ mux \in Threads \cup {Free} /\ fatal \in BOOLEAN
  /\ pc \in [Threads -> ThreadPC]
  /\ req \in [Threads -> Requests \cup {NoRequest}] /\ next \in [Threads -> Nat]
  /\ DOMAIN resp = Threads /\ DOMAIN seen = Threads

\* A get, a list or a dump that ran beside any writer returns what the map held for
\* outsiders at one moment of the call: never the middle of a batch.
ReadsOneMap ==
  \A t \in Threads :
    pc[t] = "done" /\ req[t].kind \in {"get", "list", "dump"} =>
      \E m \in seen[t] :
        resp[t].val = CASE req[t].kind = "get" -> GetOrig(m, req[t].urls[1].short)
                        [] req[t].kind = "list" -> UserShorts(m, req[t].urls[1].user)
                        [] req[t].kind = "dump" -> m

\* Of the calls that were told they stored the same path without overwrite only
\* one holds it, unless a delete was called for it: two live winners mean that
\* somebody's short url leads to somebody else's page.
OneLiveWinner ==
  \A s, t \in Threads :
    /\ s # t
    /\ \A x \in {s, t} : /\ pc[x] = "done" /\ resp[x].err = "ok"
                         /\ req[x].kind \in {"store", "batch"} /\ ~req[x].overwrite
    => \A k \in Shorts(req[s].urls) \cap Shorts(req[t].urls) :
         \E d \in Threads : /\ req[d].kind = "delete" /\ k \in Shorts(req[d].urls)
                            /\ pc[d] \in {"write", "done"}

\* simple.go:17, "All map operations are thread-safe": the statistics, too, are those of
\* the map as it was for outsiders at one moment of the call.
StatsOfOneMap ==
  \A t \in Threads :
    pc[t] = "done" /\ req[t].kind = "stats" => \E m \in seen[t] : resp[t].val = StatsOf(m)

\* The owners of live records.
LiveUsers(map) == {map[k].user : k \in {j \in DOMAIN map : ~map[j].deleted}}

\* The statistics, taken without the mutex, are off by what changed meanwhile and by
\* no more: a user who had the same live record during the whole walk is
\* counted, one who had none at any time is not.
StatsBetween ==
  [][\A t \in Threads :
       (req[t].kind = "stats" /\ pc[t] = "iterate" /\ pc'[t] = "done") =>
         LET maps == seen[t] \cup {db}
             kept == {k \in DOMAIN db : \A m \in maps :
                        k \in DOMAIN m /\ ~m[k].deleted /\ m[k].user = db[k].user}
         IN  resp'[t].val.users \in Cardinality({db[k].user : k \in kept})
                                    ..Cardinality(UNION {LiveUsers(m) : m \in maps})]_vars

\* A call that fails leaves the map as it found it, whatever it had to check.
FailureChangesNothing ==
  [][\A t \in Threads :
       (pc[t] # "done" /\ pc'[t] = "done" /\ resp'[t].err = "already exists")
         => db' = base]_vars

\* Seen between critical sections, the store is an abstract url store. Stores
\* with overwrite replace live records and are outside of that contract.
AbstractStore == INSTANCE UrlStore WITH urls <- Committed

UrlStoreSpec == AbstractStore!Spec
=============================================================================
