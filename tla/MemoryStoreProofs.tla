-------------------------- MODULE MemoryStoreProofs --------------------------
(***************************************************************************)
(* Proofs about MemoryStore, for any goroutines, urls and requests: what   *)
(* readers see, what a failing call leaves, that a path has one winner,    *)
(* and that the store implements UrlStore when nobody overwrites. The      *)
(* inductive invariant ties the map to the mutex: behind it, the map is    *)
(* the one that outsiders see, changed by what its holder has done so far. *)
(***************************************************************************)
EXTENDS MemoryStore, FiniteSetTheorems, TLAPS

Urls(t) == req[t].urls

\* Who is in a critical section holds the mutex, and has a request of that kind.
LockInv ==
  /\ \A t \in Threads : pc[t] \in {"locked", "write"} <=> mux = t
  /\ \A t \in Threads : pc[t] # "idle" => req[t] \in Requests
  /\ \A t \in Threads : pc[t] = "write" => req[t].kind \in {"batch", "delete"}
  /\ \A t \in Threads : pc[t] = "write" => next[t] >= 1
  /\ \A t \in Threads : pc[t] = "iterate" => req[t].kind = "stats"
  /\ DOMAIN base \subseteq Keys /\ base \in [DOMAIN base -> Records]
  /\ \A t \in Threads : pc[t] = "locked" => db = base /\ next[t] = 1

\* A path that a batch has written holds a record of the batch; it was free.
Written(t) == {Urls(t)[i].short : i \in {j \in DOMAIN Urls(t) : j < next[t]}}

HasWritten(t) ==
  /\ \A i \in DOMAIN Urls(t) : ~Taken(base, Urls(t)[i].short)
  /\ DOMAIN db = DOMAIN base \cup Written(t)
  /\ \A k \in DOMAIN db \ Written(t) : db[k] = base[k]
  /\ \A k \in Written(t) : /\ ~db[k].deleted
                           /\ \E i \in DOMAIN Urls(t) : db[k].user = Urls(t)[i].user

BatchInv == \A t \in Threads : pc[t] = "write" /\ req[t].kind = "batch" => HasWritten(t)

\* A deletion has marked records, among those it names, and nothing else.
DeleteInv ==
  \A t \in Threads : pc[t] = "write" /\ req[t].kind = "delete" =>
    /\ DOMAIN db = DOMAIN base
    /\ \A k \in DOMAIN db : \/ db[k] = base[k]
                            \/ /\ k \in Shorts(Urls(t))
                               /\ db[k] = [base[k] EXCEPT !.deleted = TRUE]

IsDeletion(d, k) ==
  req[d].kind = "delete" /\ k \in Shorts(Urls(d)) /\ pc[d] \in {"write", "done"}

Won(t) == pc[t] = "done" /\ resp[t].err = "ok" /\ req[t].kind \in {"store", "batch"}

\* The paths of a call that succeeded are held, or a deletion was called for them.
HeldInv ==
  \A t \in Threads : Won(t) => \A k \in Shorts(Urls(t)) :
    Taken(Committed, k) \/ \E d \in Threads : IsDeletion(d, k)

IInv == TypeOK /\ LockInv /\ BatchInv /\ DeleteInv /\ HeldInv /\ OneLiveWinner

(***************************************************************************)
(* What one write does to a map.                                           *)
(***************************************************************************)

Url == [short : Keys, orig : Origs, user : Users]

\* One record is put under its path.
LEMMA PutOne ==
  ASSUME NEW map, NEW url \in Url
  PROVE  PutAll(map, <<url>>) =
           [k \in DOMAIN map \cup {url.short} |-> IF k = url.short THEN Record(url) ELSE map[k]]
<1> DEFINE urls == <<url>>
<1>1. Shorts(urls) = {url.short}
  BY DEF Shorts
<1>2. ASSUME NEW k \in Shorts(urls)
      PROVE  (CHOOSE i \in DOMAIN urls :
                 /\ urls[i].short = k
                 /\ \A j \in DOMAIN urls : urls[j].short = k => j <= i) = 1
  BY <1>1
<1> QED  BY <1>1, <1>2 DEF PutAll

\* The record of one deletion is marked, if its user has it.
LEMMA MarkOne ==
  ASSUME NEW map, NEW url \in Url
  PROVE  MarkDeleted(map, <<url>>) =
           [k \in DOMAIN map |-> IF k = url.short /\ Owned(map, url)
                                 THEN [map[k] EXCEPT !.deleted = TRUE] ELSE map[k]]
<1> DEFINE urls == <<url>>
<1>1. ASSUME NEW k \in DOMAIN map
      PROVE  (\E i \in DOMAIN urls : urls[i].short = k /\ Owned(map, urls[i]))
               <=> k = url.short /\ Owned(map, url)
  OBVIOUS
<1> QED  BY <1>1 DEF MarkDeleted

\* Elements of a request are urls, and a store has one.
LEMMA UrlsAreUrls ==
  ASSUME LockInv, NEW t \in Threads, pc[t] # "idle"
  PROVE  /\ Urls(t) \in Seq(Url)
         /\ \A i \in DOMAIN Urls(t) : Urls(t)[i] \in Url
         /\ req[t].kind = "store" => Urls(t) = <<Urls(t)[1]>> /\ 1 \in DOMAIN Urls(t)
         /\ \A i, j \in DOMAIN Urls(t) : Urls(t)[i].user = Urls(t)[j].user
<1>1. req[t] \in Requests
  BY DEF LockInv
<1>2. Urls(t) \in Seq(Url)
  BY <1>1, RequestsAssumption DEF Urls, Url
<1> QED  BY <1>1, <1>2, RequestsAssumption DEF Urls

LEMMA InitIInv == Init => IInv
<1> SUFFICES ASSUME Init PROVE IInv
  OBVIOUS
<1>1. TypeOK
  BY DEF Init, TypeOK, EmptyMap, Free, ThreadPC, NoRequest
<1>2. LockInv
  BY ThreadsAssumption DEF Init, LockInv, EmptyMap, Free
<1> QED  BY <1>1, <1>2 DEF Init, IInv, BatchInv, DeleteInv, HeldInv, Won, OneLiveWinner

(***************************************************************************)
(* Winners.                                                                *)
(***************************************************************************)

\* Thread t takes a step that is not its first return, and nobody else does.
OthersStay(t) ==
  /\ pc[t] # "done"
  /\ \A s \in Threads \ {t} : pc'[s] = pc[s] /\ req'[s] = req[s] /\ resp'[s] = resp[s]
  /\ pc[t] # "idle" => req'[t] = req[t]
  /\ pc[t] = "write" => pc'[t] \in {"write", "done"}

LEMMA DeletionsStay ==
  ASSUME NEW t \in Threads, OthersStay(t), NEW d \in Threads, NEW k, IsDeletion(d, k)
  PROVE  IsDeletion(d, k)'
<1>1. CASE d = t
  BY <1>1 DEF OthersStay, IsDeletion, Urls
<1>2. CASE d # t
  BY <1>2 DEF OthersStay, IsDeletion, Urls
<1> QED  BY <1>1, <1>2

\* A step that wins nothing, and frees no path but for a deletion.
LEMMA KeepsWinners ==
  ASSUME NEW t \in Threads, OthersStay(t), HeldInv, OneLiveWinner, ~Won(t)',
         \A k : Taken(Committed, k) => Taken(Committed, k)' \/ \E d \in Threads : IsDeletion(d, k)'
  PROVE  HeldInv' /\ OneLiveWinner'
<1>1. \A s \in Threads : Won(s)' => s # t /\ Won(s) /\ Urls(s)' = Urls(s) /\ req'[s] = req[s]
  BY DEF Won, OthersStay, Urls
<1>2. HeldInv'
  BY <1>1, DeletionsStay DEF HeldInv
<1>3. OneLiveWinner'
  <2> SUFFICES ASSUME NEW r \in Threads, NEW s \in Threads, r # s, Won(r)', Won(s)',
                      ~req'[r].overwrite, ~req'[s].overwrite,
                      NEW k \in (Shorts(Urls(r)) \cap Shorts(Urls(s)))'
               PROVE  \E d \in Threads : IsDeletion(d, k)'
    BY DEF OneLiveWinner, Won, IsDeletion, Urls
  <2>1. \E d \in Threads : IsDeletion(d, k)
    BY <1>1 DEF OneLiveWinner, Won, IsDeletion, Urls
  <2> QED  BY <2>1, DeletionsStay
<1> QED  BY <1>2, <1>3

\* A call that wins paths which were free, or which it may overwrite.
LEMMA NewWinner ==
  ASSUME NEW t \in Threads, OthersStay(t), HeldInv, OneLiveWinner, pc[t] # "idle",
         \A k : Taken(Committed, k) => Taken(Committed, k)',
         \A k \in Shorts(Urls(t)) : Taken(Committed, k)',
         ~req[t].overwrite => \A k \in Shorts(Urls(t)) : ~Taken(Committed, k)
  PROVE  HeldInv' /\ OneLiveWinner'
<1>1. \A s \in Threads : Won(s)' /\ s # t => Won(s) /\ Urls(s)' = Urls(s) /\ req'[s] = req[s]
  BY DEF Won, OthersStay, Urls
<1>2. Urls(t)' = Urls(t) /\ req'[t] = req[t]
  BY DEF OthersStay, Urls
<1>3. HeldInv'
  BY <1>1, <1>2, DeletionsStay DEF HeldInv
<1>4. OneLiveWinner'
  <2> SUFFICES ASSUME NEW r \in Threads, NEW s \in Threads, r # s, Won(r)', Won(s)',
                      ~req'[r].overwrite, ~req'[s].overwrite,
                      NEW k \in (Shorts(Urls(r)) \cap Shorts(Urls(s)))'
               PROVE  \E d \in Threads : IsDeletion(d, k)'
    BY DEF OneLiveWinner, Won, IsDeletion, Urls
  <2>1. CASE r # t /\ s # t
    <3>1. \E d \in Threads : IsDeletion(d, k)
      BY <1>1, <2>1 DEF OneLiveWinner, Won, IsDeletion, Urls
    <3> QED  BY <3>1, DeletionsStay
  <2>2. ASSUME NEW w \in Threads, w # t, w \in {r, s}, t \in {r, s}
        PROVE  \E d \in Threads : IsDeletion(d, k)'
    <3>1. Won(w) /\ k \in Shorts(Urls(w)) /\ k \in Shorts(Urls(t)) /\ ~req[t].overwrite
      BY <1>1, <1>2, <2>2
    <3>2. \E d \in Threads : IsDeletion(d, k)
      BY <3>1 DEF HeldInv
    <3> QED  BY <3>2, DeletionsStay
  <2> QED  BY <2>1, <2>2
<1> QED  BY <1>3, <1>4

(***************************************************************************)
(* The steps.                                                              *)
(***************************************************************************)

\* A step outside of the sections that write.
LEMMA QuietSections ==
  ASSUME BatchInv, DeleteInv, UNCHANGED <<db, base>>,
         \A s \in Threads : pc'[s] = "write" =>
           pc[s] = "write" /\ req'[s] = req[s] /\ next'[s] = next[s]
  PROVE  BatchInv' /\ DeleteInv'
<1>1. BatchInv'
  <2> SUFFICES ASSUME NEW s \in Threads, pc'[s] = "write", req'[s].kind = "batch"
               PROVE  HasWritten(s)'
    BY DEF BatchInv
  <2>1. HasWritten(s)
    BY DEF BatchInv
  <2> QED  BY <2>1 DEF HasWritten, Written, Urls
<1>2. DeleteInv'
  BY DEF DeleteInv, Urls
<1> QED  BY <1>1, <1>2

LEMMA CallStep ==
  ASSUME NEW t \in Threads, NEW r \in Requests, IInv, Call(t, r)
  PROVE  IInv'
<1> USE DEF IInv
<1>1. TypeOK'
  BY DEF Call, TypeOK, ThreadPC
<1>2. LockInv'
  BY DEF Call, TypeOK, LockInv
<1>3. BatchInv' /\ DeleteInv'
  BY QuietSections DEF Call, TypeOK
<1>4. HeldInv' /\ OneLiveWinner'
  <2>1. OthersStay(t) /\ ~Won(t)'
    BY DEF Call, OthersStay, TypeOK, Won
  <2>2. UNCHANGED Committed
    BY DEF Call, Committed
  <2> QED  BY <2>1, <2>2, KeepsWinners
<1> QED  BY <1>1, <1>2, <1>3, <1>4

LEMMA LockStep ==
  ASSUME NEW t \in Threads, IInv, Lock(t)
  PROVE  IInv'
<1> USE DEF IInv
<1>0. \A s \in Threads : pc[s] \notin {"locked", "write"}
  BY ThreadsAssumption DEF Lock, LockInv, Free
<1>1. TypeOK'
  BY DEF Lock, TypeOK, ThreadPC
<1>2. LockInv'
  BY <1>0 DEF Lock, TypeOK, LockInv
<1>3. BatchInv' /\ DeleteInv'
  BY <1>0 DEF Lock, TypeOK, BatchInv, DeleteInv
<1>4. HeldInv' /\ OneLiveWinner'
  <2>1. OthersStay(t) /\ ~Won(t)'
    BY DEF Lock, OthersStay, TypeOK, Won
  <2>2. UNCHANGED Committed
    BY ThreadsAssumption DEF Lock, Committed, Free
  <2> QED  BY <2>1, <2>2, KeepsWinners
<1> QED  BY <1>1, <1>2, <1>3, <1>4

\* In a critical section, the map of outsiders is base.
LEMMA Inside ==
  ASSUME LockInv, NEW t \in Threads, pc[t] \in {"locked", "write"}
  PROVE  /\ mux = t /\ Committed = base
         /\ \A s \in Threads \ {t} : pc[s] \notin {"locked", "write"}
         /\ pc[t] = "locked" => db = base
BY ThreadsAssumption DEF LockInv, Committed, Free

\* What a returning call says.
LEMMA ReturnSays ==
  ASSUME TypeOK, NEW t \in Threads, NEW err, NEW val, NEW map, Return(t, err, val, map)
  PROVE  resp'[t].err = err
<1>1. resp'[t] = [err |-> err, val |-> val]
  BY DEF Return, TypeOK
<1> QED  BY <1>1

\* The parts of the invariant that hold after any return of a call.
LEMMA ReturnStep ==
  ASSUME NEW t \in Threads, NEW err, NEW val, NEW map, IInv, pc[t] \in {"locked", "write"},
         Return(t, err, val, map), UNCHANGED <<req, next, base>>, fatal' \in BOOLEAN,
         DOMAIN db' \subseteq Keys, db' \in [DOMAIN db' -> Records]
  PROVE  /\ TypeOK' /\ LockInv' /\ BatchInv' /\ DeleteInv'
         /\ OthersStay(t) /\ Committed' = db'
         /\ pc'[t] = "done" /\ resp'[t].err = err
<1> USE DEF IInv
<1>1. TypeOK'
  BY DEF Return, TypeOK, ThreadPC, Free
<1>2. LockInv'
  BY Inside, ThreadsAssumption DEF Return, TypeOK, LockInv, Free
<1>3. BatchInv' /\ DeleteInv'
  <2>1. \A s \in Threads : pc'[s] # "write"
    BY Inside DEF Return, TypeOK
  <2> QED  BY <2>1 DEF BatchInv, DeleteInv
<1>4. OthersStay(t) /\ Committed' = db'
  BY DEF Return, OthersStay, TypeOK, Committed
<1>5. pc'[t] = "done" /\ resp'[t].err = err
  BY ReturnSays DEF Return, TypeOK
<1> QED  BY <1>1, <1>2, <1>3, <1>4, <1>5

LEMMA ReadStep ==
  ASSUME NEW t \in Threads, IInv, Get(t) \/ ListUserURLs(t) \/ Dump(t)
  PROVE  IInv'
<1>1. PICK val : /\ pc[t] = "locked" /\ req[t].kind \notin {"store", "batch"}
                 /\ Return(t, "ok", val, db) /\ UNCHANGED <<db, req, next, fatal, base>>
  BY DEF Get, ListUserURLs, Dump
<1>2. /\ TypeOK' /\ LockInv' /\ BatchInv' /\ DeleteInv'
      /\ OthersStay(t) /\ Committed' = db'
  BY <1>1, ReturnStep DEF IInv, TypeOK
<1>3. ~Won(t)' /\ Committed' = Committed
  BY <1>1, <1>2, Inside DEF IInv, Won
<1> QED  BY <1>2, <1>3, KeepsWinners DEF IInv

LEMMA StatsStep ==
  ASSUME NEW t \in Threads, IInv, StatsVisit(t) \/ Stats(t)
  PROVE  IInv'
<1> USE DEF IInv
<1>1. /\ UNCHANGED <<db, mux, req, next, fatal, base, seen>>
      /\ pc[t] = "iterate" /\ pc' \in {pc, [pc EXCEPT ![t] = "done"]}
      /\ DOMAIN resp' = DOMAIN resp /\ \A s \in Threads \ {t} : resp'[s] = resp[s]
  <2>1. CASE StatsVisit(t)
    <3>1. PICK k \in DOMAIN db :
            resp' = [resp EXCEPT ![t].val.visited = @ \cup {k},
                                 ![t].val.users = @ \cup {db[j].user : j \in {i \in {k} : ~db[i].deleted}}]
      BY <2>1 DEF StatsVisit
    <3>2. DOMAIN resp' = DOMAIN resp /\ \A s \in Threads \ {t} : resp'[s] = resp[s]
      BY <3>1 DEF TypeOK
    <3> QED  BY <2>1, <3>2 DEF StatsVisit
  <2>2. CASE Stats(t)
    BY <2>2 DEF Stats, TypeOK
  <2> QED  BY <2>1, <2>2
<1>2. TypeOK'
  BY <1>1 DEF TypeOK, ThreadPC
<1>3. LockInv'
  BY <1>1 DEF TypeOK, LockInv
<1>4. BatchInv' /\ DeleteInv'
  BY <1>1, QuietSections DEF TypeOK
<1>5. OthersStay(t) /\ UNCHANGED Committed
  BY <1>1 DEF OthersStay, TypeOK, Committed
<1>6. ~Won(t)'
  BY <1>1 DEF Won, LockInv
<1> QED  BY <1>2, <1>3, <1>4, <1>5, <1>6, KeepsWinners

\* The step that starts to write: nothing is written yet.
LEMMA StartStep ==
  ASSUME NEW t \in Threads, IInv, pc[t] = "locked", req[t].kind \in {"batch", "delete"},
         pc' = [pc EXCEPT ![t] = "write"], UNCHANGED <<db, mux, req, resp, next, fatal, base, seen>>,
         req[t].kind = "batch" => \A i \in DOMAIN Urls(t) : ~Taken(db, Urls(t)[i].short)
  PROVE  IInv'
<1> USE DEF IInv
<1>1. TypeOK'
  BY DEF TypeOK, ThreadPC
<1>2. LockInv'
  BY DEF TypeOK, LockInv
<1>3. db = base /\ \A s \in Threads \ {t} : pc'[s] # "write"
  BY Inside DEF TypeOK
<1>4. BatchInv'
  <2>1. Written(t)' = {}
    BY UrlsAreUrls DEF Written, Urls, LockInv
  <2> QED  BY <1>3, <2>1 DEF BatchInv, HasWritten, Urls
<1>5. DeleteInv'
  BY <1>3 DEF DeleteInv, Urls
<1>6. OthersStay(t) /\ ~Won(t)' /\ UNCHANGED Committed
  BY DEF OthersStay, TypeOK, Won, Committed
<1> QED  BY <1>1, <1>2, <1>4, <1>5, <1>6, KeepsWinners

\* A map with one more live record is a map.
LEMMA PutType ==
  ASSUME NEW map, DOMAIN map \subseteq Keys, map \in [DOMAIN map -> Records], NEW url \in Url,
         NEW new, new = PutAll(map, <<url>>)
  PROVE  /\ DOMAIN new = DOMAIN map \cup {url.short} /\ DOMAIN new \subseteq Keys
         /\ new \in [DOMAIN new -> Records]
         /\ new[url.short] = Record(url) /\ ~new[url.short].deleted
         /\ new[url.short].user = url.user
         /\ \A k \in DOMAIN map : k # url.short => new[k] = map[k]
<1>1. new = [k \in DOMAIN map \cup {url.short} |->
               IF k = url.short THEN Record(url) ELSE map[k]]
  BY PutOne
<1>2. Record(url) \in Records /\ ~Record(url).deleted /\ Record(url).user = url.user
  BY DEF Url, Record, Records
<1> QED  BY <1>1, <1>2 DEF Url

\* And so is one with a mark.
LEMMA MarkType ==
  ASSUME NEW map, DOMAIN map \subseteq Keys, map \in [DOMAIN map -> Records], NEW url \in Url,
         NEW new, new = MarkDeleted(map, <<url>>)
  PROVE  /\ DOMAIN new = DOMAIN map /\ new \in [DOMAIN new -> Records]
         /\ \A k \in DOMAIN map : \/ new[k] = map[k]
                                  \/ k = url.short /\ new[k] = [map[k] EXCEPT !.deleted = TRUE]
<1>1. new = [k \in DOMAIN map |-> IF k = url.short /\ Owned(map, url)
                                  THEN [map[k] EXCEPT !.deleted = TRUE] ELSE map[k]]
  BY MarkOne
<1>2. \A k \in DOMAIN map : [map[k] EXCEPT !.deleted = TRUE] \in Records
  BY DEF Records
<1> QED  BY <1>1, <1>2

LEMMA StoreStep ==
  ASSUME NEW t \in Threads, IInv, Store(t)
  PROVE  IInv'
<1> USE DEF IInv
<1> DEFINE url == req[t].urls[1]
<1>1. /\ pc[t] = "locked" /\ req[t].kind = "store" /\ Committed = base /\ db = base
      /\ UNCHANGED <<req, next, base>>
  BY Inside DEF Store
<1>2. url \in Url /\ Urls(t) = <<url>>
  BY <1>1, UrlsAreUrls DEF Urls
<1>3. CASE /\ Taken(db, url.short) /\ ~req[t].overwrite /\ UNCHANGED <<db, fatal>>
           /\ Return(t, "already exists", 0, db)
  <2>1. /\ TypeOK' /\ LockInv' /\ BatchInv' /\ DeleteInv'
        /\ OthersStay(t) /\ Committed' = db' /\ ~Won(t)'
    <3>1. /\ DOMAIN db' \subseteq Keys /\ db' \in [DOMAIN db' -> Records]
          /\ fatal' \in BOOLEAN
      BY <1>3 DEF TypeOK
    <3>2. /\ TypeOK' /\ LockInv' /\ BatchInv' /\ DeleteInv' /\ OthersStay(t)
          /\ Committed' = db' /\ resp'[t].err = "already exists"
      BY <1>1, <1>3, <3>1, ReturnStep
    <3> QED  BY <3>2 DEF Won
  <2> QED  BY <1>1, <1>3, <2>1, KeepsWinners
<1>4. CASE /\ Taken(db, url.short) => req[t].overwrite
           /\ Write(PutAll(db, <<url>>)) /\ Return(t, "ok", 0, db')
  <2>1. /\ DOMAIN db' = DOMAIN db \cup {url.short} /\ DOMAIN db' \subseteq Keys
        /\ db' \in [DOMAIN db' -> Records] /\ ~db'[url.short].deleted
        /\ \A k \in DOMAIN db : k # url.short => db'[k] = db[k]
    <3>1. DOMAIN db \subseteq Keys /\ db \in [DOMAIN db -> Records]
      BY DEF TypeOK
    <3>2. db' = PutAll(db, <<url>>)
      BY <1>4 DEF Write
    <3> HIDE DEF url
    <3> QED  BY <1>2, <3>1, <3>2, PutType
  <2>2. /\ TypeOK' /\ LockInv' /\ BatchInv' /\ DeleteInv'
        /\ OthersStay(t) /\ Committed' = db'
    <3>1. fatal' \in BOOLEAN
      BY <1>4 DEF Write
    <3> QED  BY <1>1, <1>4, <2>1, <3>1, ReturnStep
  <2>3. Shorts(Urls(t)) = {url.short}
    BY <1>2 DEF Shorts
  <2>4. /\ \A k : Taken(Committed, k) => Taken(Committed, k)'
        /\ \A k \in Shorts(Urls(t)) : Taken(Committed, k)'
        /\ ~req[t].overwrite => \A k \in Shorts(Urls(t)) : ~Taken(Committed, k)
    BY <1>1, <1>4, <2>1, <2>2, <2>3 DEF Taken
  <2> QED  BY <1>1, <2>2, <2>4, NewWinner
<1> QED  BY <1>3, <1>4 DEF Store

LEMMA BatchCheckStep ==
  ASSUME NEW t \in Threads, IInv, BatchCheck(t)
  PROVE  IInv'
<1> USE DEF IInv
<1>1. /\ pc[t] = "locked" /\ req[t].kind = "batch" /\ Committed = base /\ db = base
      /\ UNCHANGED <<db, fatal, req, next, base>>
  BY Inside DEF BatchCheck
<1>2. CASE Return(t, "already exists", 0, db)
  <2>1. /\ DOMAIN db' \subseteq Keys /\ db' \in [DOMAIN db' -> Records]
        /\ fatal' \in BOOLEAN
    BY <1>1 DEF TypeOK
  <2>2. /\ TypeOK' /\ LockInv' /\ BatchInv' /\ DeleteInv' /\ OthersStay(t)
        /\ Committed' = db' /\ resp'[t].err = "already exists"
    BY <1>1, <1>2, <2>1, ReturnStep
  <2>3. ~Won(t)'
    BY <2>2 DEF Won
  <2> QED  BY <1>1, <2>2, <2>3, KeepsWinners
<1>3. CASE /\ \A i \in DOMAIN Urls(t) : ~Taken(db, Urls(t)[i].short)
           /\ pc' = [pc EXCEPT ![t] = "write"] /\ UNCHANGED <<mux, resp, seen>>
  BY <1>1, <1>3, StartStep
<1> QED  BY <1>2, <1>3 DEF BatchCheck, Urls

\* One turn of a writing loop does not touch the mutex, nor what outsiders see.
LEMMA WriteNextStep ==
  ASSUME NEW t \in Threads, IInv, WriteNext(t)
  PROVE  IInv'
<1> USE DEF IInv
<1> DEFINE n == next[t]
           url == Urls(t)[n]
<1>1. /\ pc[t] = "write" /\ n \in DOMAIN Urls(t) /\ url \in Url /\ n \in Nat /\ n >= 1
      /\ next' = [next EXCEPT ![t] = n + 1] /\ UNCHANGED <<mux, pc, req, base, seen>>
      /\ Committed = base /\ Committed' = base
      /\ \A s \in Threads \ {t} : pc[s] # "write"
  <2>1. pc[t] = "write" /\ n <= Len(Urls(t)) /\ n \in Nat /\ n >= 1
    BY DEF WriteNext, TypeOK, LockInv, Urls
  <2>2. n \in DOMAIN Urls(t) /\ url \in Url
    BY <2>1, UrlsAreUrls
  <2>3. mux = t /\ Committed = base /\ \A s \in Threads \ {t} : pc[s] # "write"
    BY <2>1, Inside
  <2>4. Committed' = base
    BY <2>3, ThreadsAssumption DEF WriteNext, Committed, Free
  <2> QED  BY <2>1, <2>2, <2>3, <2>4 DEF WriteNext
<1>2. /\ DOMAIN resp' = DOMAIN resp /\ \A s \in Threads \ {t} : resp'[s] = resp[s]
      /\ fatal' \in BOOLEAN
  BY DEF WriteNext, Write, TypeOK
<1>3. OthersStay(t) /\ ~Won(t)'
  BY <1>1, <1>2 DEF OthersStay, Won
<1>4. HeldInv' /\ OneLiveWinner'
  BY <1>1, <1>3, KeepsWinners
<1>5. CASE req[t].kind = "batch"
  <2>1. db' = PutAll(db, <<url>>)
    BY <1>5 DEF WriteNext, Write, Urls
  <2>2. /\ DOMAIN db' = DOMAIN db \cup {url.short} /\ DOMAIN db' \subseteq Keys
        /\ db' \in [DOMAIN db' -> Records]
        /\ ~db'[url.short].deleted /\ db'[url.short].user = url.user
        /\ \A k \in DOMAIN db : k # url.short => db'[k] = db[k]
    <3>1. DOMAIN db \subseteq Keys /\ db \in [DOMAIN db -> Records]
      BY DEF TypeOK
    <3>2. url \in Url
      BY <1>1
    <3> HIDE DEF url
    <3> QED  BY <2>1, <3>1, <3>2, PutType
  <2>3. TypeOK' /\ LockInv'
    BY <1>1, <1>2, <2>2 DEF TypeOK, LockInv
  <2>4. Written(t)' = Written(t) \cup {url.short}
    <3>1. Urls(t)' = Urls(t) /\ next'[t] = n + 1
      BY <1>1 DEF Urls, TypeOK
    <3>2. DOMAIN Urls(t) \subseteq Nat
      BY <1>1, UrlsAreUrls
    <3>3. {j \in DOMAIN Urls(t) : j < n + 1} = {j \in DOMAIN Urls(t) : j < n} \cup {n}
      BY <1>1, <3>2
    <3> QED  BY <3>1, <3>3 DEF Written
  <2>5. HasWritten(t)'
    <3>1. HasWritten(t) /\ Urls(t)' = Urls(t) /\ base' = base
      BY <1>1, <1>5 DEF BatchInv, Urls
    <3>2. \A i \in DOMAIN Urls(t)' : ~Taken(base', Urls(t)'[i].short)
      BY <3>1 DEF HasWritten
    <3>3. /\ DOMAIN db' = DOMAIN base' \cup Written(t)'
          /\ \A k \in DOMAIN db' \ Written(t)' : db'[k] = base'[k]
      BY <2>2, <2>4, <3>1 DEF HasWritten
    <3>4. ASSUME NEW k \in Written(t)'
          PROVE  ~db'[k].deleted /\ \E i \in DOMAIN Urls(t)' : db'[k].user = Urls(t)'[i].user
      <4>1. CASE k = url.short
        BY <1>1, <2>2, <3>1, <4>1
      <4>2. CASE k # url.short
        BY <2>2, <2>4, <3>1, <4>2 DEF HasWritten
      <4> QED  BY <4>1, <4>2
    <3> QED  BY <3>2, <3>3, <3>4 DEF HasWritten, Taken
  <2>6. BatchInv' /\ DeleteInv'
    BY <1>1, <1>5, <2>5 DEF BatchInv, DeleteInv
  <2> QED  BY <1>4, <2>3, <2>6
<1>6. CASE req[t].kind = "delete"
  <2>1. \/ db' = MarkDeleted(db, <<url>>)
        \/ db' = db
    BY <1>6 DEF WriteNext, Write, Urls
  <2>2. /\ DOMAIN db' = DOMAIN db /\ db' \in [DOMAIN db' -> Records]
        /\ \A k \in DOMAIN db : \/ db'[k] = db[k]
                                \/ k = url.short /\ db'[k] = [db[k] EXCEPT !.deleted = TRUE]
    <3>1. DOMAIN db \subseteq Keys /\ db \in [DOMAIN db -> Records]
      BY DEF TypeOK
    <3>2. url \in Url
      BY <1>1
    <3> HIDE DEF url
    <3> QED  BY <2>1, <3>1, <3>2, MarkType
  <2>3. TypeOK' /\ LockInv'
    BY <1>1, <1>2, <2>2 DEF TypeOK, LockInv
  <2>4. url.short \in Shorts(Urls(t))
    BY <1>1 DEF Shorts
  <2>5. /\ DOMAIN db' = DOMAIN base
        /\ \A k \in DOMAIN db' : \/ db'[k] = base[k]
                                 \/ /\ k \in Shorts(Urls(t))
                                    /\ db'[k] = [base[k] EXCEPT !.deleted = TRUE]
    <3>1. /\ DOMAIN db = DOMAIN base
          /\ \A k \in DOMAIN db : \/ db[k] = base[k]
                                  \/ /\ k \in Shorts(Urls(t))
                                     /\ db[k] = [base[k] EXCEPT !.deleted = TRUE]
      BY <1>1, <1>6 DEF DeleteInv
    <3>2. \A k \in DOMAIN base :
            [[base[k] EXCEPT !.deleted = TRUE] EXCEPT !.deleted = TRUE] = [base[k] EXCEPT !.deleted = TRUE]
      BY DEF LockInv, Records
    <3> HIDE DEF url
    <3> QED  BY <2>2, <2>4, <3>1, <3>2
  <2>6. BatchInv' /\ DeleteInv'
    BY <1>1, <1>6, <2>5 DEF BatchInv, DeleteInv, Urls
  <2> QED  BY <1>4, <2>3, <2>6
<1> QED  BY <1>5, <1>6 DEF WriteNext

LEMMA WriteDoneStep ==
  ASSUME NEW t \in Threads, IInv, WriteDone(t)
  PROVE  IInv'
<1> USE DEF IInv
<1>1. /\ pc[t] = "write" /\ Committed = base /\ UNCHANGED <<db, fatal, req, next, base>>
      /\ Return(t, "ok", resp[t].val, db)
  BY Inside DEF WriteDone
<1>2. /\ TypeOK' /\ LockInv' /\ BatchInv' /\ DeleteInv' /\ OthersStay(t)
      /\ Committed' = db' /\ pc'[t] = "done"
  <2>1. /\ DOMAIN db' \subseteq Keys /\ db' \in [DOMAIN db' -> Records] /\ fatal' \in BOOLEAN
    BY <1>1 DEF TypeOK
  <2> QED  BY <1>1, <2>1, ReturnStep
<1>3. CASE req[t].kind = "batch"
  <2>1. Written(t) = Shorts(Urls(t))
    <3>1. Urls(t) \in Seq(Url) /\ next[t] \in Nat /\ next[t] > Len(Urls(t))
      BY <1>1, UrlsAreUrls DEF WriteDone, TypeOK, Urls
    <3> QED  BY <3>1 DEF Written, Shorts
  <2>2. HasWritten(t)
    BY <1>1, <1>3 DEF BatchInv
  <2>3. /\ \A k : Taken(Committed, k) => Taken(Committed, k)'
        /\ \A k \in Shorts(Urls(t)) : Taken(Committed, k)'
    BY <1>1, <1>2, <2>1, <2>2 DEF HasWritten, Taken
  <2>4. \A k \in Shorts(Urls(t)) : ~Taken(Committed, k)
    BY <1>1, <2>2 DEF HasWritten, Shorts
  <2> QED  BY <1>1, <1>2, <2>3, <2>4, NewWinner
<1>4. CASE req[t].kind = "delete"
  <2>1. ~Won(t)' /\ req'[t] = req[t] /\ Urls(t)' = Urls(t)
    BY <1>1, <1>4 DEF Won, Urls
  <2>2. ASSUME NEW k, Taken(Committed, k)
        PROVE  Taken(Committed, k)' \/ \E d \in Threads : IsDeletion(d, k)'
    <3>1. k \in DOMAIN db /\ (db[k] = base[k] \/ k \in Shorts(Urls(t)))
      BY <1>1, <1>4, <2>2 DEF DeleteInv, Taken
    <3>2. CASE db[k] = base[k]
      BY <1>1, <1>2, <2>2, <3>1, <3>2 DEF Taken
    <3>3. CASE k \in Shorts(Urls(t))
      BY <1>2, <1>4, <2>1, <3>3 DEF IsDeletion
    <3> QED  BY <3>1, <3>2, <3>3
  <2> QED  BY <1>2, <2>1, <2>2, KeepsWinners
<1> QED  BY <1>1, <1>3, <1>4 DEF LockInv

LEMMA NextIInv == IInv /\ [Next]_vars => IInv'
<1> SUFFICES ASSUME IInv, [Next]_vars PROVE IInv'
  OBVIOUS
<1>1. CASE UNCHANGED vars
  <2>1. UNCHANGED Committed
    BY <1>1 DEF vars, Committed
  <2>2. BatchInv' /\ DeleteInv'
    BY <1>1, QuietSections DEF vars, IInv
  <2>3. HeldInv' /\ OneLiveWinner'
    BY <1>1, <2>1 DEF vars, IInv, HeldInv, OneLiveWinner, Won, IsDeletion, Urls
  <2> QED  BY <1>1, <2>2, <2>3 DEF vars, IInv, TypeOK, LockInv
<1>2. ASSUME NEW t \in Threads, DeleteStart(t) PROVE IInv'
  BY <1>2, StartStep DEF DeleteStart
<1>3. ASSUME NEW t \in Threads, Step(t) PROVE IInv'
  BY <1>2, <1>3, CallStep, LockStep, StoreStep, BatchCheckStep, WriteNextStep, WriteDoneStep,
     ReadStep, StatsStep DEF Step
<1> QED  BY <1>1, <1>3 DEF Next

\* The invariant holds for ever.
THEOREM Inductive == Spec => []IInv
BY InitIInv, NextIInv, PTL DEF Spec

\* The map and the calls keep their types.
THEOREM TypeCorrect == Spec => []TypeOK
<1>1. IInv => TypeOK
  BY DEF IInv
<1> QED  BY Inductive, <1>1, PTL

\* A path has one live winner, whoever else stores, overwrites or deletes.
THEOREM OneWinner == Spec => []OneLiveWinner
<1>1. IInv => OneLiveWinner
  BY DEF IInv
<1> QED  BY Inductive, <1>1, PTL

(***************************************************************************)
(* What readers see, and what a failure leaves.                            *)
(***************************************************************************)

\* A step is of one goroutine, that has not returned; those that have are left alone.
LEMMA StepIsOwn ==
  ASSUME NEW t \in Threads, TypeOK, Step(t)
  PROVE  /\ pc[t] # "done"
         /\ \A s \in Threads \ {t} :
              pc'[s] = pc[s] /\ req'[s] = req[s] /\ resp'[s] = resp[s]
              /\ (pc[s] = "done" => seen'[s] = seen[s])
<1> USE DEF TypeOK
<1>1. CASE \E r \in Requests : Call(t, r)
  BY <1>1 DEF Call
<1>2. CASE Lock(t) \/ BatchCheck(t) \/ DeleteStart(t)
  BY <1>2 DEF Lock, BatchCheck, DeleteStart, Return
<1>3. CASE Store(t)
  BY <1>3 DEF Store, Return
<1>4. CASE WriteNext(t) \/ WriteDone(t)
  BY <1>4 DEF WriteNext, WriteDone, Return
<1>5. CASE Get(t) \/ ListUserURLs(t) \/ Dump(t)
  BY <1>5 DEF Get, ListUserURLs, Dump, Return
<1>6. CASE StatsVisit(t)
  <2>1. PICK k \in DOMAIN db :
          resp' = [resp EXCEPT ![t].val.visited = @ \cup {k},
                               ![t].val.users = @ \cup {db[j].user : j \in {i \in {k} : ~db[i].deleted}}]
    BY <1>6 DEF StatsVisit
  <2> QED  BY <1>6, <2>1 DEF StatsVisit
<1>7. CASE Stats(t)
  BY <1>7 DEF Stats
<1> QED  BY <1>1, <1>2, <1>3, <1>4, <1>5, <1>6, <1>7 DEF Step

\* The value that a reader of map m returns.
Reads(t, m, val) ==
  val = CASE req[t].kind = "get" -> GetOrig(m, req[t].urls[1].short)
          [] req[t].kind = "list" -> UserShorts(m, req[t].urls[1].user)
          [] req[t].kind = "dump" -> m

\* A reader sees the map of one moment, and never the middle of a batch.
THEOREM ReadersSeeOneMap == Spec => []ReadsOneMap
<1>1. Init => ReadsOneMap
  BY DEF Init, ReadsOneMap
<1>2. IInv /\ ReadsOneMap /\ [Next]_vars => ReadsOneMap'
  <2> SUFFICES ASSUME IInv, ReadsOneMap, [Next]_vars,
                      NEW s \in Threads, pc'[s] = "done", req'[s].kind \in {"get", "list", "dump"}
               PROVE  \E m \in seen'[s] : Reads(s, m, resp[s].val)'
    BY DEF ReadsOneMap, Reads
  <2>1. CASE UNCHANGED vars
    BY <2>1 DEF vars, ReadsOneMap, Reads
  <2>2. ASSUME NEW t \in Threads, Step(t) PROVE \E m \in seen'[s] : Reads(s, m, resp[s].val)'
    <3>1. CASE s # t
      BY <2>2, <3>1, StepIsOwn DEF IInv, ReadsOneMap, Reads
    <3>2. CASE s = t
      <4>1. Get(t) \/ ListUserURLs(t) \/ Dump(t)
        BY <2>2, <3>2 DEF Step, Call, Lock, Store, BatchCheck, DeleteStart, WriteNext, WriteDone,
           StatsVisit, Stats, Return, IInv, TypeOK, LockInv
      <4>2. PICK val : pc[t] = "locked" /\ Return(t, "ok", val, db) /\ UNCHANGED req /\ Reads(t, db, val)
        BY <4>1 DEF Get, ListUserURLs, Dump, Reads
      <4>3. db \in seen'[t] /\ resp'[t].val = val
        BY <4>2 DEF Return, IInv, TypeOK
      <4> QED  BY <3>2, <4>2, <4>3 DEF Reads
    <3> QED  BY <3>1, <3>2
  <2> QED  BY <2>1, <2>2 DEF Next
<1>3. IInv /\ ReadsOneMap /\ [Next]_vars => (IInv /\ ReadsOneMap)'
  BY NextIInv, <1>2
<1> QED  BY InitIInv, <1>1, <1>3, PTL DEF Spec

\* A call that fails leaves the map as it was when it took the mutex.
THEOREM FailuresChangeNothing == Spec => FailureChangesNothing
<1>1. IInv /\ [Next]_vars =>
        [\A t \in Threads : (pc[t] # "done" /\ pc'[t] = "done" /\ resp'[t].err = "already exists")
                              => db' = base]_vars
  <2> SUFFICES ASSUME IInv, Next, NEW s \in Threads, pc[s] # "done", pc'[s] = "done",
                      resp'[s].err = "already exists"
               PROVE  db' = base
    OBVIOUS
  <2>1. Step(s)
    BY StepIsOwn DEF Next, IInv
  <2>2. pc[s] \in {"locked"} /\ db' = db
    <3>1. CASE Store(s)
      <4>1. /\ pc[s] = "locked"
            /\ \/ UNCHANGED db
               \/ Return(s, "ok", 0, db')
        BY <3>1 DEF Store
      <4>2. ~Return(s, "ok", 0, db')
        BY ReturnSays DEF IInv
      <4> QED  BY <4>1, <4>2
    <3>2. CASE BatchCheck(s)
      BY <3>2 DEF BatchCheck
    <3>3. ASSUME NEW val PROVE ~Return(s, "ok", val, db)
      BY ReturnSays DEF IInv
    <3>4. ~WriteDone(s) /\ ~Get(s) /\ ~ListUserURLs(s) /\ ~Dump(s)
      BY <3>3 DEF WriteDone, Get, ListUserURLs, Dump
    <3>5. ~Stats(s)
      <4>1. ASSUME Stats(s) PROVE resp'[s].err = "ok"
        <5>1. \E val : resp' = [resp EXCEPT ![s] = [err |-> "ok", val |-> val]]
          BY <4>1 DEF Stats
        <5> QED  BY <5>1 DEF IInv, TypeOK
      <4> QED  BY <4>1
    <3>6. ASSUME NEW r \in Requests, Call(s, r) PROVE FALSE
      BY <3>6 DEF Call, IInv, TypeOK
    <3>7. ~Lock(s) /\ ~DeleteStart(s) /\ ~WriteNext(s) /\ ~StatsVisit(s)
      BY DEF Lock, DeleteStart, WriteNext, StatsVisit, IInv, TypeOK
    <3> QED  BY <2>1, <3>1, <3>2, <3>4, <3>5, <3>6, <3>7 DEF Step
  <2> QED  BY <2>2, Inside DEF IInv
<1> QED  BY Inductive, <1>1, PTL DEF Spec, FailureChangesNothing

(***************************************************************************)
(* The walk of Stats, which holds no mutex.                                *)
(***************************************************************************)

\* Path k is live in the map, for user u.
LiveAs(map, k, u) == k \in DOMAIN map /\ ~map[k].deleted /\ map[k].user = u

\* The result of a call that walks, before its end.
WalkResult(r) ==
  r = [err |-> r.err,
       val |-> [must |-> r.val.must, visited |-> r.val.visited, users |-> r.val.users]]

\* What a walk has met: a record that it passed was counted unless one of the maps in
\* question (those its caller could see, and the one there is) has it otherwise;
\* who was counted has a live record in one of them.
Walk(t) ==
  LET walk == resp[t].val IN
  /\ WalkResult(resp[t])
  /\ walk.users \subseteq Users /\ walk.visited \subseteq Keys
  /\ Committed \in seen[t]
  /\ \A k \in Keys : (\A m \in seen[t] : k \in DOMAIN m) => k \in walk.must
  /\ \A k \in walk.visited, u \in Users :
       LiveAs(db, k, u) /\ (\A m \in seen[t] : LiveAs(m, k, u)) => u \in walk.users
  /\ \A u \in walk.users : \E k \in Keys, m \in seen[t] \cup {db} : LiveAs(m, k, u)

WalkInv == \A t \in Threads : /\ pc[t] = "idle" => resp[t] = [err |-> "none", val |-> 0]
                              /\ pc[t] = "iterate" => Walk(t)

\* There are never more records and maps than calls have made.
FiniteInv ==
  /\ IsFiniteSet(DOMAIN db) /\ IsFiniteSet(DOMAIN base)
  /\ \A t \in Threads : IsFiniteSet(seen[t]) /\ \A m \in seen[t] : IsFiniteSet(DOMAIN m)

\* In a section that writes, the map differs from the one outsiders see by records
\* that are live in one of the two only, and stay so until the section ends.
LEMMA WritesBetween ==
  ASSUME IInv, NEW s \in Threads, Step(s), NEW k \in Keys, NEW u \in Users
  PROVE  /\ LiveAs(db', k, u) /\ LiveAs(Committed, k, u) => LiveAs(db, k, u)
         /\ LiveAs(db, k, u) => LiveAs(db', k, u) \/ LiveAs(Committed, k, u)
<1>1. CASE UNCHANGED db
  BY <1>1
<1>2. CASE Store(s)
  BY <1>2, Inside DEF Store, IInv
<1>3. CASE WriteNext(s)
  <2> DEFINE url == Urls(s)[next[s]]
  <2>1. pc[s] = "write" /\ Committed = base /\ next[s] \in DOMAIN Urls(s) /\ url \in Url
    <3>1. pc[s] = "write" /\ next[s] <= Len(Urls(s)) /\ next[s] \in Nat /\ next[s] >= 1
      BY <1>3 DEF WriteNext, IInv, TypeOK, LockInv, Urls
    <3> QED  BY <3>1, Inside, UrlsAreUrls DEF IInv
  <2>2. DOMAIN db \subseteq Keys /\ db \in [DOMAIN db -> Records]
    BY DEF IInv, TypeOK
  <2>3. CASE req[s].kind = "batch"
    <3>1. HasWritten(s)
      BY <2>1, <2>3 DEF IInv, BatchInv
    <3>2. /\ db'[url.short].user = url.user /\ ~db'[url.short].deleted
          /\ url.short \in DOMAIN db' /\ DOMAIN db' = DOMAIN db \cup {url.short}
          /\ \A j \in DOMAIN db : j # url.short => db'[j] = db[j]
      <4>1. db' = PutAll(db, <<url>>)
        BY <1>3, <2>3 DEF WriteNext, Write, Urls
      <4> HIDE DEF url
      <4> QED  BY <2>1, <2>2, <4>1, PutType
    <3>3. \A i \in DOMAIN Urls(s) : Urls(s)[i].user = url.user
      BY <2>1, UrlsAreUrls DEF IInv
    <3>4. Taken(base, k) => k # url.short
      BY <2>1, <3>1 DEF HasWritten
    <3>5. Taken(base, k) => k \notin Written(s)
      BY <3>1 DEF HasWritten, Written
    <3>6. k \in DOMAIN db => \/ k \in Written(s) /\ db[k].user = url.user
                             \/ k \in DOMAIN base /\ db[k] = base[k]
      BY <3>1, <3>3 DEF HasWritten
    <3>7. Taken(base, k) => k \in DOMAIN db /\ db[k] = base[k]
      BY <3>1, <3>5 DEF HasWritten, Taken
    <3> HIDE DEF url
    <3>8. LiveAs(db', k, u) /\ LiveAs(base, k, u) => LiveAs(db, k, u)
      BY <3>7 DEF LiveAs, Taken
    <3>9. LiveAs(db, k, u) => LiveAs(db', k, u) \/ LiveAs(base, k, u)
      BY <3>2, <3>6 DEF LiveAs
    <3> QED  BY <2>1, <3>8, <3>9
  <2>4. CASE req[s].kind = "delete"
    <3>1. /\ DOMAIN db = DOMAIN base
          /\ \A j \in DOMAIN db : db[j] = base[j] \/ db[j] = [base[j] EXCEPT !.deleted = TRUE]
      BY <2>1, <2>4 DEF IInv, DeleteInv
    <3>2. DOMAIN base \subseteq Keys /\ base \in [DOMAIN base -> Records]
      BY DEF IInv, LockInv
    <3>3. \A j \in DOMAIN db : ~db[j].deleted => db[j] = base[j]
      BY <3>1, <3>2 DEF Records
    <3>4. DOMAIN db' = DOMAIN db
          /\ \A j \in DOMAIN db : db'[j] = db[j] \/ db'[j] = [db[j] EXCEPT !.deleted = TRUE]
      <4>1. db' = db \/ db' = MarkDeleted(db, <<url>>)
        BY <1>3, <2>4 DEF WriteNext, Write, Urls
      <4> HIDE DEF url
      <4> QED  BY <2>1, <2>2, <4>1, MarkType
    <3>5. \A j \in DOMAIN db : ~db'[j].deleted => db'[j] = db[j]
      BY <2>2, <3>4 DEF Records
    <3> QED  BY <2>1, <3>1, <3>3, <3>4, <3>5 DEF LiveAs
  <2> QED  BY <2>1, <2>3, <2>4 DEF IInv, LockInv
<1> QED
  BY <1>1, <1>2, <1>3 DEF Step, Call, Lock, BatchCheck, DeleteStart, WriteDone, Get,
     ListUserURLs, Dump, StatsVisit, Stats

\* The steps that outsiders do not see.
LEMMA Unseen ==
  ASSUME NEW t \in Threads, IInv,
         \/ \E r \in Requests : Call(t, r)
         \/ Lock(t) \/ BatchCheck(t) \/ DeleteStart(t) \/ WriteNext(t)
         \/ Get(t) \/ ListUserURLs(t) \/ Dump(t) \/ StatsVisit(t) \/ Stats(t)
  PROVE  UNCHANGED Committed
<1> USE DEF Committed, Free
<1>1. CASE \E r \in Requests : Call(t, r)
  BY <1>1 DEF Call
<1>2. CASE Lock(t)
  BY <1>2, ThreadsAssumption DEF Lock
<1>3. CASE DeleteStart(t) \/ StatsVisit(t) \/ Stats(t)
  BY <1>3 DEF DeleteStart, StatsVisit, Stats
<1>4. CASE WriteNext(t)
  BY <1>4, Inside, ThreadsAssumption DEF WriteNext, IInv
<1>5. CASE BatchCheck(t) \/ Get(t) \/ ListUserURLs(t) \/ Dump(t)
  BY <1>5, Inside DEF BatchCheck, Get, ListUserURLs, Dump, Return, IInv
<1> QED  BY <1>1, <1>2, <1>3, <1>4, <1>5

\* Who walks sees more and more maps, and always the one of now.
LEMMA SeenGrows ==
  ASSUME IInv, NEW s \in Threads, Step(s), NEW t \in Threads, pc[t] = "iterate",
         Committed \in seen[t]
  PROVE  seen[t] \subseteq seen'[t] /\ Committed' \in seen'[t]
<1> USE DEF IInv, TypeOK
<1>1. ASSUME NEW err, NEW val, Return(s, err, val, db') PROVE seen'[t] = seen[t] \cup {db'}
                                                              /\ Committed' = db'
  BY <1>1 DEF Return, Committed
<1>2. CASE Store(s) \/ WriteDone(s)
  <2>1. \E err, val : Return(s, err, val, db')
    BY <1>2 DEF Store, WriteDone
  <2> QED  BY <1>1, <2>1
<1>3. ASSUME UNCHANGED Committed, seen'[t] = seen[t]
      PROVE  seen[t] \subseteq seen'[t] /\ Committed' \in seen'[t]
  BY <1>3
<1>4. ASSUME NEW r \in Requests, Call(s, r)
      PROVE  seen[t] \subseteq seen'[t] /\ Committed' \in seen'[t]
  <2>1. seen'[t] = seen[t]
    BY <1>4 DEF Call
  <2> QED  BY <1>3, <1>4, <2>1, Unseen
<1>5. CASE Lock(s) \/ DeleteStart(s) \/ WriteNext(s) \/ StatsVisit(s) \/ Stats(s)
  <2>1. seen'[t] = seen[t]
    BY <1>5 DEF Lock, DeleteStart, WriteNext, StatsVisit, Stats
  <2> QED  BY <1>3, <1>5, <2>1, Unseen
<1>6. CASE BatchCheck(s) \/ Get(s) \/ ListUserURLs(s) \/ Dump(s)
  <2>1. seen[t] \subseteq seen'[t]
    BY <1>6 DEF BatchCheck, Get, ListUserURLs, Dump, Return
  <2> QED  BY <1>6, <2>1, Unseen
<1> QED  BY <1>2, <1>4, <1>5, <1>6 DEF Step

\* A walk that takes no step itself.
LEMMA WalkOfOthers ==
  ASSUME IInv, NEW s \in Threads, Step(s), NEW t \in Threads, t # s,
         pc[t] = "iterate", Walk(t)
  PROVE  Walk(t)'
<1>1. resp'[t] = resp[t]
  BY StepIsOwn DEF IInv
<1>2. seen[t] \subseteq seen'[t] /\ Committed' \in seen'[t] /\ Committed \in seen[t]
  BY SeenGrows DEF Walk
<1>3. ASSUME NEW k \in Keys, NEW u \in Users, LiveAs(db', k, u),
             \A m \in seen'[t] : LiveAs(m, k, u)
      PROVE  LiveAs(db, k, u)
  BY <1>2, <1>3, WritesBetween
<1>4. ASSUME NEW u \in Users, NEW k \in Keys, NEW m \in seen[t] \cup {db}, LiveAs(m, k, u)
      PROVE  \E n \in seen'[t] \cup {db'} : LiveAs(n, k, u)
  BY <1>2, <1>4, WritesBetween
<1>5. ASSUME NEW k \in resp[t].val.visited, NEW u \in Users, LiveAs(db', k, u),
             \A m \in seen'[t] : LiveAs(m, k, u)
      PROVE  u \in resp[t].val.users
  BY <1>2, <1>3, <1>5 DEF Walk
<1>6. ASSUME NEW u \in resp[t].val.users
      PROVE  \E k \in Keys, n \in seen'[t] \cup {db'} : LiveAs(n, k, u)
  BY <1>4, <1>6 DEF Walk
<1>7. \A k \in Keys : (\A m \in seen'[t] : k \in DOMAIN m) => k \in resp[t].val.must
  BY <1>2 DEF Walk
<1> QED  BY <1>1, <1>2, <1>5, <1>6, <1>7 DEF Walk

\* A record that is counted changes two fields of what the walk has.
Count(r, visited, users) == [r EXCEPT !.val.visited = visited, !.val.users = users]

LEMMA CountedFields ==
  ASSUME NEW err, NEW must, NEW visited, NEW users, NEW visited2, NEW users2
  PROVE  Count([err |-> err, val |-> [must |-> must, visited |-> visited, users |-> users]],
               visited2, users2)
           = [err |-> err, val |-> [must |-> must, visited |-> visited2, users |-> users2]]
<1> DEFINE r == [err |-> err, val |-> [must |-> must, visited |-> visited, users |-> users]]
<1>1. [r EXCEPT !.val.visited = visited2]
        = [err |-> err, val |-> [must |-> must, visited |-> visited2, users |-> users]]
  OBVIOUS
<1>2. [[err |-> err, val |-> [must |-> must, visited |-> visited2, users |-> users]]
         EXCEPT !.val.users = users2]
        = [err |-> err, val |-> [must |-> must, visited |-> visited2, users |-> users2]]
  OBVIOUS
<1>3. [r EXCEPT !.val.visited = visited2, !.val.users = users2]
        = [[r EXCEPT !.val.visited = visited2] EXCEPT !.val.users = users2]
  OBVIOUS
<1> QED  BY <1>1, <1>2, <1>3 DEF Count

LEMMA Counted ==
  ASSUME NEW r, WalkResult(r), NEW visited, NEW users
  PROVE  Count(r, visited, users)
           = [err |-> r.err,
              val |-> [must |-> r.val.must, visited |-> visited, users |-> users]]
<1>1. \A err, must, vis, us :
        Count([err |-> err, val |-> [must |-> must, visited |-> vis, users |-> us]], visited, users)
          = [err |-> err, val |-> [must |-> must, visited |-> visited, users |-> users]]
  BY CountedFields
<1>2. PICK err, must, vis, us :
        /\ r = [err |-> err, val |-> [must |-> must, visited |-> vis, users |-> us]]
        /\ err = r.err /\ must = r.val.must
  BY DEF WalkResult
<1>3. Count(r, visited, users)
        = [err |-> err, val |-> [must |-> must, visited |-> visited, users |-> users]]
  BY <1>1, <1>2
<1> QED  BY <1>2, <1>3

\* The steps of a walk.
LEMMA WalkStep ==
  ASSUME IInv, NEW t \in Threads, StatsVisit(t), Walk(t)
  PROVE  Walk(t)'
<1> DEFINE walk == resp[t].val
<1>1. PICK k \in DOMAIN db :
        resp' = [resp EXCEPT ![t].val.visited = @ \cup {k},
                             ![t].val.users = @ \cup {db[j].user : j \in {i \in {k} : ~db[i].deleted}}]
  BY DEF StatsVisit
<1> DEFINE new == {db[j].user : j \in {i \in {k} : ~db[i].deleted}}
<1>2. WalkResult(resp[t])
  BY DEF Walk
<1>3. resp'[t] = [err |-> resp[t].err,
                  val |-> [must |-> walk.must, visited |-> walk.visited \cup {k},
                           users |-> walk.users \cup new]]
  <2>1. resp'[t] = Count(resp[t], walk.visited \cup {k}, walk.users \cup new)
    BY <1>1 DEF IInv, TypeOK, Count
  <2>2. Count(resp[t], walk.visited \cup {k}, walk.users \cup new)
          = [err |-> resp[t].err,
             val |-> [must |-> walk.must, visited |-> walk.visited \cup {k},
                      users |-> walk.users \cup new]]
    <3> HIDE DEF new
    <3> QED  BY <1>2, Counted
  <2> QED  BY <2>1, <2>2
<1>4. UNCHANGED <<db, mux, base, seen>> /\ UNCHANGED Committed
  BY DEF StatsVisit, Committed
<1>5. k \in Keys /\ db[k].user \in Users /\ new \subseteq Users
      /\ \A u \in new : LiveAs(db, k, u)
  BY DEF IInv, TypeOK, Records, LiveAs
<1>6. ~db[k].deleted => db[k].user \in new
  OBVIOUS
<1>7. /\ resp'[t].err = resp[t].err /\ resp'[t].val.must = walk.must
      /\ resp'[t].val.visited = walk.visited \cup {k} /\ resp'[t].val.users = walk.users \cup new
  BY <1>3
<1>8. ASSUME NEW j \in walk.visited \cup {k}, NEW u \in Users, LiveAs(db, j, u),
             \A m \in seen[t] : LiveAs(m, j, u)
      PROVE  u \in walk.users \cup new
  <2>1. CASE j \in walk.visited
    BY <1>8, <2>1 DEF Walk
  <2>2. CASE j = k
    BY <1>6, <1>8, <2>2 DEF LiveAs
  <2> QED  BY <2>1, <2>2
<1>9. ASSUME NEW u \in walk.users \cup new
      PROVE  \E j \in Keys, m \in seen[t] \cup {db} : LiveAs(m, j, u)
  BY <1>5, <1>9 DEF Walk
<1> HIDE DEF new
<1>10. WalkResult(resp'[t])
  BY <1>3 DEF WalkResult
<1> QED  BY <1>4, <1>5, <1>7, <1>8, <1>9, <1>10 DEF Walk

\* A field of a result is set.
LEMMA SetVal ==
  ASSUME NEW err, NEW val, NEW new, NEW r, r = [err |-> err, val |-> val]
  PROVE  [r EXCEPT !.val = new] = [err |-> err, val |-> new]
<1> DEFINE q == [r EXCEPT !.val = new]
<1>1. q = [f \in {"err", "val"} |-> IF f = "err" THEN err ELSE new]
  OBVIOUS
<1> QED  BY <1>1

\* The call of Stats starts a walk.
LEMMA WalkStarts ==
  ASSUME IInv, WalkInv, NEW t \in Threads, NEW r \in Requests, Call(t, r), r.kind = "stats"
  PROVE  Walk(t)'
<1>1. resp[t] = [err |-> "none", val |-> 0] /\ UNCHANGED Committed /\ UNCHANGED db
  BY DEF Call, WalkInv, Committed
<1>2. resp'[t] = [err |-> "none", val |-> [must |-> DOMAIN db, visited |-> {}, users |-> {}]]
  <2> DEFINE new == [must |-> DOMAIN db, visited |-> {}, users |-> {}]
  <2>1. resp'[t] = [resp[t] EXCEPT !.val = new]
    BY DEF Call, IInv, TypeOK
  <2> HIDE DEF new
  <2>2. [resp[t] EXCEPT !.val = new] = [err |-> "none", val |-> new]
    BY <1>1, SetVal
  <2> QED  BY <2>1, <2>2 DEF new
<1>3. seen'[t] = {Committed}
  BY DEF Call, IInv, TypeOK
<1>4. DOMAIN Committed \subseteq DOMAIN db
  <2>1. CASE mux = Free
    BY <2>1 DEF Committed
  <2>2. CASE mux # Free
    <3>1. mux \in Threads /\ pc[mux] \in {"locked", "write"}
      BY <2>2 DEF IInv, TypeOK, LockInv
    <3> QED
      BY <2>2, <3>1 DEF IInv, LockInv, BatchInv, HasWritten, DeleteInv, Committed
  <2> QED  BY <2>1, <2>2
<1>5. WalkResult(resp'[t]) /\ resp'[t].val.must = DOMAIN db
      /\ resp'[t].val.visited = {} /\ resp'[t].val.users = {}
  BY <1>2 DEF WalkResult
<1>6. Committed' \in seen'[t]
      /\ \A k \in Keys : (\A m \in seen'[t] : k \in DOMAIN m) => k \in DOMAIN db
  BY <1>1, <1>3, <1>4
<1> QED  BY <1>5, <1>6 DEF Walk

\* Only Stats ends a walk, only a call starts one.
LEMMA StepOfWalk ==
  ASSUME IInv, NEW t \in Threads, Step(t)
  PROVE  /\ pc[t] = "iterate" => StatsVisit(t) \/ Stats(t)
         /\ pc'[t] = "iterate" /\ pc[t] # "iterate" =>
              \E r \in Requests : Call(t, r) /\ r.kind = "stats"
         /\ pc'[t] # "idle"
<1> USE DEF IInv, TypeOK
<1>1. ASSUME NEW r \in Requests, Call(t, r)
      PROVE  pc[t] = "idle" /\ pc'[t] = (IF r.kind = "stats" THEN "iterate" ELSE "lock")
  BY <1>1 DEF Call
<1>2. CASE Lock(t) \/ BatchCheck(t) \/ DeleteStart(t) \/ WriteNext(t)
  BY <1>2 DEF Lock, BatchCheck, DeleteStart, WriteNext, Return
<1>3. CASE Store(t) \/ WriteDone(t) \/ Get(t) \/ ListUserURLs(t) \/ Dump(t)
  BY <1>3 DEF Store, WriteDone, Get, ListUserURLs, Dump, Return
<1>4. CASE StatsVisit(t) \/ Stats(t)
  BY <1>4 DEF StatsVisit, Stats
<1> QED  BY <1>1, <1>2, <1>3, <1>4 DEF Step

\* Walks keep what they have met.
LEMMA NextWalkInv == IInv /\ WalkInv /\ [Next]_vars => WalkInv'
<1> SUFFICES ASSUME IInv, WalkInv, [Next]_vars, NEW t \in Threads
             PROVE  /\ pc'[t] = "idle" => resp'[t] = [err |-> "none", val |-> 0]
                    /\ pc'[t] = "iterate" => Walk(t)'
  BY DEF WalkInv
<1>1. CASE UNCHANGED vars
  <2>1. UNCHANGED Committed
    BY <1>1 DEF vars, Committed
  <2> QED  BY <1>1, <2>1 DEF vars, WalkInv, Walk
<1>2. ASSUME NEW s \in Threads, Step(s)
      PROVE  /\ pc'[t] = "idle" => resp'[t] = [err |-> "none", val |-> 0]
             /\ pc'[t] = "iterate" => Walk(t)'
  <2>1. CASE s # t
    BY <1>2, <2>1, StepIsOwn, WalkOfOthers DEF IInv, WalkInv
  <2>2. CASE s = t
    <3>1. pc'[t] # "idle"
      BY <1>2, <2>2, StepOfWalk
    <3>2. CASE pc[t] = "iterate" /\ pc'[t] = "iterate"
      <4>1. StatsVisit(t)
        BY <1>2, <2>2, <3>2, StepOfWalk DEF Stats, IInv, TypeOK
      <4> QED  BY <3>1, <3>2, <4>1, WalkStep DEF WalkInv
    <3>3. CASE pc'[t] = "iterate" /\ pc[t] # "iterate"
      BY <1>2, <2>2, <3>1, <3>3, StepOfWalk, WalkStarts
    <3> QED  BY <3>1, <3>2, <3>3
  <2> QED  BY <2>1, <2>2
<1> QED  BY <1>1, <1>2 DEF Next

\* A step adds one record to the map, if any, and one map to what a walk can see.
LEMMA OneRecord ==
  ASSUME IInv, NEW t \in Threads, Step(t)
  PROVE  DOMAIN db' = DOMAIN db \/ \E k \in Keys : DOMAIN db' = DOMAIN db \cup {k}
<1>1. CASE UNCHANGED db
  BY <1>1
<1>2. ASSUME NEW url \in Url, db' = PutAll(db, <<url>>)
      PROVE  \E k \in Keys : DOMAIN db' = DOMAIN db \cup {k}
  <2>1. DOMAIN db' = DOMAIN db \cup {url.short}
    <3>1. PutAll(db, <<url>>) = [k \in DOMAIN db \cup {url.short} |->
                                   IF k = url.short THEN Record(url) ELSE db[k]]
      BY PutOne
    <3> QED  BY <1>2, <3>1
  <2>2. url.short \in Keys
    BY DEF Url
  <2> QED  BY <2>1, <2>2
<1>3. ASSUME NEW url \in Url, db' = MarkDeleted(db, <<url>>)
      PROVE  DOMAIN db' = DOMAIN db
  BY <1>3 DEF MarkDeleted
<1>4. CASE Store(t)
  <2>1. Urls(t)[1] \in Url
    BY <1>4, UrlsAreUrls DEF Store, IInv
  <2>2. UNCHANGED db \/ db' = PutAll(db, <<Urls(t)[1]>>)
    BY <1>4 DEF Store, Write, Urls
  <2> QED  BY <1>1, <1>2, <2>1, <2>2
<1>5. CASE WriteNext(t)
  <2>1. Urls(t)[next[t]] \in Url
    <3>1. pc[t] = "write" /\ next[t] <= Len(Urls(t)) /\ next[t] \in Nat /\ next[t] >= 1
      BY <1>5 DEF WriteNext, IInv, TypeOK, LockInv, Urls
    <3> QED  BY <3>1, UrlsAreUrls DEF IInv
  <2>2. \/ UNCHANGED db
        \/ db' = PutAll(db, <<Urls(t)[next[t]]>>)
        \/ db' = MarkDeleted(db, <<Urls(t)[next[t]]>>)
    BY <1>5 DEF WriteNext, Write, Urls
  <2> QED  BY <1>1, <1>2, <1>3, <2>1, <2>2
<1> QED
  BY <1>1, <1>4, <1>5 DEF Step, Call, Lock, BatchCheck, DeleteStart, WriteDone, Get,
     ListUserURLs, Dump, StatsVisit, Stats

LEMMA OneMap ==
  ASSUME IInv, NEW t \in Threads, Step(t), NEW s \in Threads
  PROVE  seen'[s] \in {seen[s], {Committed}, seen[s] \cup {db'}}
<1> USE DEF IInv, TypeOK
<1>1. ASSUME NEW r \in Requests, Call(t, r)
      PROVE  seen'[s] \in {seen[s], {Committed}}
  BY <1>1 DEF Call
<1>2. CASE Lock(t) \/ DeleteStart(t) \/ WriteNext(t) \/ StatsVisit(t) \/ Stats(t)
  BY <1>2 DEF Lock, DeleteStart, WriteNext, StatsVisit, Stats
<1>3. CASE BatchCheck(t) \/ WriteDone(t) \/ Get(t) \/ ListUserURLs(t) \/ Dump(t)
  BY <1>3 DEF BatchCheck, WriteDone, Get, ListUserURLs, Dump, Return
<1>4. CASE Store(t)
  BY <1>4 DEF Store, Return
<1> QED  BY <1>1, <1>2, <1>3, <1>4 DEF Step

LEMMA NextFinite == IInv /\ FiniteInv /\ [Next]_vars => FiniteInv'
<1> SUFFICES ASSUME IInv, FiniteInv, [Next]_vars PROVE FiniteInv'
  OBVIOUS
<1>1. CASE UNCHANGED vars
  BY <1>1 DEF vars, FiniteInv
<1>2. ASSUME NEW t \in Threads, Step(t) PROVE FiniteInv'
  <2>1. IsFiniteSet(DOMAIN db')
    BY <1>2, OneRecord, FS_AddElement DEF FiniteInv
  <2>2. base' = base \/ base' = db
    BY <1>2 DEF Step, Call, Lock, Store, BatchCheck, DeleteStart, WriteNext, WriteDone, Get,
       ListUserURLs, Dump, StatsVisit, Stats
  <2>3. IsFiniteSet(DOMAIN Committed)
    BY DEF FiniteInv, Committed
  <2>4. ASSUME NEW s \in Threads
        PROVE  IsFiniteSet(seen'[s]) /\ \A m \in seen'[s] : IsFiniteSet(DOMAIN m)
    <3>1. IsFiniteSet(seen[s]) /\ \A m \in seen[s] : IsFiniteSet(DOMAIN m)
      BY DEF FiniteInv
    <3>2. CASE seen'[s] = seen[s]
      BY <3>1, <3>2
    <3>3. CASE seen'[s] = {Committed}
      BY <2>3, <3>3, FS_Singleton
    <3>4. CASE seen'[s] = seen[s] \cup {db'}
      BY <2>1, <3>1, <3>4, FS_AddElement
    <3> QED  BY <1>2, <3>2, <3>3, <3>4, OneMap
  <2> QED  BY <2>1, <2>2, <2>4 DEF FiniteInv
<1> QED  BY <1>1, <1>2 DEF Next

\* A finite map has finitely many live users, and finitely many maps have.
LEMMA LiveFinite ==
  ASSUME NEW map, IsFiniteSet(DOMAIN map)
  PROVE  IsFiniteSet(LiveUsers(map))
<1> DEFINE K == {j \in DOMAIN map : ~map[j].deleted}
           f == [k \in K |-> map[k].user]
<1>1. IsFiniteSet(K)
  BY FS_Subset
<1>2. f \in Surjection(K, LiveUsers(map))
  BY DEF Surjection, LiveUsers
<1> QED  BY <1>1, <1>2, FS_Surjection

LEMMA UnionFinite ==
  ASSUME NEW maps, IsFiniteSet(maps), \A m \in maps : IsFiniteSet(DOMAIN m)
  PROVE  IsFiniteSet(UNION {LiveUsers(m) : m \in maps})
<1> DEFINE sets == {LiveUsers(m) : m \in maps}
           f == [m \in maps |-> LiveUsers(m)]
<1>1. f \in Surjection(maps, sets)
  BY DEF Surjection
<1>2. IsFiniteSet(sets)
  BY <1>1, FS_Surjection
<1>3. \A S \in sets : IsFiniteSet(S)
  BY LiveFinite
<1> HIDE DEF sets
<1>4. IsFiniteSet(UNION sets)
  BY <1>2, <1>3, FS_UNION
<1> QED  BY <1>4 DEF sets

\* The statistics count every user with a record that was live all along, and no user
\* without one, whatever was written under the walk.
THEOREM StatsAreBetween == Spec => StatsBetween
<1>1. Init => WalkInv /\ FiniteInv
  BY FS_EmptySet DEF Init, WalkInv, FiniteInv, EmptyMap
<1>2. IInv /\ WalkInv /\ FiniteInv /\ [Next]_vars =>
        [\A t \in Threads :
           (req[t].kind = "stats" /\ pc[t] = "iterate" /\ pc'[t] = "done") =>
             LET maps == seen[t] \cup {db}
                 kept == {k \in DOMAIN db : \A m \in maps :
                            k \in DOMAIN m /\ ~m[k].deleted /\ m[k].user = db[k].user}
             IN  resp'[t].val.users \in Cardinality({db[k].user : k \in kept})
                                        ..Cardinality(UNION {LiveUsers(m) : m \in maps})]_vars
  <2> SUFFICES ASSUME IInv, WalkInv, FiniteInv, Next,
                      NEW t \in Threads, pc[t] = "iterate", pc'[t] = "done"
               PROVE  LET maps == seen[t] \cup {db}
                          kept == {k \in DOMAIN db : \A m \in maps :
                                     k \in DOMAIN m /\ ~m[k].deleted /\ m[k].user = db[k].user}
                      IN  resp'[t].val.users \in Cardinality({db[k].user : k \in kept})
                                        ..Cardinality(UNION {LiveUsers(m) : m \in maps})
    OBVIOUS
  <2> DEFINE maps == seen[t] \cup {db}
             kept == {k \in DOMAIN db : \A m \in maps :
                        k \in DOMAIN m /\ ~m[k].deleted /\ m[k].user = db[k].user}
             least == {db[k].user : k \in kept}
             most == UNION {LiveUsers(m) : m \in maps}
             users == resp[t].val.users
  <2>1. Stats(t)
    <3>1. Step(t)
      BY StepIsOwn DEF Next, IInv
    <3> QED  BY <3>1, StepOfWalk DEF StatsVisit
  <2>2. resp'[t].val.users = Cardinality(users)
    <3>1. resp'[t] = [err |-> "ok", val |-> [urls |-> Cardinality(DOMAIN db),
                                             users |-> Cardinality(users)]]
      BY <2>1 DEF Stats, IInv, TypeOK
    <3> QED  BY <3>1
  <2>3. IsFiniteSet(maps) /\ \A m \in maps : IsFiniteSet(DOMAIN m)
    BY FS_AddElement DEF FiniteInv
  <2>4. IsFiniteSet(most)
    BY <2>3, UnionFinite
  <2>5. users \subseteq most
    <3> SUFFICES ASSUME NEW u \in users PROVE u \in most
      OBVIOUS
    <3>1. PICK k \in Keys, m \in maps : LiveAs(m, k, u)
      BY DEF WalkInv, Walk
    <3>2. u \in LiveUsers(m)
      BY <3>1 DEF LiveAs, LiveUsers
    <3> QED  BY <3>2
  <2>6. least \subseteq users
    <3> SUFFICES ASSUME NEW k \in kept PROVE db[k].user \in users
      OBVIOUS
    <3>1. k \in Keys /\ db[k].user \in Users
      BY DEF IInv, TypeOK, Records
    <3>2. k \in resp[t].val.visited
      BY <2>1, <3>1 DEF WalkInv, Walk, Stats
    <3>3. \A m \in maps : LiveAs(m, k, db[k].user)
      BY DEF LiveAs
    <3> QED  BY <3>1, <3>2, <3>3 DEF WalkInv, Walk
  <2> HIDE DEF maps, kept, least, most, users
  <2>7. IsFiniteSet(users) /\ Cardinality(users) <= Cardinality(most)
    BY <2>4, <2>5, FS_Subset
  <2>8. IsFiniteSet(least) /\ Cardinality(least) <= Cardinality(users)
    BY <2>6, <2>7, FS_Subset
  <2>9. Cardinality(users) \in Cardinality(least)..Cardinality(most)
    BY <2>4, <2>7, <2>8, FS_CardinalityType
  <2> QED  BY <2>2, <2>9 DEF maps, kept, least, most
<1>3. IInv /\ WalkInv /\ FiniteInv /\ [Next]_vars => (WalkInv /\ FiniteInv)'
  BY NextWalkInv, NextFinite
<1> QED  BY Inductive, <1>1, <1>2, <1>3, PTL DEF Spec, StatsBetween

(***************************************************************************)
(* Refinement.                                                             *)
(***************************************************************************)

NobodyOverwrites == \A r \in Requests : ~r.overwrite

\* A call that adds K to what outsiders see.
LEMMA Adds ==
  ASSUME IInv, IInv', NEW K \in SUBSET Keys, K # {}, NEW u \in Users,
         \A k \in K : ~Taken(Committed, k),
         DOMAIN Committed' = DOMAIN Committed \cup K,
         \A k \in DOMAIN Committed \ K : Committed'[k] = Committed[k],
         \A k \in K : Committed'[k] \in Records /\ ~Committed'[k].deleted /\ Committed'[k].user = u
  PROVE  AbstractStore!Next
<1>1. \A k \in K : Committed'[k] \in AbstractStore!Live
  BY DEF AbstractStore!Live, Records
<1>2. AbstractStore!Add(K, u)
  BY <1>1 DEF AbstractStore!Add, AbstractStore!Taken, Taken
<1> QED  BY <1>2 DEF AbstractStore!Next

LEMMA StoreAdds ==
  ASSUME NobodyOverwrites, NEW t \in Threads, IInv, IInv', Store(t)
  PROVE  AbstractStore!Next \/ UNCHANGED Committed
<1> DEFINE url == req[t].urls[1]
<1>1. pc[t] = "locked" /\ Committed = base /\ db = base /\ req[t] \in Requests /\ url \in Url
  BY Inside, UrlsAreUrls DEF Store, IInv, LockInv, Urls
<1>2. Committed' = db'
  BY DEF Store, Return, Committed, Free
<1>3. CASE UNCHANGED db
  BY <1>1, <1>2, <1>3
<1>4. CASE (Taken(db, url.short) => req[t].overwrite) /\ db' = PutAll(db, <<url>>)
  <2>1. ~Taken(Committed, url.short) /\ {url.short} \in SUBSET Keys /\ url.user \in Users
    BY <1>1, <1>4 DEF NobodyOverwrites, Url
  <2>2. DOMAIN db \subseteq Keys /\ db \in [DOMAIN db -> Records]
    BY DEF IInv, TypeOK
  <2>3. /\ DOMAIN db' = DOMAIN db \cup {url.short} /\ db' \in [DOMAIN db' -> Records]
        /\ ~db'[url.short].deleted /\ db'[url.short].user = url.user
        /\ \A k \in DOMAIN db : k # url.short => db'[k] = db[k]
    <3> HIDE DEF url
    <3> QED  BY <1>1, <1>4, <2>2, PutType
  <2> HIDE DEF url
  <2> QED  BY <1>1, <1>2, <2>1, <2>3, Adds
<1> QED  BY <1>3, <1>4 DEF Store, Write

LEMMA ElementsAreUrls ==
  ASSUME NEW urls \in Seq(Url), NEW i \in DOMAIN urls
  PROVE  i \in 1..Len(urls) /\ urls[i].short \in Keys /\ urls[i].user \in Users
<1>1. i \in 1..Len(urls) /\ urls[i] \in Url
  OBVIOUS
<1> QED  BY <1>1 DEF Url

LEMMA WriteDoneAddsOrRemoves ==
  ASSUME NEW t \in Threads, IInv, IInv', WriteDone(t)
  PROVE  AbstractStore!Next \/ UNCHANGED Committed
<1>1. /\ pc[t] = "write" /\ Committed = base /\ db' = db /\ Committed' = db
  BY Inside, ThreadsAssumption DEF WriteDone, Return, Committed, Free, IInv
<1>2. /\ DOMAIN db \subseteq Keys /\ db \in [DOMAIN db -> Records]
      /\ DOMAIN base \subseteq Keys /\ base \in [DOMAIN base -> Records]
  BY DEF IInv, TypeOK, LockInv
<1>3. CASE req[t].kind = "batch"
  <2>1. HasWritten(t)
    BY <1>1, <1>3 DEF IInv, BatchInv
  <2>2. CASE Urls(t) = <<>>
    <3>1. Written(t) = {}
      BY <2>2 DEF Written
    <3>2. DOMAIN db = DOMAIN base /\ \A k \in DOMAIN base : db[k] = base[k]
      BY <2>1, <3>1 DEF HasWritten
    <3> QED  BY <1>1, <1>2, <3>2
  <2>3. CASE Urls(t) # <<>>
    <3> DEFINE u == Urls(t)[1].user
    <3>1. /\ Urls(t) \in Seq(Url) /\ next[t] \in Nat /\ next[t] > Len(Urls(t))
          /\ \A i, j \in DOMAIN Urls(t) : Urls(t)[i].user = Urls(t)[j].user
      BY <1>1, UrlsAreUrls DEF WriteDone, IInv, TypeOK, Urls
    <3>2. 1 \in DOMAIN Urls(t) /\ u \in Users
      <4>1. 1 \in DOMAIN Urls(t)
        BY <2>3, <3>1
      <4> QED  BY <3>1, <4>1, ElementsAreUrls
    <3>3. \A i \in DOMAIN Urls(t) : i < next[t] /\ Urls(t)[i].short \in Keys
      BY <3>1, ElementsAreUrls
    <3>4. Written(t) \in SUBSET Keys /\ Written(t) # {}
      BY <3>2, <3>3 DEF Written
    <3>5. \A k \in Written(t) : /\ ~Taken(base, k) /\ db[k] \in Records
                                /\ ~db[k].deleted /\ db[k].user = u
      <4>1. \A k \in Written(t) : k \in DOMAIN db /\ \E i \in DOMAIN Urls(t) : k = Urls(t)[i].short
        BY <2>1 DEF HasWritten, Written
      <4> QED  BY <1>2, <2>1, <3>1, <3>2, <4>1 DEF HasWritten
    <3>6. DOMAIN db = DOMAIN base \cup Written(t)
          /\ \A k \in DOMAIN base \ Written(t) : db[k] = base[k]
      BY <2>1 DEF HasWritten
    <3> HIDE DEF u
    <3> QED  BY <1>1, <3>2, <3>4, <3>5, <3>6, Adds
  <2> QED  BY <2>2, <2>3
<1>4. CASE req[t].kind = "delete"
  <2> DEFINE K == {k \in DOMAIN base : db[k] # base[k]}
  <2>1. DOMAIN db = DOMAIN base
        /\ \A k \in DOMAIN base : db[k] = base[k] \/ db[k] = [base[k] EXCEPT !.deleted = TRUE]
    BY <1>1, <1>4 DEF IInv, DeleteInv
  <2>2. db = [k \in DOMAIN base |-> IF k \in K THEN [base[k] EXCEPT !.deleted = TRUE] ELSE base[k]]
    BY <1>2, <2>1
  <2>3. K \in SUBSET Keys /\ K \subseteq DOMAIN base
    BY <1>2
  <2> HIDE DEF K
  <2>4. AbstractStore!Remove(K)
    BY <1>1, <2>2, <2>3 DEF AbstractStore!Remove
  <2> QED  BY <2>3, <2>4 DEF AbstractStore!Next
<1> QED  BY <1>1, <1>3, <1>4 DEF IInv, LockInv

\* Between critical sections the store is an abstract url store: what nobody
\* overwrites stays until its owner deletes it.
THEOREM ImplementsUrlStore ==
  ASSUME NobodyOverwrites
  PROVE  Spec => UrlStoreSpec
<1>1. Init => AbstractStore!Init
  BY DEF Init, AbstractStore!Init, AbstractStore!EmptyMap, EmptyMap, Committed
<1>2. IInv /\ [Next]_vars => [AbstractStore!Next]_Committed
  <2> SUFFICES ASSUME IInv, [Next]_vars
               PROVE  AbstractStore!Next \/ UNCHANGED Committed
    OBVIOUS
  <2>1. CASE UNCHANGED vars
    BY <2>1 DEF vars, Committed
  <2>2. ASSUME NEW t \in Threads, Step(t) PROVE AbstractStore!Next \/ UNCHANGED Committed
    BY <2>2, NextIInv, Unseen, StoreAdds, WriteDoneAddsOrRemoves DEF Step
  <2> QED  BY <2>1, <2>2 DEF Next
<1> QED  BY Inductive, <1>1, <1>2, PTL DEF Spec, UrlStoreSpec, AbstractStore!Spec
=============================================================================
