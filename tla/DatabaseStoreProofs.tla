------------------------ MODULE DatabaseStoreProofs ------------------------
(***************************************************************************)
(* Proofs about DatabaseStore, for any calls, requests and times: what a   *)
(* store tells is true whatever came between its statements, and a path    *)
(* keeps its url until a store with the flag overwrites that very path.    *)
(* The inductive invariant says what an overwriting store knows when it    *)
(* sends its update.                                                       *)
(***************************************************************************)
EXTENDS DatabaseStore, TLAPS

StorePCs == {"insert", "conflict", "lookup", "update"}

Shape ==
  /\ rows = [h \in DOMAIN rows |->
               [orig |-> rows[h].orig, user |-> rows[h].user,
                deleted |-> rows[h].deleted, ts |-> rows[h].ts]]
  /\ faults \in Nat
  /\ pc = [c \in Calls |-> pc[c]] /\ req = [c \in Calls |-> req[c]]
  /\ ans = [c \in Calls |-> ans[c]]

\* Where a call is fits what it asks.
CallInv ==
  \A c \in Calls :
    /\ pc[c] = "idle" => req[c].kind # "store"
    /\ pc[c] # "idle" => req[c] \in Requests[c]
    /\ pc[c] # "idle" /\ req[c].kind = "store" => pc[c] \in StorePCs \cup {"done"}
    /\ pc[c] \in StorePCs => req[c].kind = "store"

\* An update is sent for a path that another url has, unless the lookup failed.
UpdateInv ==
  faults = 0 => \A c \in Calls : pc[c] = "update" =>
    /\ Url(c).short \in DOMAIN rows
    /\ rows[Url(c).short].orig # Url(c).orig

IInv == Shape /\ CallInv /\ UpdateInv

(***************************************************************************)
(* What the statements do to the table.                                    *)
(***************************************************************************)

IsTable(t) ==
  t = [h \in DOMAIN t |-> [orig |-> t[h].orig, user |-> t[h].user,
                           deleted |-> t[h].deleted, ts |-> t[h].ts]]

KeepsPaths(t) == \A h \in DOMAIN rows : h \in DOMAIN t /\ t[h].orig = rows[h].orig

LEMMA InsertKeeps ==
  ASSUME Shape, NEW url, ~HashTaken(rows, url)
  PROVE  LET t == Insert(rows, url, clock) IN
           /\ IsTable(t) /\ KeepsPaths(t)
           /\ url.short \in DOMAIN t /\ t[url.short].orig = url.orig
<1> DEFINE t == Insert(rows, url, clock)
           D == DOMAIN rows \cup {url.short}
<1>1. t = [h \in D |-> IF h = url.short THEN Row(url, clock) ELSE rows[h]]
  BY DEF Insert
<1>2. \A h \in DOMAIN rows : rows[h] = [orig |-> rows[h].orig, user |-> rows[h].user,
                                        deleted |-> rows[h].deleted, ts |-> rows[h].ts]
  BY DEF Shape
<1> HIDE DEF t
<1>3. DOMAIN t = D /\ t = [h \in D |-> t[h]]
  BY <1>1
<1>4. \A h \in D : t[h] = [orig |-> t[h].orig, user |-> t[h].user,
                           deleted |-> t[h].deleted, ts |-> t[h].ts]
  BY <1>1, <1>2 DEF Row
<1>5. IsTable(t)
  BY <1>3, <1>4 DEF IsTable
<1>6. KeepsPaths(t) /\ url.short \in DOMAIN t /\ t[url.short].orig = url.orig
  BY <1>1, <1>3 DEF KeepsPaths, HashTaken, Row
<1> QED  BY <1>5, <1>6 DEF t

LEMMA InsertBatchKeeps ==
  ASSUME Shape, NEW urls
  PROVE  IsTable(InsertBatch(rows, urls, clock)) /\ KeepsPaths(InsertBatch(rows, urls, clock))
<1> DEFINE t == InsertBatch(rows, urls, clock)
           D == DOMAIN rows \cup {urls[i].short : i \in DOMAIN urls}
           New(h) == CHOOSE url \in {urls[i] : i \in DOMAIN urls} : url.short = h
<1>1. t = [h \in D |-> IF h \in DOMAIN rows THEN rows[h] ELSE Row(New(h), clock)]
  BY DEF InsertBatch
<1>2. \A h \in DOMAIN rows : rows[h] = [orig |-> rows[h].orig, user |-> rows[h].user,
                                        deleted |-> rows[h].deleted, ts |-> rows[h].ts]
  BY DEF Shape
<1>3. DOMAIN rows \subseteq D
  OBVIOUS
<1> HIDE DEF t, New, D
<1>4. DOMAIN t = D /\ t = [h \in D |-> t[h]]
  BY <1>1
<1>5. \A h \in D : t[h] = [orig |-> t[h].orig, user |-> t[h].user,
                           deleted |-> t[h].deleted, ts |-> t[h].ts]
  BY <1>1, <1>2 DEF Row
<1>6. IsTable(t)
  BY <1>4, <1>5 DEF IsTable
<1>7. KeepsPaths(t)
  BY <1>1, <1>3, <1>4 DEF KeepsPaths
<1> QED  BY <1>6, <1>7 DEF t

LEMMA Marked ==
  ASSUME NEW o, NEW u, NEW d, NEW s
  PROVE  [[orig |-> o, user |-> u, deleted |-> d, ts |-> s] EXCEPT !.deleted = TRUE]
           = [orig |-> o, user |-> u, deleted |-> TRUE, ts |-> s]
<1>1. PICK v : v = TRUE
  OBVIOUS
<1>2. [[orig |-> o, user |-> u, deleted |-> d, ts |-> s] EXCEPT !.deleted = v]
        = [orig |-> o, user |-> u, deleted |-> v, ts |-> s]
  OBVIOUS
<1> QED  BY <1>1, <1>2, Zenon

LEMMA DeleteKeeps ==
  ASSUME Shape, NEW es
  PROVE  IsTable(DeleteBatch(rows, es)) /\ KeepsPaths(DeleteBatch(rows, es))
<1> DEFINE t == DeleteBatch(rows, es)
<1>1. t = [h \in DOMAIN rows |-> IF \E i \in DOMAIN es : Deletes(es[i], rows, h)
                                 THEN [rows[h] EXCEPT !.deleted = TRUE] ELSE rows[h]]
  BY DEF DeleteBatch
<1>2. \A h \in DOMAIN rows : rows[h] = [orig |-> rows[h].orig, user |-> rows[h].user,
                                        deleted |-> rows[h].deleted, ts |-> rows[h].ts]
  BY DEF Shape
<1>3. \A h \in DOMAIN rows : [rows[h] EXCEPT !.deleted = TRUE]
                               = [orig |-> rows[h].orig, user |-> rows[h].user,
                                  deleted |-> TRUE, ts |-> rows[h].ts]
  BY <1>2, Marked
<1> HIDE DEF t
<1>4. DOMAIN t = DOMAIN rows /\ t = [h \in DOMAIN rows |-> t[h]]
  BY <1>1
<1>5. \A h \in DOMAIN rows : /\ t[h] = [orig |-> t[h].orig, user |-> t[h].user,
                                        deleted |-> t[h].deleted, ts |-> t[h].ts]
                             /\ t[h].orig = rows[h].orig
  BY <1>1, <1>2, <1>3
<1>6. IsTable(t)
  BY <1>4, <1>5 DEF IsTable
<1>7. KeepsPaths(t)
  BY <1>4, <1>5 DEF KeepsPaths
<1> QED  BY <1>6, <1>7 DEF t

LEMMA MoveKeeps ==
  ASSUME Shape, NEW h \in DOMAIN rows, NEW url, rows[h].orig = url.orig
  PROVE  LET t == Move(h, url) IN
           IsTable(t) /\ url.short \in DOMAIN t /\ t[url.short].orig = url.orig
<1> DEFINE t == Move(h, url)
           D == (DOMAIN rows \ {h}) \cup {url.short}
<1>1. t = [k \in D |-> IF k = url.short THEN rows[h] ELSE rows[k]]
  BY DEF Move
<1>2. \A k \in DOMAIN rows : rows[k] = [orig |-> rows[k].orig, user |-> rows[k].user,
                                        deleted |-> rows[k].deleted, ts |-> rows[k].ts]
  BY DEF Shape
<1> HIDE DEF t
<1>3. DOMAIN t = D /\ t = [k \in D |-> t[k]]
  BY <1>1
<1>4. \A k \in D : t[k] = [orig |-> t[k].orig, user |-> t[k].user,
                           deleted |-> t[k].deleted, ts |-> t[k].ts]
  BY <1>1, <1>2
<1>5. IsTable(t)
  BY <1>3, <1>4 DEF IsTable
<1>6. url.short \in DOMAIN t /\ t[url.short].orig = url.orig
  BY <1>1, <1>3
<1> QED  BY <1>5, <1>6 DEF t

LEMMA Stays == ASSUME Shape, rows' = rows PROVE IsTable(rows') /\ KeepsPaths(rows')
  BY DEF Shape, IsTable, KeepsPaths

(***************************************************************************)
(* The steps of a call.                                                    *)
(***************************************************************************)

LEMMA FaultCounts ==
  ASSUME Shape, NoFault \/ Fault
  PROVE  faults' \in Nat /\ (Fault => faults' # 0) /\ (faults' = 0 => faults = 0)
<1>1. faults \in Nat /\ (faults' = faults \/ faults' = faults + 1) /\ (Fault => faults' = faults + 1)
  BY DEF Shape, NoFault, Fault
<1> QED  BY <1>1

\* What a step does to the table; only an update after a failed lookup takes a path.
LEMMA InsertStep ==
  ASSUME IInv, NEW c \in Calls, StoreInsert(c)
  PROVE  IsTable(rows') /\ KeepsPaths(rows')
<1>1. rows' = rows \/ (~HashTaken(rows, Url(c)) /\ rows' = Insert(rows, Url(c), clock))
  BY DEF StoreInsert
<1> QED  BY <1>1, Stays, InsertKeeps DEF IInv

LEMMA BatchStep ==
  ASSUME IInv, NEW c \in Calls, StoreBatch(c)
  PROVE  IsTable(rows') /\ KeepsPaths(rows')
<1>1. rows' = rows \/ rows' = InsertBatch(rows, req[c].urls, clock)
  BY DEF StoreBatch
<1> QED  BY <1>1, Stays, InsertBatchKeeps DEF IInv

LEMMA DeleteStep ==
  ASSUME IInv, NEW c \in Calls, DeleteUserURLs(c)
  PROVE  IsTable(rows') /\ KeepsPaths(rows')
<1>1. rows' = rows \/ rows' = DeleteBatch(rows, Stamped(c))
  BY DEF DeleteUserURLs
<1> QED  BY <1>1, Stays, DeleteKeeps DEF IInv

LEMMA UpdateStep ==
  ASSUME IInv, NEW c \in Calls, StoreUpdate(c)
  PROVE  IsTable(rows') /\ (faults' = 0 => KeepsPaths(rows'))
<1> DEFINE hs == {h \in DOMAIN rows : rows[h].orig = Url(c).orig}
           free == DOMAIN rows \cap {Url(c).short} \subseteq hs
<1>1. rows' = rows \/ (free /\ \E h \in hs : rows' = Move(h, Url(c)))
  BY DEF StoreUpdate
<1>2. CASE rows' = rows
  BY <1>2, Stays DEF IInv
<1>3. CASE free /\ \E h \in hs : rows' = Move(h, Url(c))
  <2>1. IsTable(rows')
    BY <1>3, MoveKeeps DEF IInv
  <2>2. faults' # 0
    <3>1. pc[c] = "update" /\ (NoFault \/ Fault)
      BY DEF StoreUpdate
    <3>2. faults # 0
      BY <1>3, <3>1 DEF IInv, UpdateInv
    <3> QED  BY <3>1, <3>2, FaultCounts DEF IInv
  <2> QED  BY <2>1, <2>2
<1> QED  BY <1>1, <1>2, <1>3

LEMMA StepOfTable ==
  ASSUME IInv, NEW c \in Calls, Step(c)
  PROVE  IsTable(rows') /\ (faults' = 0 => KeepsPaths(rows'))
<1>1. CASE StoreInsert(c) \/ StoreBatch(c) \/ DeleteUserURLs(c) \/ StoreUpdate(c)
  BY <1>1, InsertStep, BatchStep, DeleteStep, UpdateStep
<1>2. CASE Call(c) \/ StoreConflict(c) \/ StoreLookup(c) \/ Get(c) \/ ListUserURLs(c) \/ Stats(c)
  <2>1. rows' = rows
    BY <1>2 DEF Call, StoreConflict, StoreLookup, Get, ListUserURLs, Stats
  <2> QED  BY <2>1, Stays DEF IInv
<1> QED  BY <1>1, <1>2 DEF Step

\* A step leaves the other calls alone, and goes where its kind of call goes.
Others(c) ==
  /\ pc' = [pc EXCEPT ![c] = pc'[c]] /\ req' = [req EXCEPT ![c] = req'[c]]
  /\ ans' = [ans EXCEPT ![c] = ans'[c]]

LEMMA Moves ==
  ASSUME Shape, NEW c \in Calls, NEW at, Goto(c, at) \/ (\E err, val : Return(c, err, val) /\ at = "done")
  PROVE  /\ pc' = [pc EXCEPT ![c] = at] /\ pc'[c] = at /\ pc' = [d \in Calls |-> pc'[d]]
         /\ ans' = [ans EXCEPT ![c] = ans'[c]] /\ ans' = [d \in Calls |-> ans'[d]]
         /\ \A d \in Calls : d # c => pc'[d] = pc[d] /\ ans'[d] = ans[d]
<1>1. pc = [d \in Calls |-> pc[d]] /\ ans = [d \in Calls |-> ans[d]]
  BY DEF Shape
<1>2. pc' = [pc EXCEPT ![c] = at]
  BY DEF Goto, Return
<1>3. ans' = ans \/ \E v : ans' = [ans EXCEPT ![c] = v]
  BY DEF Goto, Return
<1>4. /\ ans' = [ans EXCEPT ![c] = ans'[c]] /\ ans' = [d \in Calls |-> ans'[d]]
      /\ \A d \in Calls : d # c => ans'[d] = ans[d]
  BY <1>1, <1>3
<1> QED  BY <1>1, <1>2, <1>4

\* The call comes in.
LEMMA CallStep ==
  ASSUME IInv, NEW c \in Calls, Call(c)
  PROVE  Shape' /\ CallInv' /\ UpdateInv'
<1>1. PICK r \in Requests[c], at \in {"lookup", "insert"} \cup Kinds :
        /\ req' = [req EXCEPT ![c] = r] /\ Goto(c, at)
        /\ at = (IF r.kind # "store" THEN r.kind ELSE IF r.overwrite THEN "lookup" ELSE "insert")
  <2>1. PICK r \in Requests[c] :
          /\ req' = [req EXCEPT ![c] = r]
          /\ Goto(c, IF r.kind # "store" THEN r.kind
                     ELSE IF r.overwrite THEN "lookup" ELSE "insert")
    BY DEF Call
  <2>2. r.kind \in Kinds
    BY RequestsAssumption
  <2> QED  BY <2>1, <2>2
<1>2. r.kind \in Kinds /\ (r.kind = "store" <=> at \in {"lookup", "insert"})
  BY <1>1, RequestsAssumption DEF Kinds
<1>3. /\ pc'[c] = at /\ pc' = [d \in Calls |-> pc'[d]] /\ ans' = [d \in Calls |-> ans'[d]]
      /\ \A d \in Calls : d # c => pc'[d] = pc[d]
  BY <1>1, Moves DEF IInv
<1>4. /\ req'[c] = r /\ req' = [d \in Calls |-> req'[d]]
      /\ \A d \in Calls : d # c => req'[d] = req[d]
  BY <1>1 DEF IInv, Shape
<1>5. UNCHANGED <<rows, faults>>
  BY DEF Call
<1>6. Shape'
  BY <1>3, <1>4, <1>5 DEF IInv, Shape
<1>7. ASSUME NEW d \in Calls
      PROVE  /\ pc'[d] = "idle" => req'[d].kind # "store"
             /\ pc'[d] # "idle" => req'[d] \in Requests[d]
             /\ pc'[d] # "idle" /\ req'[d].kind = "store" => pc'[d] \in StorePCs \cup {"done"}
             /\ pc'[d] \in StorePCs => req'[d].kind = "store"
  <2>1. CASE d = c
    BY <1>1, <1>2, <1>3, <1>4, <2>1 DEF Kinds, StorePCs
  <2>2. CASE d # c
    BY <1>3, <1>4, <2>2 DEF IInv, CallInv
  <2> QED  BY <2>1, <2>2
<1>8. CallInv'
  BY <1>7 DEF CallInv
<1>9. UpdateInv'
  <2>1. pc'[c] # "update"
    BY <1>1, <1>3 DEF Kinds
  <2> QED  BY <1>3, <1>4, <1>5, <2>1 DEF IInv, UpdateInv, Url
<1> QED  BY <1>6, <1>8, <1>9

\* A statement that is sent goes on with a statement of the same store, or returns.
LEMMA Goes ==
  ASSUME IInv, NEW c \in Calls, Step(c), ~Call(c)
  PROVE  /\ req' = req /\ pc[c] # "idle" /\ (NoFault \/ Fault)
         /\ \/ \E err, val : Return(c, err, val)
            \/ /\ pc[c] \in StorePCs
               /\ \/ Goto(c, "insert") \/ Goto(c, "conflict")
                  \/ Goto(c, "update") /\ StoreLookup(c)
<1>1. CASE StoreInsert(c) \/ StoreLookup(c)
  BY <1>1 DEF StoreInsert, StoreLookup, StorePCs
<1>2. CASE StoreConflict(c) \/ StoreUpdate(c)
  BY <1>2 DEF StoreConflict, StoreUpdate
<1>3. CASE StoreBatch(c) \/ Get(c) \/ ListUserURLs(c) \/ Stats(c) \/ DeleteUserURLs(c)
  BY <1>3 DEF StoreBatch, Get, ListUserURLs, Stats, DeleteUserURLs
<1> QED  BY <1>1, <1>2, <1>3 DEF Step

\* Whoever goes on to an update, with an answer to its lookup, has seen another url.
LEMMA LookupSees ==
  ASSUME IInv, NEW c \in Calls, StoreLookup(c), pc'[c] = "update", faults' = 0
  PROVE  /\ rows' = rows /\ Url(c).short \in DOMAIN rows
         /\ rows[Url(c).short].orig # Url(c).orig
<1> DEFINE orig == GetOrig(rows, Url(c).short)
<1>1. \/ orig \notin {"not found", "deleted", Url(c).orig}
      \/ Fault \/ Goto(c, "insert") \/ \E err, val : Return(c, err, val)
  BY DEF StoreLookup
<1>2. ~Goto(c, "insert") /\ ~\E err, val : Return(c, err, val)
  BY Moves DEF IInv
<1>3. ~Fault /\ rows' = rows
  BY FaultCounts DEF IInv, StoreLookup
<1>4. orig \notin {"not found", "deleted", Url(c).orig}
  BY <1>1, <1>2, <1>3
<1> QED  BY <1>3, <1>4 DEF GetOrig

LEMMA StatementStep ==
  ASSUME IInv, NEW c \in Calls, Step(c), ~Call(c)
  PROVE  Shape' /\ CallInv' /\ UpdateInv'
<1>1. PICK at : /\ Goto(c, at) \/ (\E err, val : Return(c, err, val) /\ at = "done")
                /\ at = "done" \/ (pc[c] \in StorePCs /\ at \in StorePCs)
                /\ at = "update" => StoreLookup(c)
  <2>1. CASE \E err, val : Return(c, err, val)
    BY <2>1
  <2>2. CASE pc[c] \in StorePCs /\ Goto(c, "insert")
    BY <2>2 DEF StorePCs
  <2>3. CASE pc[c] \in StorePCs /\ Goto(c, "conflict")
    BY <2>3 DEF StorePCs
  <2>4. CASE pc[c] \in StorePCs /\ Goto(c, "update") /\ StoreLookup(c)
    BY <2>4 DEF StorePCs
  <2> QED  BY Goes, <2>1, <2>2, <2>3, <2>4
<1>2. req' = req /\ pc[c] # "idle" /\ faults' \in Nat /\ (faults' = 0 => faults = 0)
  BY Goes, FaultCounts DEF IInv
<1>3. /\ pc'[c] = at /\ pc' = [d \in Calls |-> pc'[d]] /\ ans' = [d \in Calls |-> ans'[d]]
      /\ \A d \in Calls : d # c => pc'[d] = pc[d]
  BY <1>1, Moves DEF IInv
<1>4. IsTable(rows') /\ (faults' = 0 => KeepsPaths(rows'))
  BY StepOfTable
<1>5. Shape'
  BY <1>2, <1>3, <1>4 DEF IInv, Shape, IsTable
<1>6. ASSUME NEW d \in Calls
      PROVE  /\ pc'[d] = "idle" => req'[d].kind # "store"
             /\ pc'[d] # "idle" => req'[d] \in Requests[d]
             /\ pc'[d] # "idle" /\ req'[d].kind = "store" => pc'[d] \in StorePCs \cup {"done"}
             /\ pc'[d] \in StorePCs => req'[d].kind = "store"
  <2>1. CASE d = c
    BY <1>1, <1>2, <1>3, <2>1 DEF StorePCs, IInv, CallInv
  <2>2. CASE d # c
    BY <1>2, <1>3, <2>2 DEF IInv, CallInv
  <2> QED  BY <2>1, <2>2
<1>7. CallInv'
  BY <1>6 DEF CallInv
<1>8. ASSUME faults' = 0, NEW d \in Calls, pc'[d] = "update"
      PROVE  /\ req'[d].urls[1].short \in DOMAIN rows'
             /\ rows'[req'[d].urls[1].short].orig # req'[d].urls[1].orig
  <2>1. CASE d = c
    BY <1>1, <1>2, <1>3, <1>8, <2>1, LookupSees DEF Url
  <2>2. CASE d # c
    BY <1>2, <1>3, <1>4, <1>8, <2>2 DEF IInv, UpdateInv, KeepsPaths, Url
  <2> QED  BY <2>1, <2>2
<1>9. UpdateInv'
  BY <1>8 DEF UpdateInv, Url
<1> QED  BY <1>5, <1>7, <1>9

LEMMA InitIInv == Init => IInv
<1> SUFFICES ASSUME Init PROVE IInv
  OBVIOUS
<1>1. Shape
  BY DEF Init, Shape, NoRows
<1>2. CallInv /\ UpdateInv
  BY DEF Init, CallInv, UpdateInv, NoRequest, StorePCs
<1> QED  BY <1>1, <1>2 DEF IInv

LEMMA NextIInv == IInv /\ [Next]_vars => IInv'
<1> SUFFICES ASSUME IInv, [Next]_vars PROVE IInv'
  OBVIOUS
<1>1. CASE UNCHANGED vars \/ Tick
  <2>1. UNCHANGED <<rows, faults, pc, req, ans>>
    BY <1>1 DEF vars, Tick
  <2> QED  BY <2>1 DEF IInv, Shape, CallInv, UpdateInv, Url
<1>2. ASSUME NEW c \in Calls, Step(c) PROVE IInv'
  BY <1>2, CallStep, StatementStep DEF IInv
<1> QED  BY <1>1, <1>2 DEF Next

\* The inductive invariant behind the theorems below.
THEOREM Inductive == Spec => []IInv
  BY InitIInv, NextIInv, PTL DEF Spec

\* While every statement gets its answer, only a store with the flag that names a
\* path changes where it leads.
THEOREM OthersArePreserved == Spec => OnlyOverwritten
<1>1. IInv /\ [Next]_vars => (faults' = 0 => \A h \in DOMAIN rows :
                               \/ h \in DOMAIN rows' /\ rows'[h].orig = rows[h].orig
                               \/ \E c \in Calls : Overwrites(c, h))
  <2> SUFFICES ASSUME IInv, [Next]_vars, faults' = 0 PROVE KeepsPaths(rows')
    BY DEF KeepsPaths
  <2>1. CASE UNCHANGED vars \/ Tick
    <3>1. rows' = rows
      BY <2>1 DEF vars, Tick
    <3> QED  BY <3>1, Stays DEF IInv
  <2>2. ASSUME NEW c \in Calls, Step(c) PROVE KeepsPaths(rows')
    BY <2>2, StepOfTable
  <2> QED  BY <2>1, <2>2 DEF Next
<1> QED  BY Inductive, <1>1, PTL DEF Spec, OnlyOverwritten

(***************************************************************************)
(* What the statements of a store tell.                                    *)
(***************************************************************************)

LEMMA Told ==
  ASSUME IInv, NEW c \in Calls, NEW err, NEW val, Return(c, err, val)
  PROVE  ans'[c].err = err /\ ans'[c].val = val
<1>1. ans = [d \in Calls |-> ans[d]] /\ ans' = [ans EXCEPT ![c] = [err |-> err, val |-> val]]
  BY DEF IInv, Shape, Return
<1>2. ans'[c] = [err |-> err, val |-> val]
  BY <1>1
<1> QED  BY <1>2

LEMMA NotDone ==
  ASSUME IInv, NEW c \in Calls, NEW at, at # "done", Goto(c, at)
  PROVE  pc'[c] # "done"
  BY Moves DEF IInv

Leads(c) == Url(c).short \in DOMAIN rows' /\ rows'[Url(c).short].orig = Url(c).orig

TellsTruth(c) ==
  pc'[c] = "done" =>
    /\ ans'[c].err = "ok" => Leads(c)
    /\ ans'[c].err = "conflict" => /\ rows'[ans'[c].val].orig = Url(c).orig
                                   /\ ~rows'[ans'[c].val].deleted

LEMMA InsertTells ==
  ASSUME IInv, NEW c \in Calls, StoreInsert(c)
  PROVE  TellsTruth(c)
<1>1. CASE ~HashTaken(rows, Url(c)) /\ rows' = Insert(rows, Url(c), clock) /\ Return(c, "ok", "none")
  <2>1. Leads(c)
    BY <1>1, InsertKeeps DEF IInv, Leads
  <2>2. ans'[c].err = "ok"
    BY <1>1, Told
  <2> QED  BY <2>1, <2>2 DEF TellsTruth
<1>2. CASE Return(c, "already exists", "none") \/ Return(c, "failed", "none")
  <2>1. ans'[c].err \in {"already exists", "failed"}
    BY <1>2, Told
  <2> QED  BY <2>1 DEF TellsTruth
<1>3. CASE Goto(c, "conflict")
  BY <1>3, NotDone DEF TellsTruth
<1> QED  BY <1>1, <1>2, <1>3 DEF StoreInsert

LEMMA ConflictTells ==
  ASSUME IInv, NEW c \in Calls, StoreConflict(c)
  PROVE  TellsTruth(c)
<1>1. ASSUME NEW h \in LiveHashes(rows, Url(c).orig), Return(c, "conflict", h) PROVE TellsTruth(c)
  <2>1. ans'[c].err = "conflict" /\ ans'[c].val = h /\ rows' = rows
    BY <1>1, Told DEF StoreConflict
  <2>2. rows[h].orig = Url(c).orig /\ ~rows[h].deleted
    BY DEF LiveHashes
  <2> QED  BY <2>1, <2>2 DEF TellsTruth
<1>2. CASE Return(c, "not found", "none") \/ Return(c, "failed", "none")
  <2>1. ans'[c].err \in {"not found", "failed"}
    BY <1>2, Told
  <2> QED  BY <2>1 DEF TellsTruth
<1> QED  BY <1>1, <1>2 DEF StoreConflict

LEMMA LookupTells ==
  ASSUME IInv, NEW c \in Calls, StoreLookup(c)
  PROVE  TellsTruth(c)
<1> DEFINE orig == GetOrig(rows, Url(c).short)
<1>1. CASE Return(c, "deleted", "none")
  <2>1. ans'[c].err = "deleted"
    BY <1>1, Told
  <2> QED  BY <2>1 DEF TellsTruth
<1>2. CASE orig = Url(c).orig /\ Return(c, "ok", "none")
  <2>1. req[c] \in Requests[c] /\ req[c].kind = "store" /\ rows' = rows
    BY DEF IInv, CallInv, StoreLookup, StorePCs
  <2>2. Url(c).orig \notin {"not found", "deleted"}
    BY <2>1, RequestsAssumption DEF Url
  <2>3. Leads(c)
    BY <1>2, <2>1, <2>2 DEF GetOrig, Leads
  <2>4. ans'[c].err = "ok"
    BY <1>2, Told
  <2> QED  BY <2>3, <2>4 DEF TellsTruth
<1>3. CASE Goto(c, "insert") \/ Goto(c, "update")
  BY <1>3, NotDone DEF TellsTruth
<1> QED  BY <1>1, <1>2, <1>3 DEF StoreLookup

LEMMA UpdateTells ==
  ASSUME IInv, NEW c \in Calls, StoreUpdate(c)
  PROVE  TellsTruth(c)
<1>1. ASSUME NEW h \in DOMAIN rows, rows[h].orig = Url(c).orig,
             rows' = Move(h, Url(c)), Return(c, "ok", "none")
      PROVE  TellsTruth(c)
  <2>1. Leads(c)
    BY <1>1, MoveKeeps DEF IInv, Leads
  <2>2. ans'[c].err = "ok"
    BY <1>1, Told
  <2> QED  BY <2>1, <2>2 DEF TellsTruth
<1>2. CASE Return(c, "no row", "none") \/ Return(c, "failed", "none")
  <2>1. ans'[c].err \in {"no row", "failed"}
    BY <1>2, Told
  <2> QED  BY <2>1 DEF TellsTruth
<1> QED  BY <1>1, <1>2 DEF StoreUpdate

\* What a store tells is true, whatever came between its statements.
THEOREM StoresTellTruth == Spec => StoreTellsPath
<1>1. ASSUME IInv, [Next]_vars, NEW c \in Calls, req[c].kind = "store",
             pc[c] # "done", pc'[c] = "done"
      PROVE  TellsTruth(c)
  <2>1. PICK d \in Calls : Step(d)
    <3>1. pc' # pc
      BY <1>1
    <3> QED  BY <1>1, <3>1 DEF Next, Tick, vars
  <2>2. c = d
    <3>1. CASE Call(d)
      <4>1. PICK at : Goto(d, at)
        BY <3>1 DEF Call
      <4> QED  BY <1>1, <4>1, Moves DEF IInv
    <3>2. CASE ~Call(d)
      <4>1. PICK at : Goto(d, at) \/ (\E err, val : Return(d, err, val) /\ at = "done")
        BY <1>1, <2>1, <3>2, Goes
      <4> QED  BY <1>1, <4>1, Moves DEF IInv
    <3> QED  BY <3>1, <3>2
  <2>3. pc[c] \in StorePCs
    BY <1>1 DEF IInv, CallInv
  <2>4. StoreInsert(c) \/ StoreConflict(c) \/ StoreLookup(c) \/ StoreUpdate(c)
    BY <2>1, <2>2, <2>3 DEF Step, Call, StoreBatch, Get, ListUserURLs, Stats, DeleteUserURLs, StorePCs
  <2> QED  BY <1>1, <2>4, InsertTells, ConflictTells, LookupTells, UpdateTells
<1>2. IInv /\ [Next]_vars =>
        \A c \in Calls : req[c].kind = "store" =>
          /\ Tells(c, "ok") => /\ Url(c).short \in DOMAIN rows'
                               /\ rows'[Url(c).short].orig = Url(c).orig
          /\ Tells(c, "conflict") => /\ rows'[ans'[c].val].orig = Url(c).orig
                                     /\ ~rows'[ans'[c].val].deleted
  BY <1>1 DEF Tells, TellsTruth, Leads
<1> QED  BY Inductive, <1>2, PTL DEF Spec, StoreTellsPath
=============================================================================
