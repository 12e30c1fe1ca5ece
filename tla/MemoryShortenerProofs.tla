------------------------ MODULE MemoryShortenerProofs ------------------------
(***************************************************************************)
(* Proofs about MemoryShortener for any calls, requests, paths and users:  *)
(* what an answer leads to although deleted paths are given away again,    *)
(* whom a deletion hits and that it does, and that the map is an abstract  *)
(* url store. The inductive invariant adds what the answers need: that a   *)
(* record answered for is live until its user's deletion is handed over.   *)
(***************************************************************************)
EXTENDS MemoryShortener, FiniteSetTheorems, WellFoundedInduction, TLAPS

Records == [orig : Origs, user : Users, deleted : BOOLEAN]
PCs == Kinds \cup {"idle", "done"}
Element == [call : Calls, n : Nat, short : Paths, user : Users]

Shape ==
  /\ DOMAIN urls \subseteq Paths /\ urls \in [DOMAIN urls -> Records]
  /\ pc \in [Calls -> PCs] /\ tries \in [Calls -> Nat] /\ born \in [Calls -> Nat]
  /\ req = [c \in Calls |-> req[c]] /\ ans = [c \in Calls |-> ans[c]]
  /\ pending \in Seq(Element) /\ delivered \in Seq(Element)

\* A call that deletes is one of a user who was known before.
Deleting(c) == pc[c] # "idle" /\ req[c].kind = "delete" /\ ~req[c].new

\* Where a call is fits what it asks; it answers at its end, after deletions that
\* were handed over.
CallOk(c) ==
  /\ pc[c] = "idle" => tries[c] = 0
  /\ pc[c] # "idle" => req[c] \in Requests[c]
  /\ pc[c] \in Kinds => req[c].kind = pc[c]
  /\ pc[c] = "delete" => ~req[c].new /\ tries[c] < Len(req[c].urls)
  /\ pc[c] # "done" => ans[c].err = "none"
  /\ born[c] <= Len(delivered)

CallInv == \A c \in Calls : CallOk(c)

\* A deletion is the one of the user who asked for it.
Asked(e) == Deleting(e.call) /\ req[e.call].user = e.user

QueueInv == /\ \A i \in DOMAIN pending : Asked(pending[i])
            /\ \A i \in DOMAIN delivered : Asked(delivered[i])

\* Path k holds a live record of orig, stored for call c.
Holds(c, k, orig) ==
  /\ k \in DOMAIN urls /\ ~urls[k].deleted
  /\ urls[k].orig = orig /\ urls[k].user = req[c].user

\* The answer of call c leads to what it asked for.
Leads(c) ==
  \A i \in DOMAIN Given(c) :
    \/ Holds(c, Given(c)[i], req[c].urls[i])
    \/ Gone(c, Given(c)[i])
    \/ \E j \in DOMAIN Given(c) : j > i /\ Given(c)[j] = Given(c)[i]

LeadInv == \A c \in Calls : Leads(c)

IInv == Shape /\ CallInv /\ QueueInv /\ LeadInv /\ DeletedByOwner /\ DeliveredIsDeleted

(***************************************************************************)
(* What the storage does to the map.                                       *)
(***************************************************************************)

LEMMA Greatest ==
  ASSUME NEW n \in Nat, NEW T, T \subseteq 1..n, T # {}
  PROVE  \E x \in T : \A y \in T : y <= x
<1> DEFINE Above(x) == (x + 1)..n
           U == {Above(x) : x \in T}
           R == StrictSubsetOrdering(1..n)
           F == FiniteSubsetsOf(1..n)
<1>1. IsWellFoundedOn(R, F)
  BY FS_StrictSubsetOrderingWellFounded
<1>2. U \subseteq F /\ U # {}
  <2>1. ASSUME NEW x \in T PROVE Above(x) \in SUBSET (1..n) /\ IsFiniteSet(Above(x))
    BY FS_Interval
  <2> QED  BY <2>1 DEF FiniteSubsetsOf
<1>3. PICK u \in U : \A v \in U : <<v, u>> \notin R
  <2> HIDE DEF U, R, F
  <2> QED  BY <1>1, <1>2, WFMin
<1>4. PICK x \in T : u = Above(x)
  OBVIOUS
<1>5. ASSUME NEW y \in T PROVE y <= x
  <2> SUFFICES ASSUME y > x PROVE FALSE
    OBVIOUS
  <2>1. x \in 1..n /\ y \in 1..n
    OBVIOUS
  <2>2. Above(y) \subseteq Above(x) /\ y \in Above(x) /\ y \notin Above(y)
    BY <2>1
  <2>3. <<Above(y), Above(x)>> \in R
    BY <2>1, <2>2 DEF StrictSubsetOrdering
  <2> QED  BY <1>3, <1>4, <2>3
<1> QED  BY <1>5

\* i is the last url of a batch for path k.
IsLast(batch, k, i) ==
  /\ i \in DOMAIN batch /\ batch[i].short = k
  /\ \A j \in DOMAIN batch : batch[j].short = k => j <= i

\* Of the urls of a batch with the same path the last one stays.
LastStays(map, batch, new) ==
  /\ DOMAIN new = DOMAIN map \cup Shorts(batch)
  /\ new = [k \in DOMAIN new |-> new[k]]
  /\ \A k \in DOMAIN map \ Shorts(batch) : new[k] = map[k]
  /\ \A k \in Shorts(batch) : \E i \in DOMAIN batch : IsLast(batch, k, i) /\ new[k] = Record(batch[i])

LEMMA PutUrls ==
  ASSUME NEW map, NEW n \in Nat, NEW batch, DOMAIN batch = 1..n
  PROVE  LastStays(map, batch, PutAll(map, batch))
<1> DEFINE Last(k) == CHOOSE i \in DOMAIN batch :
                        /\ batch[i].short = k
                        /\ \A j \in DOMAIN batch : batch[j].short = k => j <= i
<1>1. PutAll(map, batch) = [k \in DOMAIN map \cup Shorts(batch) |->
                              IF k \in Shorts(batch) THEN Record(batch[Last(k)]) ELSE map[k]]
  BY DEF PutAll
<1>2. ASSUME NEW k \in Shorts(batch) PROVE IsLast(batch, k, Last(k))
  <2> DEFINE T == {i \in DOMAIN batch : batch[i].short = k}
  <2>1. T \subseteq 1..n /\ T # {}
    BY DEF Shorts
  <2>2. \E i \in T : \A j \in T : j <= i
    <3> HIDE DEF T
    <3> QED  BY <2>1, Greatest
  <2>3. \E i \in DOMAIN batch : /\ batch[i].short = k
                                /\ \A j \in DOMAIN batch : batch[j].short = k => j <= i
    BY <2>2
  <2> QED  BY <2>3 DEF IsLast
<1> HIDE DEF Last
<1>3. \A k \in Shorts(batch) : Last(k) \in DOMAIN batch /\ PutAll(map, batch)[k] = Record(batch[Last(k)])
  BY <1>1, <1>2 DEF IsLast
<1> QED  BY <1>1, <1>2, <1>3 DEF LastStays

LEMMA MarkUrls ==
  ASSUME Shape, urls' = MarkDeleted(urls, pending)
  PROVE  /\ DOMAIN urls' = DOMAIN urls /\ urls' \in [DOMAIN urls' -> Records]
         /\ \A k \in DOMAIN urls :
              urls'[k] = IF \E i \in DOMAIN pending : pending[i].short = k /\ Owned(urls, pending[i])
                         THEN [urls[k] EXCEPT !.deleted = TRUE] ELSE urls[k]
<1>1. \A k \in DOMAIN urls : [urls[k] EXCEPT !.deleted = TRUE] \in Records
  BY DEF Shape, Records
<1> QED  BY <1>1 DEF MarkDeleted, Shape

(***************************************************************************)
(* The effect of a step on the map, and on the queue.                      *)
(***************************************************************************)

\* Call c stores under the paths K, that were free, and answers with them.
Adds(c, K) ==
  /\ K \subseteq Paths /\ \A k \in K : ~Taken(urls, k)
  /\ DOMAIN urls' = DOMAIN urls \cup K /\ urls' \in [DOMAIN urls' -> Records]
  /\ \A k \in DOMAIN urls \ K : urls'[k] = urls[k]
  /\ \A k \in K : /\ ~urls'[k].deleted /\ urls'[k].user = req[c].user
                  /\ \E i \in DOMAIN Given(c)' : Given(c)'[i] = k
  /\ K # {} => pc[c] # "idle" /\ born'[c] = Len(delivered)

\* Only call c is concerned; it does not become idle, and it had not answered.
Others(c) ==
  /\ pc' = [pc EXCEPT ![c] = pc'[c]] /\ req' = [req EXCEPT ![c] = req'[c]]
  /\ tries' = [tries EXCEPT ![c] = tries'[c]] /\ born' = [born EXCEPT ![c] = born'[c]]
  /\ ans' = [ans EXCEPT ![c] = ans'[c]]
  /\ pc[c] # "done" /\ pc'[c] # "idle"
  /\ pc[c] # "idle" => req'[c] = req[c]

\* The variables that arithmetic and updates need to know about.
LEMMA Plain ==
  ASSUME IInv
  PROVE  /\ ans = [c \in Calls |-> ans[c]] /\ req = [c \in Calls |-> req[c]]
         /\ tries \in [Calls -> Nat] /\ born \in [Calls -> Nat] /\ pc \in [Calls -> PCs]
         /\ pending \in Seq(Element) /\ delivered \in Seq(Element) /\ Len(delivered) \in Nat
         /\ DOMAIN urls \subseteq Paths /\ urls \in [DOMAIN urls -> Records]
  BY DEF IInv, Shape

LEMMA InQueue ==
  ASSUME NEW q \in Seq(Element), NEW i \in DOMAIN q
  PROVE  q[i] \in Element /\ q[i].call \in Calls
<1>1. q[i] \in Element
  OBVIOUS
<1> QED  BY <1>1 DEF Element

LEMMA InitIInv == Init => IInv
<1> SUFFICES ASSUME Init PROVE IInv
  OBVIOUS
<1> USE DEF Init, Queue!Init
<1>1. Shape
  BY DEF Shape, EmptyMap, PCs, Records
<1>2. CallInv
  BY DEF CallInv, CallOk, Kinds
<1>3. \A c \in Calls : Given(c) = <<>>
  BY DEF Given
<1>4. LeadInv /\ QueueInv /\ DeletedByOwner /\ DeliveredIsDeleted
  BY <1>3 DEF LeadInv, Leads, QueueInv, DeletedByOwner, DeliveredIsDeleted, EmptyMap
<1> QED  BY <1>1, <1>2, <1>4 DEF IInv

(***************************************************************************)
(* A step of one call.                                                     *)
(***************************************************************************)

LEMMA OthersStay ==
  ASSUME IInv, NEW c \in Calls, Others(c), NEW d \in Calls
  PROVE  /\ d # c => /\ pc'[d] = pc[d] /\ req'[d] = req[d] /\ tries'[d] = tries[d]
                     /\ ans'[d] = ans[d] /\ born'[d] = born[d] /\ Given(d)' = Given(d)
         /\ Given(c) = <<>>
         /\ Deleting(d) => Deleting(d)' /\ req'[d] = req[d]
<1>1. d # c => /\ pc'[d] = pc[d] /\ req'[d] = req[d] /\ tries'[d] = tries[d]
               /\ ans'[d] = ans[d] /\ born'[d] = born[d]
  BY DEF IInv, Shape, Others
<1>2. ans[c].err = "none"
  BY DEF IInv, CallInv, CallOk, Others
<1>3. Given(c) = <<>> /\ (d # c => Given(d)' = Given(d))
  BY <1>1, <1>2 DEF Given
<1> QED  BY <1>1, <1>3 DEF Deleting, Others

\* What the abstract url store allows in one step.
StoreStep == [AbstractStore!Next]_urls

LEMMA AddsIsStoreStep ==
  ASSUME IInv, NEW c \in Calls, NEW K, Adds(c, K), K # {} => req[c].user \in Users
  PROVE  StoreStep
<1>1. CASE K = {}
  <2>1. DOMAIN urls' = DOMAIN urls /\ urls' = [k \in DOMAIN urls' |-> urls'[k]]
        /\ urls = [k \in DOMAIN urls |-> urls[k]]
        /\ \A k \in DOMAIN urls : urls'[k] = urls[k]
    BY <1>1, Plain DEF Adds
  <2>2. urls' = urls
    BY <2>1
  <2> QED  BY <2>2 DEF StoreStep
<1>2. CASE K # {}
  <2>1. \A k \in K : AbstractStore!Taken(urls, k) <=> Taken(urls, k)
    BY DEF AbstractStore!Taken, Taken
  <2>2. \A k \in K : urls'[k] \in AbstractStore!Live /\ urls'[k].user = req[c].user
    BY DEF Adds, Records, AbstractStore!Live
  <2>3. AbstractStore!Add(K, req[c].user)
    BY <1>2, <2>1, <2>2 DEF Adds, AbstractStore!Add
  <2> QED  BY <1>2, <2>3 DEF StoreStep, AbstractStore!Next, Adds
<1> QED  BY <1>1, <1>2

LEMMA CallStep ==
  ASSUME IInv, NEW c \in Calls, Others(c), CallOk(c)', Leads(c)', NEW K, Adds(c, K),
         delivered' = delivered,
         pc'[c] \in PCs, tries'[c] \in Nat, born'[c] \in Nat,
         \/ pending' = pending
         \/ \E e \in Element : pending' = Append(pending, e) /\ e.call = c /\ Asked(e)'
  PROVE  IInv' /\ StoreStep
<1>1. Shape'
  <2>1. /\ pc' \in [Calls -> PCs] /\ tries' \in [Calls -> Nat] /\ born' \in [Calls -> Nat]
        /\ req' = [d \in Calls |-> req'[d]] /\ ans' = [d \in Calls |-> ans'[d]]
    BY DEF IInv, Shape, Others
  <2>2. pending' \in Seq(Element)
    <3>1. pending \in Seq(Element)
      BY Plain
    <3>2. ASSUME NEW e \in Element, pending' = Append(pending, e) PROVE pending' \in Seq(Element)
      BY <3>1, <3>2
    <3> QED  BY <3>1, <3>2
  <2>3. DOMAIN urls' \subseteq Paths /\ urls' \in [DOMAIN urls' -> Records]
    BY Plain DEF Adds
  <2> QED  BY <2>1, <2>2, <2>3, Plain DEF Shape
<1>2. CallInv'
  <2>1. ASSUME NEW d \in Calls, d # c PROVE CallOk(d)'
    BY <2>1, OthersStay DEF IInv, CallInv, CallOk
  <2> QED  BY <2>1 DEF CallInv
<1>3. QueueInv'
  <2> DEFINE Now(x) == /\ pc'[x.call] # "idle" /\ req'[x.call].kind = "delete"
                       /\ ~req'[x.call].new /\ req'[x.call].user = x.user
  <2>1. \A x \in Element : Asked(x) => Now(x)
    BY OthersStay DEF Asked, Element, Deleting
  <2>2. \A i \in DOMAIN delivered : Now(delivered[i])
    BY <2>1, InQueue, Plain DEF IInv, QueueInv
  <2>3. \A i \in DOMAIN pending : Now(pending[i])
    BY <2>1, InQueue, Plain DEF IInv, QueueInv
  <2>4. ASSUME NEW x, Asked(x)' PROVE Now(x)
    BY <2>4 DEF Asked, Deleting
  <2> HIDE DEF Now
  <2>5. ASSUME pending' = pending PROVE \A i \in DOMAIN pending' : Now(pending'[i])
    BY <2>3, <2>5
  <2>6. ASSUME NEW e \in Element, pending' = Append(pending, e), Asked(e)'
        PROVE  \A i \in DOMAIN pending' : Now(pending'[i])
    <3>1. \A i \in DOMAIN pending' : pending'[i] = e \/ (i \in DOMAIN pending /\ pending'[i] = pending[i])
      BY <2>6, Plain
    <3> QED  BY <2>3, <2>4, <2>6, <3>1
  <2>7. \A i \in DOMAIN pending' : Now(pending'[i])
    BY <2>5, <2>6
  <2> QED  BY <2>2, <2>7 DEF QueueInv, Asked, Deleting, Now
<1>4. LeadInv'
  <2>1. ASSUME NEW d \in Calls, d # c PROVE Leads(d)'
    <3> SUFFICES ASSUME NEW i \in DOMAIN Given(d)
                 PROVE  \/ Holds(d, Given(d)[i], req[d].urls[i])'
                        \/ Gone(d, Given(d)[i])'
                        \/ \E j \in DOMAIN Given(d) : j > i /\ Given(d)[j] = Given(d)[i]
      BY <2>1, OthersStay DEF Leads
    <3> DEFINE k == Given(d)[i]
    <3>1. CASE Holds(d, k, req[d].urls[i])
      <4>1. k \in DOMAIN urls /\ k \notin K
        BY <3>1 DEF Holds, Adds, Taken
      <4>2. k \in DOMAIN urls' /\ urls'[k] = urls[k] /\ Given(d)' = Given(d) /\ req'[d] = req[d]
        BY <2>1, <4>1, OthersStay DEF Adds
      <4> QED  BY <3>1, <4>2 DEF Holds
    <3>2. CASE Gone(d, k)
      <4>1. Given(d)' = Given(d) /\ req'[d] = req[d] /\ born'[d] = born[d]
        BY <2>1, OthersStay
      <4> QED  BY <3>2, <4>1 DEF Gone
    <3> QED  BY <3>1, <3>2 DEF IInv, LeadInv, Leads
  <2> QED  BY <2>1 DEF LeadInv
<1>5. DeletedByOwner'
  <2> SUFFICES ASSUME NEW k \in DOMAIN urls', urls'[k].deleted
               PROVE  \E i \in DOMAIN delivered' :
                        /\ delivered'[i].short = k /\ delivered'[i].user = urls'[k].user
                        /\ req'[delivered'[i].call].kind = "delete" /\ ~req'[delivered'[i].call].new
    BY DEF DeletedByOwner
  <2>1. k \in DOMAIN urls /\ urls'[k] = urls[k]
    BY DEF Adds
  <2>2. PICK i \in DOMAIN delivered : delivered[i].short = k /\ delivered[i].user = urls[k].user
    BY <2>1 DEF IInv, DeletedByOwner
  <2>3. delivered[i].call \in Calls /\ Deleting(delivered[i].call)
    BY InQueue, Plain DEF IInv, QueueInv, Asked
  <2>4. Deleting(delivered[i].call)'
    BY <2>3, OthersStay
  <2> QED  BY <2>1, <2>2, <2>4 DEF Deleting
<1>6. DeliveredIsDeleted'
  <2> SUFFICES ASSUME NEW i \in DOMAIN delivered,
                      Owned(urls', delivered[i]), ~urls'[delivered[i].short].deleted
               PROVE  \E d \in Calls : \E j \in DOMAIN Given(d)' :
                        /\ Given(d)'[j] = delivered[i].short /\ req'[d].user = delivered[i].user
                        /\ born'[d] >= i
    BY DEF DeliveredIsDeleted
  <2> DEFINE k == delivered[i].short
  <2>1. CASE k \in K
    <3>1. PICK j \in DOMAIN Given(c)' : Given(c)'[j] = k
      BY <2>1 DEF Adds
    <3>2. born'[c] = Len(delivered) /\ i <= Len(delivered) /\ i \in Nat
      BY <2>1, Plain DEF Adds
    <3>3. urls'[k].user = req[c].user
      BY <2>1 DEF Adds
    <3>4. req'[c] = req[c]
      <4>1. Given(c)' # <<>>
        BY <3>1
      <4>2. pc[c] # "idle"
        BY <2>1, <3>1 DEF Adds
      <4> QED  BY <4>2 DEF Others
    <3> QED  BY <3>1, <3>2, <3>3, <3>4 DEF Owned
  <2>2. CASE k \notin K
    <3>1. k \in DOMAIN urls /\ urls'[k] = urls[k]
      BY <2>2 DEF Owned, Adds
    <3>2. PICK d \in Calls : \E j \in DOMAIN Given(d) :
            Given(d)[j] = k /\ req[d].user = delivered[i].user /\ born[d] >= i
      BY <3>1 DEF IInv, DeliveredIsDeleted, Owned
    <3>3. d # c
      BY <3>2, OthersStay
    <3> QED  BY <3>2, <3>3, OthersStay
  <2> QED  BY <2>1, <2>2
<1>7. StoreStep
  <2>1. K # {} => req[c].user \in Users
    BY RequestsAssumption DEF Adds, IInv, CallInv, CallOk
  <2> QED  BY <2>1, AddsIsStoreStep
<1> QED  BY <1>1, <1>2, <1>3, <1>4, <1>5, <1>6, <1>7 DEF IInv

\* A call that answers is done, and answers as told.
LEMMA Ended ==
  ASSUME IInv, NEW c \in Calls, NEW err, NEW val, Answer(c, err, val)
  PROVE  /\ pc'[c] = "done" /\ ans'[c].err = err /\ ans'[c].val = val
         /\ born'[c] = Len(delivered) /\ born'[c] \in Nat
         /\ ans' = [ans EXCEPT ![c] = ans'[c]] /\ born' = [born EXCEPT ![c] = born'[c]]
         /\ pc' = [pc EXCEPT ![c] = pc'[c]]
<1>1. ans'[c] = [err |-> err, val |-> val]
  BY Plain DEF Answer
<1>2. pc'[c] = "done" /\ born'[c] = Len(delivered)
  BY Plain DEF Answer
<1>3. /\ ans' = [ans EXCEPT ![c] = ans'[c]] /\ born' = [born EXCEPT ![c] = born'[c]]
      /\ pc' = [pc EXCEPT ![c] = pc'[c]]
  BY Plain DEF Answer
<1> QED  BY <1>1, <1>2, <1>3, Plain

\* A call that goes on, or ends with nothing that leads anywhere.
LEMMA EndsEmpty ==
  ASSUME NEW c \in Calls, ans'[c].err # "ok" \/ req'[c].kind \notin {"shorten", "batch"}
  PROVE  Leads(c)' /\ Given(c)' = <<>>
<1>1. Given(c)' = <<>>
  BY DEF Given
<1> QED  BY <1>1 DEF Leads

LEMMA NothingAdded ==
  ASSUME IInv, NEW c \in Calls, urls' = urls
  PROVE  Adds(c, {})
  BY Plain DEF Adds

LEMMA StartStep ==
  ASSUME IInv, NEW c \in Calls, Start(c)
  PROVE  IInv' /\ StoreStep
<1>1. PICK r \in Requests[c] :
        /\ req' = [req EXCEPT ![c] = r]
        /\ \/ r.kind \in {"list", "delete"} /\ Answer(c, "unauthorized", "none")
           \/ Answer(c, "empty batch", "none")
           \/ /\ r.kind \in {"list", "delete"} => ~r.new
              /\ r.kind = "delete" => r.urls # <<>>
              /\ pc' = [pc EXCEPT ![c] = r.kind]
              /\ UNCHANGED <<ans, born>>
  BY DEF Start
<1>2. r.kind \in Kinds /\ (r.urls # <<>> => Len(r.urls) > 0)
  BY RequestsAssumption
<1>3. /\ pc[c] = "idle" /\ tries[c] = 0 /\ ans[c].err = "none" /\ born[c] <= Len(delivered)
      /\ UNCHANGED <<urls, tries, pending, delivered>>
  BY DEF Start, queue, IInv, CallInv, CallOk
<1>4. req' = [req EXCEPT ![c] = req'[c]] /\ req'[c] = r /\ tries' = [tries EXCEPT ![c] = tries'[c]]
      /\ tries'[c] = 0
  BY <1>1, <1>3, Plain
<1>5. CASE UNCHANGED <<ans, born>> /\ pc' = [pc EXCEPT ![c] = r.kind]
           /\ (r.kind \in {"list", "delete"} => ~r.new) /\ (r.kind = "delete" => r.urls # <<>>)
  <2>1. Others(c) /\ pc'[c] = r.kind /\ pc'[c] \in PCs /\ pc'[c] # "done"
    BY <1>2, <1>3, <1>4, <1>5, Plain DEF Others, PCs, Kinds
  <2>2. ans'[c].err = "none" /\ born'[c] = born[c] /\ born'[c] \in Nat
    BY <1>3, <1>5, Plain
  <2>3. CallOk(c)'
    BY <1>2, <1>3, <1>4, <1>5, <2>1, <2>2 DEF CallOk
  <2> QED  BY <1>3, <1>4, <2>1, <2>2, <2>3, EndsEmpty, NothingAdded, CallStep
<1>6. ASSUME NEW err, err # "ok", Answer(c, err, "none") PROVE IInv' /\ StoreStep
  <2>1. /\ pc'[c] = "done" /\ ans'[c].err # "ok" /\ born'[c] = Len(delivered) /\ born'[c] \in Nat
        /\ ans' = [ans EXCEPT ![c] = ans'[c]] /\ born' = [born EXCEPT ![c] = born'[c]]
        /\ pc' = [pc EXCEPT ![c] = pc'[c]]
    BY <1>6, Ended
  <2>2. Others(c) /\ pc'[c] \in PCs
    BY <1>3, <1>4, <2>1 DEF Others, PCs
  <2>3. born'[c] <= Len(delivered')
    <3>1. delivered' = delivered /\ Len(delivered) \in Nat
      BY <1>3, Plain
    <3> QED  BY <2>1, <3>1
  <2>4. CallOk(c)'
    BY <1>4, <2>1, <2>3 DEF CallOk, Kinds
  <2>5. Leads(c)' /\ Adds(c, {}) /\ tries'[c] \in Nat /\ born'[c] \in Nat
    BY <1>3, <1>4, <2>1, EndsEmpty, NothingAdded
  <2> QED  BY <1>3, <2>2, <2>4, <2>5, CallStep
<1>7. "unauthorized" # "ok" /\ "empty batch" # "ok"
  BY Zenon
<1> QED  BY <1>1, <1>5, <1>6, <1>7

\* The step of a call in its loop, or its last one.
LEMMA ServingStep ==
  ASSUME IInv, NEW c \in Calls, pc[c] \in Kinds,
         /\ pc' = [pc EXCEPT ![c] = pc'[c]] /\ tries' = [tries EXCEPT ![c] = tries'[c]]
         /\ ans' = [ans EXCEPT ![c] = ans'[c]] /\ born' = [born EXCEPT ![c] = born'[c]],
         UNCHANGED <<req, delivered>>, tries'[c] \in Nat,
         \/ pc'[c] = "done" /\ born'[c] = Len(delivered)
         \/ /\ pc'[c] = pc[c] /\ ans'[c] = ans[c] /\ born'[c] = born[c]
            /\ pc[c] = "delete" => tries'[c] < Len(req[c].urls)
  PROVE  /\ Others(c) /\ CallOk(c)' /\ pc'[c] \in PCs /\ born'[c] \in Nat
         /\ req[c].kind = pc[c] /\ req[c] \in Requests[c]
<1>1. CallOk(c) /\ pc[c] # "idle" /\ pc[c] # "done"
  BY DEF IInv, CallInv, Kinds
<1>2. req[c].kind = pc[c] /\ req[c] \in Requests[c] /\ ans[c].err = "none" /\ req'[c] = req[c]
  BY <1>1 DEF CallOk
<1>3. Others(c) /\ pc'[c] \in PCs /\ born'[c] \in Nat
  BY <1>1, Plain DEF Others, PCs, Kinds
<1>4. CASE pc'[c] = "done" /\ born'[c] = Len(delivered)
  <2>1. born'[c] <= Len(delivered') /\ pc'[c] \notin Kinds \cup {"idle", "delete"}
    BY <1>4, Plain DEF Kinds
  <2> QED  BY <1>2, <1>3, <1>4, <2>1 DEF CallOk
<1>5. CASE /\ pc'[c] = pc[c] /\ ans'[c] = ans[c] /\ born'[c] = born[c]
           /\ pc[c] = "delete" => tries'[c] < Len(req[c].urls)
  <2>1. born'[c] <= Len(delivered')
    BY <1>1, <1>5 DEF CallOk
  <2> QED  BY <1>1, <1>2, <1>3, <1>5, <2>1 DEF CallOk
<1> QED  BY <1>2, <1>3, <1>4, <1>5

LEMMA ReadStep ==
  ASSUME IInv, NEW c \in Calls, Resolve(c) \/ GetAll(c)
  PROVE  IInv' /\ StoreStep
<1>1. /\ pc[c] \in {"resolve", "list"}
      /\ UNCHANGED <<urls, req, tries, pending, delivered>>
      /\ \E err, val : Answer(c, err, val)
  BY DEF Resolve, GetAll, queue
<1>2. PICK err, val : Answer(c, err, val)
  BY <1>1
<1>3. /\ pc'[c] = "done" /\ born'[c] = Len(delivered)
      /\ ans' = [ans EXCEPT ![c] = ans'[c]] /\ born' = [born EXCEPT ![c] = born'[c]]
      /\ pc' = [pc EXCEPT ![c] = pc'[c]]
  BY <1>2, Ended
<1>4. pc[c] \in Kinds /\ tries' = [tries EXCEPT ![c] = tries'[c]] /\ tries'[c] \in Nat
  BY <1>1, Plain DEF Kinds
<1>5. /\ Others(c) /\ CallOk(c)' /\ pc'[c] \in PCs /\ born'[c] \in Nat /\ req[c].kind = pc[c]
  BY <1>1, <1>3, <1>4, ServingStep
<1>6. Leads(c)' /\ Adds(c, {})
  BY <1>1, <1>5, EndsEmpty, NothingAdded
<1> QED  BY <1>1, <1>4, <1>5, <1>6, CallStep

\* One deletion is pushed, or refused.
LEMMA PushNextStep ==
  ASSUME IInv, NEW c \in Calls, PushNext(c)
  PROVE  IInv' /\ StoreStep
<1> DEFINE n == tries[c] + 1
           e == [call |-> c, n |-> n, short |-> req[c].urls[n], user |-> req[c].user]
<1>1. /\ pc[c] = "delete" /\ pc[c] \in Kinds /\ Deleting(c) /\ req[c] \in Requests[c]
      /\ req[c].kind = "delete" /\ tries[c] < Len(req[c].urls)
      /\ UNCHANGED <<urls, req, delivered>>
  BY DEF PushNext, IInv, CallInv, CallOk, Kinds, Deleting, Queue!Take, Queue!Refuse
<1>2. \/ /\ pending' = Append(pending, e) /\ tries' = [tries EXCEPT ![c] = n]
         /\ \/ Answer(c, "ok", "none")
            \/ n # Len(req[c].urls) /\ UNCHANGED <<pc, ans, born>>
      \/ Answer(c, "delete error", "none") /\ UNCHANGED <<tries, pending>>
  BY DEF PushNext, Queue!Take, Queue!Refuse
<1>3. n \in 1..Len(req[c].urls) /\ e \in Element /\ e.call = c /\ e.user = req[c].user
  <2>1. req[c].urls \in Seq(Paths) /\ req[c].user \in Users
    BY <1>1, RequestsAssumption
  <2>2. n \in 1..Len(req[c].urls) /\ n \in Nat
    BY <1>1, <2>1, Plain
  <2>3. req[c].urls[n] \in Paths
    BY <2>1, <2>2
  <2> HIDE DEF n
  <2> QED  BY <2>1, <2>2, <2>3 DEF Element
<1> HIDE DEF e
<1>4. /\ pc' = [pc EXCEPT ![c] = pc'[c]]
      /\ ans' = [ans EXCEPT ![c] = ans'[c]] /\ born' = [born EXCEPT ![c] = born'[c]]
      /\ \/ pc'[c] = "done" /\ born'[c] = Len(delivered)
         \/ /\ n # Len(req[c].urls) /\ tries' = [tries EXCEPT ![c] = n]
            /\ pc'[c] = pc[c] /\ ans'[c] = ans[c] /\ born'[c] = born[c]
  <2>1. ASSUME NEW err, NEW val, Answer(c, err, val)
        PROVE  /\ pc' = [pc EXCEPT ![c] = pc'[c]]
               /\ ans' = [ans EXCEPT ![c] = ans'[c]] /\ born' = [born EXCEPT ![c] = born'[c]]
               /\ pc'[c] = "done" /\ born'[c] = Len(delivered)
    BY <2>1, Ended
  <2>2. CASE /\ UNCHANGED <<pc, ans, born>> /\ n # Len(req[c].urls)
             /\ tries' = [tries EXCEPT ![c] = n]
    BY <2>2, Plain
  <2> HIDE DEF n
  <2> QED  BY <1>2, <2>1, <2>2
<1>5. /\ tries' = [tries EXCEPT ![c] = tries'[c]] /\ tries'[c] \in Nat
      /\ tries' = [tries EXCEPT ![c] = n] => tries'[c] = n
  <2>1. tries' = tries \/ tries' = [tries EXCEPT ![c] = n]
    BY <1>2
  <2>2. n \in Nat
    BY <1>3
  <2> HIDE DEF n
  <2> QED  BY <2>1, <2>2, Plain
<1>6. /\ Others(c) /\ CallOk(c)' /\ pc'[c] \in PCs /\ born'[c] \in Nat
  <2>1. n # Len(req[c].urls) => n < Len(req[c].urls)
    BY <1>3
  <2> HIDE DEF n
  <2> QED  BY <1>1, <1>4, <1>5, <2>1, ServingStep
<1>7. Leads(c)' /\ Adds(c, {})
  BY <1>1, EndsEmpty, NothingAdded
<1>8. \/ pending' = pending
      \/ \E x \in Element : pending' = Append(pending, x) /\ x.call = c /\ Asked(x)'
  <2>1. PICK x \in Element : x = e
    BY <1>3
  <2>2. Asked(x)'
    BY <1>1, <1>3, <1>6, <2>1 DEF Asked, Deleting, Others
  <2> QED  BY <1>2, <1>3, <2>1, <2>2
<1> QED  BY <1>1, <1>5, <1>6, <1>7, <1>8, CallStep

(***************************************************************************)
(* The steps that store.                                                   *)
(***************************************************************************)

\* The urls of a request, each with the path that was drawn for it.
Drawn(c, paths) == [i \in DOMAIN paths |-> Url(c, i, paths[i])]

\* Call c stores its urls under the paths, and answers with them.
LEMMA StoreUrls ==
  ASSUME IInv, NEW c \in Calls, req[c] \in Requests[c], req[c].kind \in {"shorten", "batch"},
         pc[c] # "idle", req' = req,
         NEW paths \in [DOMAIN req[c].urls -> Paths],
         \A i \in DOMAIN paths : ~Taken(urls, paths[i]),
         urls' = PutAll(urls, Drawn(c, paths)),
         born'[c] = Len(delivered), Given(c)' = paths
  PROVE  Leads(c)' /\ Adds(c, {paths[i] : i \in DOMAIN paths})
<1> DEFINE n == Len(req[c].urls)
           drawn == Drawn(c, paths)
           K == {paths[i] : i \in DOMAIN paths}
<1>1. req[c].urls \in Seq(Origs) /\ req[c].user \in Users /\ n \in Nat
  BY RequestsAssumption
<1>2. DOMAIN paths = 1..n /\ \A i \in 1..n : req[c].urls[i] \in Origs /\ paths[i] \in Paths
  BY <1>1
<1>3. /\ DOMAIN drawn = 1..n
      /\ \A i \in 1..n : /\ drawn[i].short = paths[i] /\ drawn[i].orig = req[c].urls[i]
                         /\ drawn[i].user = req[c].user
  BY <1>2 DEF Drawn, Url
<1>4. Shorts(drawn) = K
  BY <1>2, <1>3 DEF Shorts
<1> HIDE DEF drawn, n
<1>5. /\ DOMAIN urls' = DOMAIN urls \cup K
      /\ urls' = [k \in DOMAIN urls' |-> urls'[k]]
      /\ \A k \in DOMAIN urls \ K : urls'[k] = urls[k]
      /\ \A k \in K : \E i \in 1..n : IsLast(drawn, k, i) /\ urls'[k] = Record(drawn[i])
  <2> HIDE DEF K
  <2>1. n \in Nat /\ DOMAIN drawn = 1..n /\ urls' = PutAll(urls, drawn)
    BY <1>1, <1>3 DEF drawn
  <2>2. LastStays(urls, drawn, urls')
    BY <2>1, PutUrls
  <2> QED  BY <1>3, <1>4, <2>2 DEF LastStays
<1>6. ASSUME NEW k \in K
      PROVE  \E i \in 1..n : /\ paths[i] = k /\ \A j \in 1..n : paths[j] = k => j <= i
                             /\ urls'[k] \in Records /\ urls'[k].orig = req[c].urls[i]
                             /\ urls'[k].user = req[c].user /\ ~urls'[k].deleted
  <2>1. PICK i \in 1..n : IsLast(drawn, k, i) /\ urls'[k] = Record(drawn[i])
    BY <1>5
  <2>2. paths[i] = k /\ \A j \in 1..n : paths[j] = k => j <= i
    BY <1>3, <2>1 DEF IsLast
  <2>3. urls'[k] = [orig |-> req[c].urls[i], user |-> req[c].user, deleted |-> FALSE]
    BY <1>3, <2>1 DEF Record
  <2>4. urls'[k] \in Records
    BY <1>1, <1>2, <2>3 DEF Records
  <2> QED  BY <2>2, <2>3, <2>4
<1>7. Adds(c, K)
  <2>1. K \subseteq Paths /\ \A k \in K : ~Taken(urls, k)
    BY <1>2
  <2>2. \A k \in K : urls'[k] \in Records /\ ~urls'[k].deleted /\ urls'[k].user = req[c].user
    BY <1>6
  <2>3. \A k \in K : \E i \in DOMAIN Given(c)' : Given(c)'[i] = k
    OBVIOUS
  <2> HIDE DEF K
  <2>4. urls' \in [DOMAIN urls' -> Records]
    BY <1>5, <2>2, Plain
  <2> QED  BY <1>5, <2>1, <2>2, <2>3, <2>4 DEF Adds
<1>8. ASSUME NEW i \in 1..n
      PROVE  \/ Holds(c, paths[i], req[c].urls[i])'
             \/ \E j \in 1..n : j > i /\ paths[j] = paths[i]
  <2>1. paths[i] \in K /\ paths[i] \in DOMAIN urls'
    BY <1>2, <1>5
  <2>2. PICK m \in 1..n : /\ paths[m] = paths[i] /\ i <= m
                          /\ urls'[paths[i]].orig = req[c].urls[m]
                          /\ urls'[paths[i]].user = req[c].user /\ ~urls'[paths[i]].deleted
    BY <1>6, <2>1
  <2>3. CASE m = i
    <3> HIDE DEF K
    <3>1. Holds(c, paths[i], req[c].urls[i])'
      BY <2>1, <2>2, <2>3 DEF Holds
    <3> QED  BY <3>1
  <2>4. CASE m # i
    BY <1>1, <2>2, <2>4
  <2> QED  BY <2>3, <2>4
<1>9. Leads(c)'
  BY <1>2, <1>8 DEF Leads
<1> QED  BY <1>7, <1>9

\* One turn of the retry loop.
LEMMA ShortenStep ==
  ASSUME IInv, NEW c \in Calls, Shorten(c)
  PROVE  IInv' /\ StoreStep
<1>1. PICK path \in Paths :
        \/ /\ ~Taken(urls, path)
           /\ urls' = PutAll(urls, <<Url(c, 1, path)>>)
           /\ Answer(c, "ok", path) /\ UNCHANGED tries
        \/ /\ tries' = [tries EXCEPT ![c] = @ + 1]
           /\ (\E err : err # "ok" /\ Answer(c, err, "none")) \/ UNCHANGED <<pc, ans, born>>
           /\ UNCHANGED urls
  <2>1. "storage error" # "ok"
    BY Zenon
  <2> QED  BY <2>1, Zenon DEF Shorten
<1>2. pc[c] = "shorten" /\ pc[c] \in Kinds /\ UNCHANGED <<req, pending, delivered>>
  BY DEF Shorten, queue, Kinds
<1>3. req[c].kind = "shorten" /\ req[c] \in Requests[c] /\ ans[c].err = "none"
  BY <1>2 DEF IInv, CallInv, CallOk
<1>4. CASE /\ ~Taken(urls, path) /\ urls' = PutAll(urls, <<Url(c, 1, path)>>)
           /\ Answer(c, "ok", path) /\ UNCHANGED tries
  <2>1. /\ pc'[c] = "done" /\ ans'[c].err = "ok" /\ ans'[c].val = path /\ born'[c] = Len(delivered)
        /\ ans' = [ans EXCEPT ![c] = ans'[c]] /\ born' = [born EXCEPT ![c] = born'[c]]
        /\ pc' = [pc EXCEPT ![c] = pc'[c]]
    BY <1>4, Ended
  <2>2. tries' = [tries EXCEPT ![c] = tries'[c]] /\ tries'[c] \in Nat
    BY <1>4, Plain
  <2>3. Others(c) /\ CallOk(c)' /\ pc'[c] \in PCs /\ born'[c] \in Nat
    BY <1>2, <2>1, <2>2, ServingStep
  <2> DEFINE paths == [i \in {1} |-> path]
  <2>4. paths = <<path>> /\ DOMAIN req[c].urls = {1}
    <3>1. req[c].urls \in Seq(Origs) /\ Len(req[c].urls) = 1
      BY <1>3, RequestsAssumption
    <3> QED  BY <3>1
  <2>5. Drawn(c, paths) = <<Url(c, 1, path)>>
    BY DEF Drawn
  <2>6. Given(c)' = paths
    BY <1>2, <1>3, <2>1, <2>4 DEF Given
  <2>7. paths \in [DOMAIN req[c].urls -> Paths] /\ \A i \in DOMAIN paths : ~Taken(urls, paths[i])
    BY <1>4, <2>4
  <2> HIDE DEF paths
  <2>8. Leads(c)' /\ Adds(c, {paths[i] : i \in DOMAIN paths})
    BY <1>2, <1>3, <1>4, <2>1, <2>5, <2>6, <2>7, StoreUrls DEF Kinds
  <2> QED  BY <1>2, <2>2, <2>3, <2>8, CallStep
<1>5. CASE /\ tries' = [tries EXCEPT ![c] = @ + 1]
           /\ (\E err : err # "ok" /\ Answer(c, err, "none")) \/ UNCHANGED <<pc, ans, born>>
           /\ UNCHANGED urls
  <2>1. /\ pc' = [pc EXCEPT ![c] = pc'[c]]
        /\ ans' = [ans EXCEPT ![c] = ans'[c]] /\ born' = [born EXCEPT ![c] = born'[c]]
        /\ ans'[c].err # "ok"
        /\ \/ pc'[c] = "done" /\ born'[c] = Len(delivered)
           \/ pc'[c] = pc[c] /\ ans'[c] = ans[c] /\ born'[c] = born[c]
    <3>1. ASSUME NEW err, err # "ok", Answer(c, err, "none")
          PROVE  /\ pc' = [pc EXCEPT ![c] = pc'[c]]
                 /\ ans' = [ans EXCEPT ![c] = ans'[c]] /\ born' = [born EXCEPT ![c] = born'[c]]
                 /\ ans'[c].err # "ok" /\ pc'[c] = "done" /\ born'[c] = Len(delivered)
      BY <3>1, Ended
    <3>2. CASE UNCHANGED <<pc, ans, born>>
      BY <1>3, <3>2, Plain
    <3> QED  BY <1>5, <3>1, <3>2
  <2>2. tries' = [tries EXCEPT ![c] = tries'[c]] /\ tries'[c] \in Nat
    BY <1>5, Plain
  <2>3. Others(c) /\ CallOk(c)' /\ pc'[c] \in PCs /\ born'[c] \in Nat
    BY <1>2, <2>1, <2>2, ServingStep
  <2>4. Leads(c)' /\ Adds(c, {})
    BY <1>5, <2>1, EndsEmpty, NothingAdded
  <2> QED  BY <1>2, <2>2, <2>3, <2>4, CallStep
<1> QED  BY <1>1, <1>4, <1>5

\* A batch is stored as a whole, or not at all.
LEMMA ShortenBatchStep ==
  ASSUME IInv, NEW c \in Calls, ShortenBatch(c)
  PROVE  IInv' /\ StoreStep
<1>1. PICK paths \in [DOMAIN req[c].urls -> Paths] :
        \/ /\ \A i \in DOMAIN paths : ~Taken(urls, paths[i])
           /\ urls' = PutAll(urls, Drawn(c, paths))
           /\ Answer(c, "ok", paths)
        \/ Answer(c, "storage error", "none") /\ UNCHANGED urls
  BY DEF ShortenBatch, Drawn
<1>2. pc[c] = "batch" /\ pc[c] \in Kinds /\ UNCHANGED <<req, tries, pending, delivered>>
  BY DEF ShortenBatch, queue, Kinds
<1>3. req[c].kind = "batch" /\ req[c] \in Requests[c]
  BY <1>2 DEF IInv, CallInv, CallOk
<1>4. PICK err, val : Answer(c, err, val)
  BY <1>1
<1>5. /\ pc'[c] = "done" /\ born'[c] = Len(delivered)
      /\ ans' = [ans EXCEPT ![c] = ans'[c]] /\ born' = [born EXCEPT ![c] = born'[c]]
      /\ pc' = [pc EXCEPT ![c] = pc'[c]]
  BY <1>4, Ended
<1>6. tries' = [tries EXCEPT ![c] = tries'[c]] /\ tries'[c] \in Nat
  BY <1>2, Plain
<1>7. Others(c) /\ CallOk(c)' /\ pc'[c] \in PCs /\ born'[c] \in Nat
  BY <1>2, <1>5, <1>6, ServingStep
<1>8. CASE /\ \A i \in DOMAIN paths : ~Taken(urls, paths[i])
           /\ urls' = PutAll(urls, Drawn(c, paths))
           /\ Answer(c, "ok", paths)
  <2>1. ans'[c].err = "ok" /\ ans'[c].val = paths
    BY <1>8, Ended
  <2>2. Given(c)' = paths
    BY <1>2, <1>3, <2>1 DEF Given
  <2>3. Leads(c)' /\ Adds(c, {paths[i] : i \in DOMAIN paths})
    BY <1>2, <1>3, <1>5, <1>8, <2>2, StoreUrls DEF Kinds
  <2> QED  BY <1>2, <1>6, <1>7, <2>3, CallStep
<1>9. CASE Answer(c, "storage error", "none") /\ UNCHANGED urls
  <2>1. ans'[c].err = "storage error" /\ "storage error" # "ok"
    BY <1>9, Ended, Zenon
  <2>2. Leads(c)' /\ Adds(c, {})
    BY <1>9, <2>1, EndsEmpty, NothingAdded
  <2> QED  BY <1>2, <1>6, <1>7, <2>2, CallStep
<1> QED  BY <1>1, <1>8, <1>9

(***************************************************************************)
(* The steps of the queue.                                                 *)
(***************************************************************************)

\* The queue is handed over, and its deletions are executed.
LEMMA HandOverStep ==
  ASSUME IInv, UNCHANGED <<pc, req, tries, ans, born>>,
         Queue!HandOver, urls' = MarkDeleted(urls, pending)
  PROVE  IInv' /\ StoreStep
<1> DEFINE Hits(e, k) == e.short = k /\ Owned(urls, e)
<1>1. /\ DOMAIN urls' = DOMAIN urls /\ urls' \in [DOMAIN urls' -> Records]
      /\ \A k \in DOMAIN urls :
           urls'[k] = IF \E i \in DOMAIN pending : Hits(pending[i], k)
                      THEN [urls[k] EXCEPT !.deleted = TRUE] ELSE urls[k]
  BY MarkUrls DEF IInv
<1>2. \A k \in DOMAIN urls :
        /\ urls'[k].orig = urls[k].orig /\ urls'[k].user = urls[k].user
        /\ (\E i \in DOMAIN pending : Hits(pending[i], k)) => urls'[k].deleted
        /\ ~(\E i \in DOMAIN pending : Hits(pending[i], k)) => urls'[k] = urls[k]
        /\ urls[k].deleted => urls'[k].deleted
  <2> HIDE DEF Hits
  <2>1. \A k \in DOMAIN urls : urls[k] \in Records
    BY Plain
  <2> QED  BY <1>1, <2>1 DEF Records
<1>3. pending' = <<>> /\ delivered' = delivered \o pending
      /\ pending \in Seq(Element) /\ delivered \in Seq(Element)
  BY Plain DEF Queue!HandOver
<1>4. Shape'
  BY <1>1, <1>3 DEF IInv, Shape
<1>5. /\ \A i \in DOMAIN delivered : i \in DOMAIN delivered' /\ delivered'[i] = delivered[i]
      /\ \A i \in DOMAIN pending : /\ Len(delivered) + i \in DOMAIN delivered'
                                   /\ Len(delivered) + i > Len(delivered)
                                   /\ delivered'[Len(delivered) + i] = pending[i]
      /\ \A i \in DOMAIN delivered' : \/ i \in DOMAIN delivered /\ delivered'[i] = delivered[i]
                                      \/ \E j \in DOMAIN pending : delivered'[i] = pending[j]
      /\ Len(delivered) <= Len(delivered')
  <2>1. DOMAIN delivered = 1..Len(delivered) /\ DOMAIN pending = 1..Len(pending)
        /\ DOMAIN delivered' = 1..(Len(delivered) + Len(pending))
        /\ Len(delivered) \in Nat /\ Len(pending) \in Nat
        /\ Len(delivered') = Len(delivered) + Len(pending)
    BY <1>3
  <2>2. \A i \in 1..(Len(delivered) + Len(pending)) :
          delivered'[i] = IF i <= Len(delivered) THEN delivered[i] ELSE pending[i - Len(delivered)]
    BY <1>3
  <2>3. ASSUME NEW i \in DOMAIN pending
        PROVE  /\ Len(delivered) + i \in DOMAIN delivered' /\ Len(delivered) + i > Len(delivered)
               /\ delivered'[Len(delivered) + i] = pending[i]
    BY <2>1, <2>2
  <2>4. ASSUME NEW i \in DOMAIN delivered', i \notin DOMAIN delivered
        PROVE  i - Len(delivered) \in DOMAIN pending /\ delivered'[i] = pending[i - Len(delivered)]
    BY <2>1, <2>2, <2>4
  <2> QED  BY <2>1, <2>2, <2>3, <2>4
<1>6. CallInv' /\ \A c \in Calls : born[c] \in Nat /\ born[c] <= Len(delivered)
  BY <1>5, Plain DEF IInv, CallInv, CallOk
<1>7. QueueInv'
  BY <1>3, <1>5 DEF IInv, QueueInv, Asked, Deleting
<1>8. LeadInv'
  <2> SUFFICES ASSUME NEW c \in Calls, NEW i \in DOMAIN Given(c)
               PROVE  \/ Holds(c, Given(c)[i], req[c].urls[i])'
                      \/ Gone(c, Given(c)[i])'
                      \/ \E j \in DOMAIN Given(c) : j > i /\ Given(c)[j] = Given(c)[i]
    BY DEF LeadInv, Leads, Given
  <2> DEFINE k == Given(c)[i]
  <2>1. Given(c)' = Given(c)
    BY DEF Given
  <2>2. CASE Gone(c, k)
    BY <1>5, <2>1, <2>2 DEF Gone
  <2>3. CASE Holds(c, k, req[c].urls[i]) /\ \E j \in DOMAIN pending : Hits(pending[j], k)
    <3>1. PICK j \in DOMAIN pending : Hits(pending[j], k)
      BY <2>3
    <3>2. pending[j].short = k /\ pending[j].user = req[c].user
      BY <2>3, <3>1 DEF Holds, Owned
    <3>3. Len(delivered) + j > born[c]
      <4>1. j \in Nat
        BY <1>3
      <4> QED  BY <1>5, <1>6, <4>1, Plain
    <3> QED  BY <1>5, <2>1, <3>2, <3>3 DEF Gone
  <2>4. CASE Holds(c, k, req[c].urls[i]) /\ ~\E j \in DOMAIN pending : Hits(pending[j], k)
    <3>1. k \in DOMAIN urls' /\ urls'[k] = urls[k]
      BY <1>1, <1>2, <2>4 DEF Holds
    <3> QED  BY <2>1, <2>4, <3>1 DEF Holds
  <2> QED  BY <2>2, <2>3, <2>4 DEF IInv, LeadInv, Leads
<1>9. DeletedByOwner'
  <2> SUFFICES ASSUME NEW k \in DOMAIN urls, urls'[k].deleted
               PROVE  \E i \in DOMAIN delivered' :
                        /\ delivered'[i].short = k /\ delivered'[i].user = urls'[k].user
                        /\ req[delivered'[i].call].kind = "delete" /\ ~req[delivered'[i].call].new
    BY <1>1 DEF DeletedByOwner
  <2>1. CASE \E j \in DOMAIN pending : Hits(pending[j], k)
    <3>1. PICK j \in DOMAIN pending : pending[j].short = k /\ pending[j].user = urls[k].user
      BY <2>1 DEF Owned
    <3>2. Deleting(pending[j].call)
      BY DEF IInv, QueueInv, Asked
    <3> QED  BY <1>2, <1>5, <3>1, <3>2 DEF Deleting
  <2>2. CASE ~\E j \in DOMAIN pending : Hits(pending[j], k)
    <3>1. urls'[k] = urls[k]
      BY <1>2, <2>2
    <3> QED  BY <1>5, <3>1 DEF IInv, DeletedByOwner
  <2> QED  BY <2>1, <2>2
<1>10. DeliveredIsDeleted'
  <2> SUFFICES ASSUME NEW i \in DOMAIN delivered', Owned(urls', delivered'[i]),
                      ~urls'[delivered'[i].short].deleted
               PROVE  \E c \in Calls : \E j \in DOMAIN Given(c)' :
                        /\ Given(c)'[j] = delivered'[i].short /\ req[c].user = delivered'[i].user
                        /\ born[c] >= i
    BY DEF DeliveredIsDeleted
  <2> DEFINE k == delivered'[i].short
  <2>1. k \in DOMAIN urls /\ ~urls[k].deleted /\ urls[k].user = delivered'[i].user
    BY <1>1, <1>2 DEF Owned
  <2>2. CASE i \in DOMAIN delivered /\ delivered'[i] = delivered[i]
    <3>1. PICK c \in Calls : \E j \in DOMAIN Given(c) :
            Given(c)[j] = k /\ req[c].user = delivered[i].user /\ born[c] >= i
      BY <2>1, <2>2 DEF IInv, DeliveredIsDeleted, Owned
    <3>2. Given(c)' = Given(c)
      BY DEF Given
    <3> QED  BY <2>2, <3>1, <3>2
  <2>3. CASE \E j \in DOMAIN pending : delivered'[i] = pending[j]
    <3>1. \E j \in DOMAIN pending : Hits(pending[j], k)
      BY <2>1, <2>3 DEF Owned
    <3> QED  BY <1>2, <2>1, <3>1
  <2> QED  BY <1>5, <2>2, <2>3
<1>11. StoreStep
  <2> DEFINE K == {k \in DOMAIN urls : \E i \in DOMAIN pending : Hits(pending[i], k)}
  <2>1. K \in SUBSET Paths
    BY Plain
  <2>2. urls' = [k \in DOMAIN urls |->
                   IF k \in K THEN [urls[k] EXCEPT !.deleted = TRUE] ELSE urls[k]]
    BY DEF MarkDeleted
  <2> HIDE DEF K
  <2>3. K \subseteq DOMAIN urls
    BY DEF K
  <2> QED  BY <2>1, <2>2, <2>3 DEF StoreStep, AbstractStore!Next, AbstractStore!Remove
<1> QED  BY <1>4, <1>6, <1>7, <1>8, <1>9, <1>10, <1>11 DEF IInv

\* A step that touches neither calls nor map nor queue.
LEMMA StutterStep ==
  ASSUME IInv, UNCHANGED <<urls, pc, req, tries, ans, born, pending, delivered>>
  PROVE  IInv' /\ StoreStep
<1>1. \A c \in Calls : Given(c)' = Given(c)
  BY DEF Given
<1>2. Shape' /\ CallInv' /\ QueueInv'
  BY DEF IInv, Shape, CallInv, CallOk, QueueInv, Asked, Deleting
<1>3. LeadInv'
  BY <1>1 DEF IInv, LeadInv, Leads, Holds, Gone
<1>4. DeletedByOwner' /\ DeliveredIsDeleted'
  BY <1>1 DEF IInv, DeletedByOwner, DeliveredIsDeleted, Owned
<1> QED  BY <1>2, <1>3, <1>4 DEF IInv, StoreStep

(***************************************************************************)
(* The theorems.                                                           *)
(***************************************************************************)

LEMMA NextIInv == IInv /\ [Next]_vars => IInv' /\ StoreStep
<1> SUFFICES ASSUME IInv, [Next]_vars PROVE IInv' /\ StoreStep
  OBVIOUS
<1> USE DEF queue
<1>1. ASSUME NEW c \in Calls, Serve(c) PROVE IInv' /\ StoreStep
  BY <1>1, StartStep, ShortenStep, ShortenBatchStep, PushNextStep, ReadStep DEF Serve
<1>2. CASE UNCHANGED <<urls, pc, req, tries, ans, born, pending, delivered>>
  BY <1>2, StutterStep
<1>3. CASE Flush
  BY <1>3, HandOverStep DEF Flush
<1>4. CASE Close
  BY <1>2, <1>4 DEF Close, Queue!Close
<1>5. CASE LastFlush
  <2>1. CASE Queue!HandOver /\ urls' = MarkDeleted(urls, pending)
    BY <1>5, <2>1, HandOverStep DEF LastFlush
  <2>2. CASE UNCHANGED <<urls, queue>>
    BY <1>2, <1>5, <2>2 DEF LastFlush
  <2> QED  BY <1>5, <2>1, <2>2 DEF LastFlush
<1>6. CASE Cancel
  BY <1>2, <1>6 DEF Cancel
<1>7. CASE UNCHANGED vars
  BY <1>2, <1>7 DEF vars
<1> QED  BY <1>1, <1>3, <1>4, <1>5, <1>6, <1>7 DEF Next

\* The invariant holds in every state.
THEOREM Inductive == Spec => []IInv
  BY InitIInv, NextIInv, PTL DEF Spec

\* The path that storeURL or ShortenBatch answered leads to the url it was drawn for until
\* its user has it deleted, or a later url of the same batch takes it over.
THEOREM AnswersLead == Spec => []AnswerLeadsToOrig
<1>1. IInv => AnswerLeadsToOrig
  BY DEF IInv, LeadInv, Leads, Holds, AnswerLeadsToOrig
<1> QED  BY Inductive, <1>1, PTL

\* DeleteUserURLs marks a record only for the user who has the path now, and who asked.
THEOREM DeletionsAreOwned == Spec => []DeletedByOwner
<1>1. IInv => DeletedByOwner
  BY DEF IInv
<1> QED  BY Inductive, <1>1, PTL

\* A deletion that reached deleteURLs is done, in the last flush as in any other.
THEOREM DeliveredAreDeleted == Spec => []DeliveredIsDeleted
<1>1. IInv => DeliveredIsDeleted
  BY DEF IInv
<1> QED  BY Inductive, <1>1, PTL

\* The map is an abstract url store: requests and queue together do nothing to it
\* that UrlStore does not let a storage do.
THEOREM ImplementsUrlStore == Spec => UrlStoreSpec
<1>1. Init => AbstractStore!Init
  BY DEF Init, AbstractStore!Init, EmptyMap, AbstractStore!EmptyMap
<1>2. IInv /\ [Next]_vars => [AbstractStore!Next]_urls
  BY NextIInv DEF StoreStep
<1> QED  BY Inductive, <1>1, <1>2, PTL DEF Spec, UrlStoreSpec, AbstractStore!Spec

(***************************************************************************)
(* What becomes of a deletion that was accepted.                           *)
(***************************************************************************)

\* Deletion n of call c, as PushNext makes it.
Names(e, c, n) == /\ e.call = c /\ e.n = n
                  /\ e.short = req[c].urls[n] /\ e.user = req[c].user

In(e, q) == \E i \in DOMAIN q : q[i] = e

\* Deletion n of call c waits, or was handed over.
Pushed(c, n) == \E e \in Element : Names(e, c, n) /\ (In(e, pending) \/ In(e, delivered))

\* All that call c has pushed is in the queue or was there, and a call that
\* succeeded has pushed everything.
PushedOk(c) ==
  /\ Deleting(c) => \A n \in 1..tries[c] : Pushed(c, n)
  /\ pc[c] = "done" /\ req[c].kind = "delete" /\ ans[c].err = "ok"
       => Deleting(c) /\ tries[c] = Len(req[c].urls)

PushedInv == \A c \in Calls : PushedOk(c)

LEMMA InitPushed == Init => PushedInv
  BY DEF Init, PushedInv, PushedOk, Deleting

\* Of the queue only a push and a hand over change what is to be deleted.
LEMMA StepOfQueue ==
  ASSUME IInv, [Next]_vars
  PROVE  \/ \E c \in Calls : PushNext(c)
         \/ UNCHANGED <<pending, delivered>>
         \/ Queue!HandOver
<1>1. CASE UNCHANGED vars
  BY <1>1 DEF vars, queue
<1>2. ASSUME NEW c \in Calls, Serve(c), ~PushNext(c) PROVE UNCHANGED <<pending, delivered>>
  BY <1>2 DEF Serve, Start, Shorten, ShortenBatch, Resolve, GetAll, queue
<1>3. CASE Flush \/ LastFlush
  BY <1>3 DEF Flush, LastFlush, queue
<1>4. CASE Close \/ Cancel
  BY <1>4 DEF Close, Cancel, Queue!Close, queue
<1> QED  BY <1>1, <1>2, <1>3, <1>4 DEF Next

\* The deletion that PushNext makes.
LEMMA OnePush ==
  ASSUME IInv, NEW c \in Calls, PushNext(c)
  PROVE  \E e \in Element :
           /\ Names(e, c, tries[c] + 1) /\ delivered' = delivered
           /\ \/ /\ pending' = Append(pending, e) /\ tries' = [tries EXCEPT ![c] = tries[c] + 1]
                 /\ \/ tries[c] + 1 = Len(req[c].urls) /\ Answer(c, "ok", "none")
                    \/ UNCHANGED <<pc, ans>>
              \/ Answer(c, "delete error", "none") /\ UNCHANGED <<tries, pending>>
<1> DEFINE n == tries[c] + 1
           e == [call |-> c, n |-> n, short |-> req[c].urls[n], user |-> req[c].user]
<1>1. pc[c] = "delete" /\ req[c].kind = "delete" /\ req[c] \in Requests[c]
      /\ tries[c] < Len(req[c].urls)
  BY DEF PushNext, IInv, CallInv, CallOk, Kinds
<1>2. req[c].urls \in Seq(Paths) /\ req[c].user \in Users
  BY <1>1, RequestsAssumption
<1>3. n \in 1..Len(req[c].urls) /\ n \in Nat
  BY <1>1, <1>2, Plain
<1>4. e \in Element /\ Names(e, c, n)
  <2>1. req[c].urls[n] \in Paths
    BY <1>2, <1>3
  <2> HIDE DEF n
  <2> QED  BY <1>2, <1>3, <2>1 DEF Element, Names
<1>5. /\ delivered' = delivered
      /\ \/ /\ pending' = Append(pending, e) /\ tries' = [tries EXCEPT ![c] = n]
            /\ \/ n = Len(req[c].urls) /\ Answer(c, "ok", "none")
               \/ UNCHANGED <<pc, ans>>
         \/ Answer(c, "delete error", "none") /\ UNCHANGED <<tries, pending>>
  BY DEF PushNext, Queue!Take, Queue!Refuse
<1> QED  BY <1>4, <1>5

LEMMA Appended ==
  ASSUME IInv, NEW e \in Element, pending' = Append(pending, e)
  PROVE  \A x : In(x, pending)' <=> In(x, pending) \/ x = e
<1>1. pending \in Seq(Element)
  BY Plain
<1>2. \A i \in DOMAIN pending : i \in DOMAIN pending' /\ pending'[i] = pending[i]
  BY <1>1
<1>3. \A i \in DOMAIN pending' : (i \in DOMAIN pending /\ pending'[i] = pending[i]) \/ pending'[i] = e
  BY <1>1
<1>4. Len(pending) + 1 \in DOMAIN pending' /\ pending'[Len(pending) + 1] = e
  BY <1>1
<1> QED  BY <1>2, <1>3, <1>4 DEF In

\* Nothing leaves the queue but to the storage.
LEMMA QueueKeeps ==
  ASSUME IInv, [Next]_vars, NEW e, In(e, pending) \/ In(e, delivered)
  PROVE  In(e, pending)' \/ In(e, delivered)'
<1>1. CASE UNCHANGED <<pending, delivered>>
  BY <1>1 DEF In
<1>2. CASE Queue!HandOver
  <2>1. /\ delivered' = delivered \o pending
        /\ pending \in Seq(Element) /\ delivered \in Seq(Element)
    BY <1>2, Plain DEF Queue!HandOver
  <2>2. \A i \in DOMAIN delivered : i \in DOMAIN delivered' /\ delivered'[i] = delivered[i]
    BY <2>1
  <2>3. \A i \in DOMAIN pending : /\ Len(delivered) + i \in DOMAIN delivered'
                                  /\ delivered'[Len(delivered) + i] = pending[i]
    BY <2>1
  <2> QED  BY <2>2, <2>3 DEF In
<1>3. ASSUME NEW c \in Calls, PushNext(c) PROVE In(e, pending)' \/ In(e, delivered)'
  <2>1. PICK x \in Element : delivered' = delivered /\ (pending' = pending \/ pending' = Append(pending, x))
    BY <1>3, OnePush
  <2> QED  BY <2>1, Appended DEF In
<1> QED  BY <1>1, <1>2, <1>3, StepOfQueue

LEMMA StillPushed ==
  ASSUME IInv, [Next]_vars, NEW c \in Calls, NEW n, Pushed(c, n), req'[c] = req[c]
  PROVE  Pushed(c, n)'
<1>1. PICK e \in Element : Names(e, c, n) /\ (In(e, pending) \/ In(e, delivered))
  BY DEF Pushed
<1>2. In(e, pending)' \/ In(e, delivered)'
  BY <1>1, QueueKeeps
<1>3. Names(e, c, n)'
  BY <1>1 DEF Names
<1> QED  BY <1>2, <1>3 DEF Pushed

\* A call keeps its promise while others make their steps.
LEMMA OtherPushed ==
  ASSUME IInv, [Next]_vars, NEW c \in Calls, PushedOk(c), pc'[c] = pc[c], req'[c] = req[c],
         tries'[c] = tries[c], ans'[c] = ans[c]
  PROVE  PushedOk(c)'
<1>1. Deleting(c)' => \A n \in 1..tries'[c] : Pushed(c, n)'
  BY StillPushed DEF PushedOk, Deleting
<1> QED  BY <1>1 DEF PushedOk, Deleting

LEMMA StartPushed ==
  ASSUME IInv, NEW c \in Calls, Start(c)
  PROVE  PushedOk(c)'
<1>1. pc[c] = "idle" /\ tries'[c] = 0 /\ ans[c].err = "none"
  BY DEF Start, IInv, CallInv, CallOk
<1>2. ans'[c].err # "ok"
  <2>1. \/ Answer(c, "unauthorized", "none")
        \/ Answer(c, "empty batch", "none")
        \/ UNCHANGED ans
    BY DEF Start
  <2>2. ASSUME NEW err, err # "ok", Answer(c, err, "none") PROVE ans'[c].err # "ok"
    BY <2>2, Ended
  <2>3. "unauthorized" # "ok" /\ "empty batch" # "ok"
    BY Zenon
  <2> QED  BY <1>1, <2>1, <2>2, <2>3
<1>3. \A n \in 1..tries'[c] : Pushed(c, n)'
  BY <1>1
<1> QED  BY <1>2, <1>3 DEF PushedOk

LEMMA PushPushed ==
  ASSUME IInv, [Next]_vars, NEW c \in Calls, PushNext(c), PushedOk(c)
  PROVE  PushedOk(c)'
<1>1. req' = req /\ pc[c] = "delete" /\ Deleting(c) /\ ans[c].err = "none"
  BY DEF PushNext, IInv, CallInv, CallOk, Deleting, Kinds
<1>2. PICK e \in Element :
        /\ Names(e, c, tries[c] + 1) /\ delivered' = delivered
        /\ \/ /\ pending' = Append(pending, e) /\ tries' = [tries EXCEPT ![c] = tries[c] + 1]
              /\ \/ tries[c] + 1 = Len(req[c].urls) /\ Answer(c, "ok", "none")
                 \/ UNCHANGED <<pc, ans>>
           \/ Answer(c, "delete error", "none") /\ UNCHANGED <<tries, pending>>
  BY OnePush
<1>3. \A n \in 1..tries[c] : Pushed(c, n)'
  BY <1>1, StillPushed DEF PushedOk
<1>4. Deleting(c)'
  <2>1. (\E err, val : Answer(c, err, val)) \/ pc' = pc
    BY <1>2
  <2>2. pc'[c] # "idle"
    BY <1>1, <2>1, Plain DEF Answer
  <2> QED  BY <1>1, <2>2 DEF Deleting
<1>5. CASE /\ pending' = Append(pending, e) /\ tries' = [tries EXCEPT ![c] = tries[c] + 1]
           /\ tries[c] + 1 = Len(req[c].urls) \/ UNCHANGED <<pc, ans>>
  <2>1. tries'[c] = tries[c] + 1 /\ tries[c] \in Nat
    BY <1>5, Plain
  <2>2. PICK k : k = tries[c] + 1
    OBVIOUS
  <2>3. Pushed(c, k)'
    <3>1. Names(e, c, k)'
      BY <1>1, <1>2, <2>2 DEF Names
    <3>2. In(e, pending)'
      BY <1>5, Appended
    <3> QED  BY <3>1, <3>2 DEF Pushed
  <2>4. \A n \in 1..tries'[c] : n \in 1..tries[c] \/ n = k
    BY <2>1, <2>2
  <2>5. \A n \in 1..tries'[c] : Pushed(c, n)'
    BY <1>3, <2>3, <2>4
  <2>6. ans'[c].err = "ok" => tries'[c] = Len(req[c].urls)
    BY <1>1, <1>5, <2>1
  <2> QED  BY <1>1, <1>4, <2>5, <2>6 DEF PushedOk
<1>6. CASE Answer(c, "delete error", "none") /\ UNCHANGED <<tries, pending>>
  <2>1. ans'[c].err = "delete error"
    BY <1>6, Ended
  <2> QED  BY <1>3, <1>4, <1>6, <2>1 DEF PushedOk
<1> QED  BY <1>2, <1>5, <1>6

\* Where the step of a call leaves the others, and what it is if it does not delete.
LEMMA ServeMoves ==
  ASSUME IInv, NEW c \in Calls, Serve(c), NEW d \in Calls
  PROVE  /\ d # c => /\ pc'[d] = pc[d] /\ req'[d] = req[d] /\ tries'[d] = tries[d]
                     /\ ans'[d] = ans[d]
         /\ Start(c) \/ PushNext(c) \/ req'[c].kind # "delete"
<1>1. /\ pc' = pc \/ \E k : pc' = [pc EXCEPT ![c] = k]
      /\ req' = req \/ \E r : req' = [req EXCEPT ![c] = r]
      /\ tries' = tries \/ tries' = [tries EXCEPT ![c] = @ + 1]
      /\ ans' = ans \/ \E err, val : Answer(c, err, val)
  BY DEF Serve, Start, Shorten, ShortenBatch, PushNext, Resolve, GetAll, Answer
<1>2. ASSUME d # c
      PROVE  pc'[d] = pc[d] /\ req'[d] = req[d] /\ tries'[d] = tries[d] /\ ans'[d] = ans[d]
  <2>1. pc'[d] = pc[d] /\ tries'[d] = tries[d]
    BY <1>1, <1>2, Plain
  <2>2. req'[d] = req[d]
    BY <1>1, <1>2, Plain
  <2>3. ans'[d] = ans[d]
    <3>1. ASSUME NEW err, NEW val, Answer(c, err, val) PROVE ans'[d] = ans[d]
      BY <1>2, <3>1, Plain DEF Answer
    <3> QED  BY <1>1, <3>1
  <2> QED  BY <2>1, <2>2, <2>3
<1>3. ASSUME Shorten(c) \/ ShortenBatch(c) \/ Resolve(c) \/ GetAll(c)
      PROVE  req'[c].kind # "delete"
  <2>1. pc[c] \in {"shorten", "batch", "resolve", "list"} /\ req' = req
    BY <1>3 DEF Shorten, ShortenBatch, Resolve, GetAll
  <2> QED  BY <2>1 DEF IInv, CallInv, CallOk, Kinds
<1> QED  BY <1>2, <1>3 DEF Serve

LEMMA NextPushed == IInv /\ PushedInv /\ [Next]_vars => PushedInv'
<1> SUFFICES ASSUME IInv, PushedInv, [Next]_vars, NEW d \in Calls PROVE PushedOk(d)'
  BY DEF PushedInv
<1>1. ASSUME UNCHANGED <<pc, req, tries, ans>> PROVE PushedOk(d)'
  BY <1>1, OtherPushed DEF PushedInv
<1>2. ASSUME NEW c \in Calls, Serve(c) PROVE PushedOk(d)'
  <2>1. CASE d # c
    BY <1>2, <2>1, ServeMoves, OtherPushed DEF PushedInv
  <2>2. CASE d = c /\ (Start(c) \/ PushNext(c))
    BY <2>2, StartPushed, PushPushed DEF PushedInv
  <2>3. CASE d = c /\ req'[c].kind # "delete"
    BY <2>3 DEF PushedOk, Deleting
  <2> QED  BY <1>2, <2>1, <2>2, <2>3, ServeMoves
<1>3. CASE UNCHANGED vars
  BY <1>1, <1>3 DEF vars
<1>4. CASE Flush \/ Close \/ LastFlush \/ Cancel
  BY <1>1, <1>4 DEF Flush, Close, LastFlush, Cancel
<1> QED  BY <1>2, <1>3, <1>4 DEF Next

\* Every deletion of a call to DeleteBatch that succeeded still waits in the queue, or was
\* handed over as number i, and then the record it names is deleted, if it is the
\* user's, or was stored after that.
AcceptedIsDone ==
  \A c \in Calls : pc[c] = "done" /\ ans[c].err = "ok" /\ req[c].kind = "delete" =>
    \A n \in DOMAIN req[c].urls :
      \/ \E i \in DOMAIN pending : Names(pending[i], c, n)
      \/ \E i \in DOMAIN delivered :
           /\ Names(delivered[i], c, n)
           /\ Owned(urls, delivered[i]) /\ ~urls[delivered[i].short].deleted =>
                \E d \in Calls : \E j \in DOMAIN Given(d) :
                  Given(d)[j] = delivered[i].short /\ req[d].user = req[c].user /\ born[d] >= i

\* No deletion that was accepted is forgotten, not even by a shutdown: over the memory
\* the last flush executes what it finds, whatever its context says.
THEOREM AcceptedAreDone == Spec => []AcceptedIsDone
<1>1. Init => IInv /\ PushedInv
  BY InitIInv, InitPushed
<1>2. IInv /\ PushedInv /\ [Next]_vars => IInv' /\ PushedInv'
  BY NextIInv, NextPushed
<1>3. IInv /\ PushedInv => AcceptedIsDone
  <2> SUFFICES ASSUME IInv, PushedInv, NEW c \in Calls,
                      pc[c] = "done", ans[c].err = "ok", req[c].kind = "delete",
                      NEW n \in DOMAIN req[c].urls,
                      ~\E i \in DOMAIN pending : Names(pending[i], c, n)
               PROVE  \E i \in DOMAIN delivered :
                        /\ Names(delivered[i], c, n)
                        /\ Owned(urls, delivered[i]) /\ ~urls[delivered[i].short].deleted =>
                             \E d \in Calls : \E j \in DOMAIN Given(d) :
                               /\ Given(d)[j] = delivered[i].short /\ req[d].user = req[c].user
                               /\ born[d] >= i
    BY DEF AcceptedIsDone
  <2>1. Deleting(c) /\ tries[c] = Len(req[c].urls) /\ req[c] \in Requests[c]
    BY DEF PushedInv, PushedOk, IInv, CallInv, CallOk
  <2>2. n \in 1..tries[c]
    <3>1. req[c].urls \in Seq(Paths)
      BY <2>1, RequestsAssumption
    <3> QED  BY <2>1, <3>1
  <2>3. PICK e \in Element : Names(e, c, n) /\ (In(e, pending) \/ In(e, delivered))
    BY <2>1, <2>2 DEF PushedInv, PushedOk, Pushed
  <2>4. PICK i \in DOMAIN delivered : delivered[i] = e
    BY <2>3 DEF In
  <2>5. delivered[i].user = req[c].user
    BY <2>3, <2>4 DEF Names
  <2> QED  BY <2>3, <2>4, <2>5 DEF IInv, DeliveredIsDeleted
<1> QED  BY <1>1, <1>2, <1>3, PTL DEF Spec
=============================================================================
