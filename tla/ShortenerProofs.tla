-------------------------- MODULE ShortenerProofs --------------------------
(***************************************************************************)
(* Proofs about Shortener for any calls, requests, urls and times: what an *)
(* answer leads to, whom a deletion hits, what an error leaves behind, and *)
(* that the table is an abstract url store. The inductive invariant ties   *)
(* a call to its request and a queued deletion to the call it came from.   *)
(***************************************************************************)
EXTENDS Shortener, TLAPS

Records == [orig : Origs, user : Users, deleted : BOOLEAN, ts : Nat]
PCs == Kinds \cup {"idle", "conflict", "push", "done"}
Element == [call : Calls, n : Nat, short : Hashes, user : Users, ts : Nat]

Shape ==
  /\ DOMAIN rows \subseteq Hashes /\ rows \in [DOMAIN rows -> Records]
  /\ clock \in Nat /\ faults \in Nat
  /\ pc \in [Calls -> PCs] /\ tries \in [Calls -> Nat] /\ stamp \in [Calls -> Nat]
  /\ req = [c \in Calls |-> req[c]] /\ ans = [c \in Calls |-> ans[c]]
  /\ pending \in Seq(Element) /\ delivered \in Seq(Element)

\* A call that deletes is one of a user who was known before.
Deleting(c) == pc[c] # "idle" /\ req[c].kind = "delete" /\ ~req[c].new

\* Where a call is fits what it asks, and it answers at its end.
CallInv ==
  \A c \in Calls :
    /\ pc[c] = "idle" => tries[c] = 0
    /\ pc[c] # "idle" => req[c] \in Requests[c]
    /\ pc[c] \in Kinds => req[c].kind = pc[c]
    /\ pc[c] = "conflict" => req[c].kind = "shorten"
    /\ pc[c] = "push" => Deleting(c) /\ tries[c] < Len(req[c].urls)
    /\ pc[c] # "done" => ans[c].err = "none"

\* A deletion is the one of the user who asked for it.
Asked(e) == Deleting(e.call) /\ req[e.call].user = e.user

QueueInv == /\ \A i \in DOMAIN pending : Asked(pending[i])
            /\ \A i \in DOMAIN delivered : Asked(delivered[i])

\* A deleted row was hit by a deletion that was delivered.
RowInv == \A h \in DOMAIN rows : rows[h].deleted =>
            \E i \in DOMAIN delivered : Deletes(delivered[i], rows, h)

IInv == Shape /\ CallInv /\ QueueInv /\ RowInv /\ AnswerLeadsToOrig

(***************************************************************************)
(* What statements do to the table.                                        *)
(***************************************************************************)

\* Rows are added, and marked deleted; nothing else about them changes.
RowsStay ==
  \A h \in DOMAIN rows : /\ h \in DOMAIN rows'
                         /\ rows'[h].orig = rows[h].orig /\ rows'[h].user = rows[h].user
                         /\ rows'[h].ts = rows[h].ts

LEMMA InsertRow ==
  ASSUME Shape, NEW url, url.short \in Hashes, url.orig \in Origs, url.user \in Users,
         ~HashTaken(rows, url), rows' = Insert(rows, url, clock)
  PROVE  /\ DOMAIN rows' = DOMAIN rows \cup {url.short} /\ rows' \in [DOMAIN rows' -> Records]
         /\ \A h \in DOMAIN rows : rows'[h] = rows[h]
         /\ rows'[url.short] = Row(url, clock)
         /\ url.short \notin DOMAIN rows
<1>1. Row(url, clock) \in Records
  BY DEF Row, Records, Shape
<1> QED  BY <1>1 DEF Insert, HashTaken, Shape

\* A url of a batch is found again by its path.
LEMMA ChosenUrl ==
  ASSUME NEW urls, \A i, j \in DOMAIN urls : i # j => urls[i].short # urls[j].short,
         NEW i \in DOMAIN urls
  PROVE  (CHOOSE url \in {urls[j] : j \in DOMAIN urls} : url.short = urls[i].short) = urls[i]
<1> DEFINE S == {urls[j] : j \in DOMAIN urls}
           u == CHOOSE url \in S : url.short = urls[i].short
<1>1. urls[i] \in S
  OBVIOUS
<1>2. u \in S /\ u.short = urls[i].short
  <2> HIDE DEF S
  <2> QED  BY <1>1
<1>3. PICK j \in DOMAIN urls : u = urls[j]
  <2> HIDE DEF u
  <2> QED  BY <1>2
<1>4. urls[j].short = urls[i].short
  <2> HIDE DEF u
  <2> QED  BY <1>2, <1>3
<1> QED  BY <1>3, <1>4

LEMMA InsertRows ==
  ASSUME Shape, NEW urls, BatchFits(rows, urls), rows' = InsertBatch(rows, urls, clock),
         \A i \in DOMAIN urls : /\ urls[i].short \in Hashes
                                /\ urls[i].orig \in Origs /\ urls[i].user \in Users
  PROVE  /\ DOMAIN rows' = DOMAIN rows \cup {urls[i].short : i \in DOMAIN urls}
         /\ rows' \in [DOMAIN rows' -> Records]
         /\ \A h \in DOMAIN rows : rows'[h] = rows[h]
         /\ \A i \in DOMAIN urls : /\ urls[i].short \notin DOMAIN rows
                                   /\ rows'[urls[i].short] = Row(urls[i], clock)
<1> DEFINE Chosen(h) == CHOOSE url \in {urls[i] : i \in DOMAIN urls} : url.short = h
           New == {urls[i].short : i \in DOMAIN urls}
<1>1. \A i \in DOMAIN urls : urls[i].short \notin DOMAIN rows
  BY DEF BatchFits, HashTaken
<1>2. \A i \in DOMAIN urls : Chosen(urls[i].short) = urls[i]
  BY ChosenUrl DEF BatchFits
<1>3. rows' = [h \in DOMAIN rows \cup New |->
                 IF h \in DOMAIN rows THEN rows[h] ELSE Row(Chosen(h), clock)]
  BY DEF InsertBatch
<1> HIDE DEF Chosen
<1>4. \A i \in DOMAIN urls : rows'[urls[i].short] = Row(urls[i], clock)
  BY <1>1, <1>2, <1>3
<1>5. \A i \in DOMAIN urls : Row(urls[i], clock) \in Records
  BY DEF Row, Records, Shape
<1>6. ASSUME NEW h \in DOMAIN rows \cup New PROVE rows'[h] \in Records
  <2>1. CASE h \in DOMAIN rows
    BY <1>3, <2>1 DEF Shape
  <2>2. CASE h \in New
    BY <1>4, <1>5, <2>2
  <2> QED  BY <2>1, <2>2
<1>7. DOMAIN rows' = DOMAIN rows \cup New /\ \A h \in DOMAIN rows : rows'[h] = rows[h]
  BY <1>3
<1>8. rows' \in [DOMAIN rows' -> Records]
  <2> HIDE DEF New
  <2>1. rows' = [h \in DOMAIN rows' |-> rows'[h]]
    BY <1>3
  <2> QED  BY <1>6, <1>7, <2>1
<1> QED  BY <1>1, <1>4, <1>7, <1>8

\* The urls of a batch, each with the path that was drawn for it.
Drawn(c, hs) == [i \in DOMAIN hs |-> [short |-> hs[i], orig |-> req[c].urls[i],
                                      user |-> req[c].user]]

LEMMA DrawnUrls ==
  ASSUME NEW c \in Calls, req[c] \in Requests[c], req[c].kind = "batch",
         NEW hs \in [DOMAIN req[c].urls -> Hashes]
  PROVE  /\ DOMAIN Drawn(c, hs) = DOMAIN hs
         /\ \A i \in DOMAIN hs : /\ Drawn(c, hs)[i].short = hs[i] /\ hs[i] \in Hashes
                                 /\ Drawn(c, hs)[i].orig = req[c].urls[i] /\ req[c].urls[i] \in Origs
                                 /\ Drawn(c, hs)[i].user = req[c].user /\ req[c].user \in Users
<1>1. req[c].urls \in Seq(Origs) /\ req[c].user \in Users
  BY RequestsAssumption
<1>2. \A i \in DOMAIN req[c].urls : req[c].urls[i] \in Origs
  BY <1>1
<1> QED  BY <1>1, <1>2 DEF Drawn

LEMMA DeleteRows ==
  ASSUME Shape, rows' = DeleteBatch(rows, pending)
  PROVE  /\ DOMAIN rows' = DOMAIN rows /\ rows' \in [DOMAIN rows' -> Records]
         /\ \A h \in DOMAIN rows :
              \/ rows'[h] = rows[h]
              \/ /\ rows'[h] = [rows[h] EXCEPT !.deleted = TRUE]
                 /\ \E i \in DOMAIN pending : Deletes(pending[i], rows, h)
<1>1. \A h \in DOMAIN rows : [rows[h] EXCEPT !.deleted = TRUE] \in Records
  BY DEF Shape, Records
<1> QED  BY <1>1 DEF DeleteBatch, Shape

(***************************************************************************)
(* What stays while other calls make their steps.                          *)
(***************************************************************************)

\* The answer of one call leads to what it asked for.
Leads(c) ==
  ans[c].err \in {"ok", "conflict"} =>
    LET hs == CASE req[c].kind = "shorten" -> <<ans[c].val>>
                [] req[c].kind = "batch" -> ans[c].val
                [] OTHER -> <<>>
    IN  /\ \A i \in DOMAIN hs : hs[i] \in DOMAIN rows /\ rows[hs[i]].orig = req[c].urls[i]
        /\ req[c].kind = "resolve" =>
             \/ \E h \in DOMAIN rows : h = req[c].urls[1] /\ rows[h].orig = ans[c].val
             \/ ans[c].val = "empty" /\ faults > 0

LEMMA AllLead == AnswerLeadsToOrig <=> \A c \in Calls : Leads(c)
  BY DEF AnswerLeadsToOrig, Leads

LEMMA StillLeads ==
  ASSUME NEW c \in Calls, Leads(c), RowsStay, faults \in Nat, faults' \in Nat,
         faults' >= faults, ans'[c] = ans[c], req'[c] = req[c]
  PROVE  Leads(c)'
<1> SUFFICES ASSUME ans[c].err \in {"ok", "conflict"} PROVE Leads(c)'
  BY DEF Leads
<1>1. CASE req[c].kind = "shorten"
  BY <1>1 DEF Leads, RowsStay
<1>2. CASE req[c].kind = "batch"
  BY <1>2 DEF Leads, RowsStay
<1>3. CASE req[c].kind = "resolve"
  BY <1>3 DEF Leads, RowsStay
<1>4. CASE req[c].kind \notin {"shorten", "batch", "resolve"}
  BY <1>4 DEF Leads
<1> QED  BY <1>1, <1>2, <1>3, <1>4

\* Deletions stay asked for, and deleted rows hit.
LEMMA StillAsked ==
  ASSUME NEW e, Asked(e), pc'[e.call] # "idle", req'[e.call] = req[e.call]
  PROVE  Asked(e)'
  BY DEF Asked, Deleting

LEMMA StillHit ==
  ASSUME RowInv, delivered' = delivered, RowsStay,
         \A h \in DOMAIN rows' \ DOMAIN rows : ~rows'[h].deleted,
         \A h \in DOMAIN rows : rows'[h].deleted = rows[h].deleted
  PROVE  RowInv'
  BY DEF RowInv, RowsStay, Deletes

LEMMA InitIInv == Init => IInv
<1> SUFFICES ASSUME Init PROVE IInv
  OBVIOUS
<1> USE DEF Init, Queue!Init
<1>1. Shape
  BY BoundsAssumption DEF Shape, NoRows, PCs, Records
<1>2. CallInv /\ AnswerLeadsToOrig
  BY DEF CallInv, AnswerLeadsToOrig, Kinds
<1>3. QueueInv /\ RowInv
  BY DEF QueueInv, RowInv, NoRows
<1> QED  BY <1>1, <1>2, <1>3 DEF IInv

(***************************************************************************)
(* A step of one call: the others, and the queue, stay as they are.        *)
(***************************************************************************)

Others(c) ==
  /\ pc' = [pc EXCEPT ![c] = pc'[c]] /\ req' = [req EXCEPT ![c] = req'[c]]
  /\ tries' = [tries EXCEPT ![c] = tries'[c]] /\ stamp' = [stamp EXCEPT ![c] = stamp'[c]]
  /\ ans' = [ans EXCEPT ![c] = ans'[c]]

\* The part of the call invariant about one call.
CallOk(c) ==
  /\ pc[c] = "idle" => tries[c] = 0
  /\ pc[c] # "idle" => req[c] \in Requests[c]
  /\ pc[c] \in Kinds => req[c].kind = pc[c]
  /\ pc[c] = "conflict" => req[c].kind = "shorten"
  /\ pc[c] = "push" => Deleting(c) /\ tries[c] < Len(req[c].urls)
  /\ pc[c] # "done" => ans[c].err = "none"

LEMMA OneCall ==
  ASSUME IInv, NEW c \in Calls, Others(c), Leads(c)', CallOk(c)',
         pc'[c] \in PCs, tries'[c] \in Nat, stamp'[c] \in Nat,
         clock' = clock, faults' \in Nat, faults' >= faults, RowsStay
  PROVE  /\ CallInv' /\ AnswerLeadsToOrig'
         /\ pc' \in [Calls -> PCs] /\ tries' \in [Calls -> Nat] /\ stamp' \in [Calls -> Nat]
         /\ req' = [d \in Calls |-> req'[d]] /\ ans' = [d \in Calls |-> ans'[d]]
<1>1. /\ pc' \in [Calls -> PCs] /\ tries' \in [Calls -> Nat] /\ stamp' \in [Calls -> Nat]
      /\ req' = [d \in Calls |-> req'[d]] /\ ans' = [d \in Calls |-> ans'[d]]
  BY DEF IInv, Shape, Others
<1>2. \A d \in Calls : d # c => /\ pc'[d] = pc[d] /\ req'[d] = req[d] /\ tries'[d] = tries[d]
                                /\ ans'[d] = ans[d]
  BY DEF IInv, Shape, Others
<1>3. ASSUME NEW d \in Calls PROVE CallOk(d)'
  BY <1>2 DEF IInv, CallInv, CallOk, Deleting
<1>4. ASSUME NEW d \in Calls PROVE Leads(d)'
  <2>1. CASE d = c
    BY <2>1
  <2>2. CASE d # c
    BY <1>2, <2>2, AllLead, StillLeads DEF IInv, Shape
  <2> QED  BY <2>1, <2>2
<1>5. CallInv'
  BY <1>3 DEF CallInv, CallOk
<1>6. AnswerLeadsToOrig'
  BY <1>4 DEF AnswerLeadsToOrig, Leads
<1> QED  BY <1>1, <1>5, <1>6

LEMMA InQueue ==
  ASSUME NEW q \in Seq(Element), NEW i \in DOMAIN q
  PROVE  q[i] \in Element /\ q[i].call \in Calls
<1>1. q[i] \in Element
  OBVIOUS
<1> QED  BY <1>1 DEF Element

LEMMA QueueStays ==
  ASSUME IInv, NEW c \in Calls, Others(c), UNCHANGED <<pending, delivered>>,
         pc[c] # "idle" => pc'[c] # "idle" /\ req'[c] = req[c]
  PROVE  QueueInv'
<1>1. \A d \in Calls : pc[d] # "idle" => pc'[d] # "idle" /\ req'[d] = req[d]
  BY DEF IInv, Shape, Others
<1>2. \A i \in DOMAIN pending : pending[i].call \in Calls /\ pc[pending[i].call] # "idle"
  BY InQueue DEF IInv, Shape, QueueInv, Asked, Deleting
<1>3. \A i \in DOMAIN delivered : delivered[i].call \in Calls /\ pc[delivered[i].call] # "idle"
  BY InQueue DEF IInv, Shape, QueueInv, Asked, Deleting
<1> QED  BY <1>1, <1>2, <1>3, StillAsked DEF IInv, QueueInv

(***************************************************************************)
(* The steps of a call.                                                    *)
(***************************************************************************)

\* The variables that arithmetic and updates need to know about.
LEMMA Plain ==
  ASSUME IInv
  PROVE  /\ faults \in Nat /\ clock \in Nat /\ ans = [c \in Calls |-> ans[c]]
         /\ tries \in [Calls -> Nat] /\ stamp \in [Calls -> Nat] /\ pc \in [Calls -> PCs]
         /\ pending \in Seq(Element) /\ delivered \in Seq(Element)
  BY DEF IInv, Shape

LEMMA FaultsGrow ==
  ASSUME IInv, Fault \/ UNCHANGED faults
  PROVE  faults' \in Nat /\ faults' >= faults /\ (Fault => faults' > 0)
<1>1. faults \in Nat /\ (faults' = faults + 1 \/ faults' = faults)
  BY Plain DEF Fault
<1>2. Fault => faults' = faults + 1
  BY DEF Fault
<1> QED  BY <1>1, <1>2

LEMMA Ended ==
  ASSUME IInv, NEW c \in Calls, NEW err, NEW val,
         ans' = [ans EXCEPT ![c] = [err |-> err, val |-> val]]
  PROVE  ans'[c].err = err /\ ans'[c].val = val
<1>1. ans = [d \in Calls |-> ans[d]]
  BY Plain
<1>2. ans'[c] = [err |-> err, val |-> val]
  BY <1>1
<1> QED  BY <1>2

\* A step of a call that leaves the table and the queue alone.
LEMMA QuietStep ==
  ASSUME IInv, NEW c \in Calls, Others(c), Leads(c)', CallOk(c)',
         pc'[c] \in PCs, tries'[c] \in Nat, stamp'[c] \in Nat,
         UNCHANGED <<rows, clock, pending, delivered>>, faults' \in Nat, faults' >= faults,
         pc[c] # "idle" => pc'[c] # "idle" /\ req'[c] = req[c]
  PROVE  IInv'
<1>1. RowsStay
  BY DEF RowsStay
<1>2. Shape' /\ CallInv' /\ AnswerLeadsToOrig'
  BY <1>1, OneCall DEF IInv, Shape
<1>3. QueueInv'
  BY QueueStays
<1>4. RowInv'
  BY DEF IInv, RowInv, Deletes
<1> QED  BY <1>2, <1>3, <1>4 DEF IInv

\* A step of a call that stores rows.
LEMMA StoringStep ==
  ASSUME IInv, NEW c \in Calls, Others(c), Leads(c)', CallOk(c)',
         pc'[c] \in PCs, tries'[c] \in Nat, stamp'[c] \in Nat,
         UNCHANGED <<clock, pending, delivered>>, faults' \in Nat, faults' >= faults,
         pc[c] # "idle", pc'[c] # "idle" /\ req'[c] = req[c],
         DOMAIN rows \subseteq DOMAIN rows', DOMAIN rows' \subseteq Hashes,
         rows' \in [DOMAIN rows' -> Records],
         \A h \in DOMAIN rows : rows'[h] = rows[h],
         \A h \in DOMAIN rows' \ DOMAIN rows : ~rows'[h].deleted
  PROVE  IInv'
<1>1. RowsStay
  BY DEF RowsStay
<1>2. Shape' /\ CallInv' /\ AnswerLeadsToOrig'
  BY <1>1, OneCall DEF IInv, Shape
<1>3. QueueInv'
  BY QueueStays
<1>4. RowInv'
  BY <1>1, StillHit DEF IInv
<1> QED  BY <1>2, <1>3, <1>4 DEF IInv

\* A call that ends without an answer that leads anywhere.
LEMMA EndsEmpty ==
  ASSUME NEW c \in Calls, ans'[c].err \notin {"ok", "conflict"}
  PROVE  Leads(c)'
  BY DEF Leads

LEMMA StartStep ==
  ASSUME IInv, NEW c \in Calls, Start(c)
  PROVE  IInv'
<1>1. PICK r \in Requests[c] :
        /\ req' = [req EXCEPT ![c] = r]
        /\ \/ /\ pc' = [pc EXCEPT ![c] = "done"] /\ stamp' = stamp
              /\ \/ ans' = [ans EXCEPT ![c] = [err |-> "unauthorized", val |-> "none"]]
                 \/ ans' = [ans EXCEPT ![c] = [err |-> "empty batch", val |-> "none"]]
           \/ /\ r.kind = "delete" /\ ~r.new /\ r.urls # <<>>
              /\ stamp' = [stamp EXCEPT ![c] = clock]
              /\ pc' = [pc EXCEPT ![c] = "push"]
              /\ ans' = ans
           \/ /\ r.kind # "delete"
              /\ pc' = [pc EXCEPT ![c] = r.kind]
              /\ UNCHANGED <<stamp, ans>>
  BY DEF Start, Answer
<1>2. r.kind \in Kinds /\ (r.urls # <<>> => Len(r.urls) > 0)
  BY RequestsAssumption
<1>3. pc[c] = "idle" /\ tries[c] = 0 /\ ans[c].err = "none"
  BY DEF Start, IInv, CallInv
<1>4. UNCHANGED <<rows, clock, faults, tries, pending, delivered>>
  BY DEF Start, queue
<1>5. Others(c) /\ req'[c] = r /\ tries'[c] = 0 /\ stamp'[c] \in Nat
  BY <1>1, <1>3, <1>4 DEF Others, IInv, Shape
<1>6. ans'[c].err \notin {"ok", "conflict"}
  <2>1. ans = [d \in Calls |-> ans[d]]
    BY Plain
  <2>2. CASE ans' = ans
    BY <1>3, <2>2
  <2>3. CASE ans' = [ans EXCEPT ![c] = [err |-> "unauthorized", val |-> "none"]]
    BY <2>1, <2>3
  <2>4. CASE ans' = [ans EXCEPT ![c] = [err |-> "empty batch", val |-> "none"]]
    BY <2>1, <2>4
  <2> QED  BY <1>1, <2>2, <2>3, <2>4
<1>7. pc'[c] \in PCs /\ CallOk(c)'
  BY <1>1, <1>2, <1>3, <1>5 DEF CallOk, Deleting, PCs, Kinds, IInv, Shape
<1>8. Leads(c)' /\ faults' \in Nat /\ faults' >= faults
  BY <1>4, <1>6, EndsEmpty, Plain
<1> QED  BY <1>3, <1>4, <1>5, <1>7, <1>8, QuietStep

LEMMA ResolveStep ==
  ASSUME IInv, NEW c \in Calls, Resolve(c)
  PROVE  IInv'
<1>1. /\ pc[c] = "resolve" /\ req[c].kind = "resolve" /\ pc' = [pc EXCEPT ![c] = "done"]
      /\ UNCHANGED <<rows, clock, req, tries, stamp, pending, delivered>>
  BY DEF Resolve, Answer, queue, IInv, CallInv, Kinds
<1>2. Others(c) /\ CallOk(c)' /\ pc'[c] \in PCs /\ tries'[c] \in Nat /\ stamp'[c] \in Nat
  BY <1>1 DEF Resolve, Answer, Others, CallOk, IInv, CallInv, Shape, PCs, Kinds
<1>3. faults' \in Nat /\ faults' >= faults
  <2>1. Fault \/ UNCHANGED faults
    BY DEF Resolve
  <2> QED  BY <2>1, FaultsGrow
<1>4. Leads(c)'
  <2> DEFINE orig == GetOrig(rows, req[c].urls[1])
  <2>1. CASE orig \in {"not found", "deleted"} /\ ans' = [ans EXCEPT ![c] = [err |-> orig, val |-> "none"]]
    BY <2>1, EndsEmpty DEF IInv, Shape
  <2>2. CASE orig \notin {"not found", "deleted"} /\ ans' = [ans EXCEPT ![c] = [err |-> "ok", val |-> orig]]
    <3>1. req[c].urls[1] \in DOMAIN rows /\ rows[req[c].urls[1]].orig = orig /\ ans'[c].val = orig
      BY <2>2 DEF GetOrig, IInv, Shape
    <3> QED  BY <1>1, <3>1 DEF Leads
  <2>3. CASE Fault /\ ans' = [ans EXCEPT ![c] = [err |-> "ok", val |-> "empty"]]
    <3>1. faults' > 0 /\ ans'[c].val = "empty"
      BY <2>3, FaultsGrow, Plain
    <3> QED  BY <1>1, <3>1 DEF Leads
  <2> QED  BY <2>1, <2>2, <2>3 DEF Resolve, Answer
<1> QED  BY <1>1, <1>2, <1>3, <1>4, QuietStep

LEMMA GetAllStep ==
  ASSUME IInv, NEW c \in Calls, GetAll(c)
  PROVE  IInv'
<1>1. /\ pc[c] = "list" /\ req[c].kind = "list" /\ pc' = [pc EXCEPT ![c] = "done"]
      /\ UNCHANGED <<rows, clock, req, tries, stamp, pending, delivered>>
  BY DEF GetAll, Answer, queue, IInv, CallInv, Kinds
<1>2. Others(c) /\ CallOk(c)' /\ pc'[c] \in PCs /\ tries'[c] \in Nat /\ stamp'[c] \in Nat
  BY <1>1 DEF GetAll, Answer, Others, CallOk, IInv, CallInv, Shape, PCs, Kinds
<1>3. faults' \in Nat /\ faults' >= faults
  <2>1. Fault \/ UNCHANGED faults
    BY DEF GetAll
  <2> QED  BY <2>1, FaultsGrow
<1>4. Leads(c)'
  BY <1>1 DEF Leads
<1> QED  BY <1>1, <1>2, <1>3, <1>4, QuietStep

LEMMA ConflictStep ==
  ASSUME IInv, NEW c \in Calls, Conflict(c)
  PROVE  IInv'
<1>1. /\ pc[c] = "conflict" /\ req[c].kind = "shorten" /\ pc' = [pc EXCEPT ![c] = "done"]
      /\ UNCHANGED <<rows, clock, req, tries, stamp, pending, delivered>>
  BY DEF Conflict, Answer, queue, IInv, CallInv
<1>2. Others(c) /\ CallOk(c)' /\ pc'[c] \in PCs /\ tries'[c] \in Nat /\ stamp'[c] \in Nat
  BY <1>1 DEF Conflict, Answer, Others, CallOk, IInv, CallInv, Shape, PCs, Kinds
<1>3. faults' \in Nat /\ faults' >= faults
  <2>1. Fault \/ UNCHANGED faults
    BY DEF Conflict
  <2> QED  BY <2>1, FaultsGrow
<1>4. Leads(c)'
  <2>1. CASE \E h \in LiveHashes(rows, req[c].urls[1]) :
               ans' = [ans EXCEPT ![c] = [err |-> "conflict", val |-> h]]
    <3>1. ans'[c].val \in DOMAIN rows' /\ rows'[ans'[c].val].orig = req'[c].urls[1]
      BY <1>1, <2>1 DEF LiveHashes, IInv, Shape
    <3> QED  BY <1>1, <3>1 DEF Leads
  <2>2. CASE ans' = [ans EXCEPT ![c] = [err |-> "storage error", val |-> "none"]]
    BY <2>2, EndsEmpty DEF IInv, Shape
  <2> QED  BY <2>1, <2>2 DEF Conflict, Answer
<1> QED  BY <1>1, <1>2, <1>3, <1>4, QuietStep

\* One turn of the retry loop.
LEMMA ShortenStep ==
  ASSUME IInv, NEW c \in Calls, Shorten(c)
  PROVE  IInv'
<1> DEFINE Url(h) == [short |-> h, orig |-> req[c].urls[1], user |-> req[c].user]
           Ends(err, val) == /\ pc' = [pc EXCEPT ![c] = "done"]
                             /\ ans' = [ans EXCEPT ![c] = [err |-> err, val |-> val]]
           Stored(h) == ~HashTaken(rows, Url(h)) /\ rows' = Insert(rows, Url(h), clock)
<1>1. PICK h \in Hashes :
        \/ Stored(h) /\ Ends("ok", h) /\ UNCHANGED <<faults, tries>>
        \/ /\ tries' = [tries EXCEPT ![c] = @ + 1]
           /\ Ends("storage error", "none") \/ UNCHANGED <<pc, ans>>
           /\ UNCHANGED <<rows, faults>>
        \/ pc' = [pc EXCEPT ![c] = "conflict"] /\ UNCHANGED <<rows, faults, tries, ans>>
        \/ (Stored(h) \/ UNCHANGED rows) /\ Fault /\ Ends("storage error", "none") /\ UNCHANGED tries
  BY DEF Shorten, Answer
<1>2. /\ pc[c] = "shorten" /\ req[c].kind = "shorten" /\ req[c] \in Requests[c] /\ ans[c].err = "none"
      /\ UNCHANGED <<clock, req, stamp, pending, delivered>>
  BY DEF Shorten, queue, IInv, CallInv, Kinds
<1>3. req[c].urls[1] \in Origs /\ req[c].user \in Users
  <2>1. req[c].urls \in Seq(Origs) /\ Len(req[c].urls) = 1 /\ req[c].user \in Users
    BY <1>2, RequestsAssumption
  <2> QED  BY <2>1
<1>4. \A err, val : Ends(err, val) => ans'[c].err = err /\ ans'[c].val = val /\ pc'[c] = "done"
  BY Ended, Plain
<1>5. /\ tries'[c] \in Nat /\ stamp'[c] \in Nat
      /\ pc'[c] = "done" \/ (ans' = ans /\ pc'[c] \in {"shorten", "conflict"})
  <2> HIDE DEF Stored, Ends
  <2>1. tries' = tries \/ tries' = [tries EXCEPT ![c] = @ + 1]
    BY <1>1
  <2>2. tries'[c] \in Nat /\ stamp'[c] \in Nat
    BY <1>2, <2>1, Plain
  <2>3. pc'[c] = "done" \/ (ans' = ans /\ (pc' = pc \/ pc' = [pc EXCEPT ![c] = "conflict"]))
    BY <1>1, <1>4
  <2> QED  BY <1>2, <2>2, <2>3, Plain
<1>6. Others(c)
  BY <1>1, <1>2, Plain DEF Others, IInv, Shape
<1>7. CallOk(c)' /\ pc'[c] \in PCs
  BY <1>2, <1>5 DEF CallOk, PCs, Kinds
<1>8. faults' \in Nat /\ faults' >= faults
  <2>1. Fault \/ UNCHANGED faults
    BY <1>1
  <2> QED  BY <2>1, FaultsGrow
<1>9. CASE UNCHANGED rows
  <2>1. ans'[c].err \notin {"ok", "conflict"} \/ Stored(h)
    <3> HIDE DEF Stored, Ends
    <3> QED  BY <1>1, <1>2, <1>4
  <2>2. ~Stored(h)
    <3>1. Url(h).short = h
      OBVIOUS
    <3> HIDE DEF Url
    <3>2. h \in DOMAIN Insert(rows, Url(h), clock)
      BY <3>1 DEF Insert
    <3> QED  BY <1>9, <3>1, <3>2 DEF HashTaken
  <2>3. Leads(c)'
    BY <2>1, <2>2, EndsEmpty
  <2> QED  BY <1>2, <1>5, <1>6, <1>7, <1>8, <1>9, <2>3, QuietStep
<1>10. CASE Stored(h)
  <2>1. Url(h).short = h /\ Url(h).orig = req[c].urls[1] /\ Url(h).user = req[c].user
    OBVIOUS
  <2> HIDE DEF Url
  <2>2. /\ DOMAIN rows' = DOMAIN rows \cup {h} /\ rows' \in [DOMAIN rows' -> Records]
        /\ \A k \in DOMAIN rows : rows'[k] = rows[k]
        /\ rows'[h] = Row(Url(h), clock)
    BY <1>3, <1>10, <2>1, InsertRow DEF IInv
  <2>3. DOMAIN rows' \subseteq Hashes /\ rows'[h].orig = req[c].urls[1] /\ ~rows'[h].deleted
    BY <2>1, <2>2 DEF Row, IInv, Shape
  <2>4. Leads(c)'
    <3>1. CASE Ends("ok", h)
      <4>1. ans'[c].val = h /\ h \in DOMAIN rows'
        BY <1>4, <2>2, <3>1
      <4> QED  BY <1>2, <2>3, <4>1 DEF Leads
    <3>2. CASE ans'[c].err \notin {"ok", "conflict"}
      BY <3>2, EndsEmpty
    <3> HIDE DEF Stored, Ends
    <3> QED  BY <1>1, <1>2, <1>4, <3>1, <3>2
  <2> QED  BY <1>2, <1>5, <1>6, <1>7, <1>8, <2>2, <2>3, <2>4, StoringStep
<1> HIDE DEF Stored, Ends
<1> QED  BY <1>1, <1>9, <1>10

\* A batch is stored as a whole, or not at all.
LEMMA ShortenBatchStep ==
  ASSUME IInv, NEW c \in Calls, ShortenBatch(c)
  PROVE  IInv'
<1> DEFINE Ends(err, val) == /\ pc' = [pc EXCEPT ![c] = "done"]
                             /\ ans' = [ans EXCEPT ![c] = [err |-> err, val |-> val]]
           Stored(hs) == BatchFits(rows, Drawn(c, hs)) /\ rows' = InsertBatch(rows, Drawn(c, hs), clock)
<1>1. PICK hs \in [DOMAIN req[c].urls -> Hashes] :
        \/ Stored(hs) /\ Ends("ok", hs) /\ UNCHANGED faults
        \/ UNCHANGED rows /\ Ends("storage error", "none") /\ UNCHANGED faults
        \/ (Stored(hs) \/ UNCHANGED rows) /\ Fault /\ Ends("storage error", "none")
  BY DEF ShortenBatch, Answer, Drawn
<1>2. /\ pc[c] = "batch" /\ req[c].kind = "batch" /\ req[c] \in Requests[c]
      /\ UNCHANGED <<clock, req, tries, stamp, pending, delivered>>
  BY DEF ShortenBatch, queue, IInv, CallInv, Kinds
<1>3. \A err, val : Ends(err, val) => ans'[c].err = err /\ ans'[c].val = val
  BY Ended
<1>4. pc' = [pc EXCEPT ![c] = "done"] /\ pc'[c] = "done"
  BY <1>1, Plain
<1>5. Others(c) /\ CallOk(c)' /\ pc'[c] \in PCs /\ tries'[c] \in Nat /\ stamp'[c] \in Nat
  BY <1>1, <1>2, <1>4, Plain DEF Others, CallOk, IInv, Shape, PCs, Kinds
<1>6. faults' \in Nat /\ faults' >= faults
  <2>1. Fault \/ UNCHANGED faults
    BY <1>1
  <2> QED  BY <2>1, FaultsGrow
<1>7. CASE Stored(hs)
  <2> DEFINE urls == Drawn(c, hs)
  <2>1. /\ DOMAIN urls = DOMAIN hs
        /\ \A i \in DOMAIN hs : /\ urls[i].short = hs[i] /\ hs[i] \in Hashes
                                /\ urls[i].orig = req[c].urls[i] /\ urls[i].orig \in Origs
                                /\ urls[i].user \in Users
    BY <1>2, DrawnUrls
  <2> HIDE DEF urls
  <2>2. /\ DOMAIN rows' = DOMAIN rows \cup {urls[i].short : i \in DOMAIN urls}
        /\ rows' \in [DOMAIN rows' -> Records]
        /\ \A h \in DOMAIN rows : rows'[h] = rows[h]
        /\ \A i \in DOMAIN urls : rows'[urls[i].short] = Row(urls[i], clock)
    BY <1>7, <2>1, InsertRows DEF IInv, urls
  <2>3. \A i \in DOMAIN hs : /\ hs[i] \in DOMAIN rows' /\ rows'[hs[i]].orig = req[c].urls[i]
                             /\ ~rows'[hs[i]].deleted
    <3> SUFFICES ASSUME NEW i \in DOMAIN hs
                 PROVE  /\ hs[i] \in DOMAIN rows' /\ rows'[hs[i]].orig = req[c].urls[i]
                        /\ ~rows'[hs[i]].deleted
      OBVIOUS
    <3>1. rows'[hs[i]] = Row(urls[i], clock) /\ urls[i].short = hs[i] /\ urls[i].orig = req[c].urls[i]
      BY <2>1, <2>2
    <3>2. hs[i] \in DOMAIN rows'
      BY <2>1, <2>2
    <3> QED  BY <3>1, <3>2 DEF Row
  <2>4. /\ DOMAIN rows' \subseteq Hashes
        /\ \A h \in DOMAIN rows' \ DOMAIN rows : ~rows'[h].deleted
    BY <2>1, <2>2, <2>3 DEF IInv, Shape
  <2>5. Leads(c)'
    <3>1. CASE Ends("ok", hs)
      <4>1. ans'[c].val = hs
        BY <1>3, <3>1
      <4> QED  BY <1>2, <2>3, <4>1 DEF Leads
    <3>2. CASE Ends("storage error", "none")
      <4>1. ans'[c].err = "storage error"
        BY <1>3, <3>2
      <4> QED  BY <4>1, EndsEmpty
    <3> HIDE DEF Stored, Ends
    <3> QED  BY <1>1, <3>1, <3>2
  <2> QED  BY <1>2, <1>4, <1>5, <1>6, <2>2, <2>4, <2>5, StoringStep
<1>8. CASE UNCHANGED rows /\ ~Stored(hs)
  <2>1. Leads(c)'
    <3>1. ans'[c].err = "storage error"
      <4> HIDE DEF Stored, Ends
      <4> QED  BY <1>1, <1>8, <1>3
    <3> QED  BY <3>1, EndsEmpty
  <2> QED  BY <1>2, <1>4, <1>5, <1>6, <1>8, <2>1, QuietStep
<1> HIDE DEF Stored, Ends
<1> QED  BY <1>1, <1>7, <1>8

\* One deletion is pushed, or refused.
LEMMA PushNextStep ==
  ASSUME IInv, NEW c \in Calls, PushNext(c)
  PROVE  IInv'
<1> DEFINE n == tries[c] + 1
           e == [call |-> c, n |-> n, short |-> req[c].urls[n], user |-> req[c].user,
                 ts |-> stamp[c]]
           Ends(err, val) == /\ pc' = [pc EXCEPT ![c] = "done"]
                             /\ ans' = [ans EXCEPT ![c] = [err |-> err, val |-> val]]
<1>1. /\ pc[c] = "push" /\ Deleting(c) /\ req[c] \in Requests[c] /\ tries[c] < Len(req[c].urls)
      /\ ans[c].err = "none"
      /\ UNCHANGED <<rows, clock, faults, req, stamp>>
  BY DEF PushNext, IInv, CallInv
<1>2. \/ /\ pending' = Append(pending, e) /\ delivered' = delivered
         /\ tries' = [tries EXCEPT ![c] = n]
         /\ \/ Ends("ok", "none")
            \/ n # Len(req[c].urls) /\ UNCHANGED <<pc, ans>>
      \/ Ends("delete error", "none") /\ UNCHANGED <<tries, pending, delivered>>
  BY DEF PushNext, Answer, Queue!Take, Queue!Refuse
<1>3. n \in 1..Len(req[c].urls) /\ e \in Element /\ e.call = c /\ e.user = req[c].user
  <2>1. req[c].urls \in Seq(Hashes) /\ req[c].user \in Users
    BY <1>1, RequestsAssumption DEF Deleting
  <2>2. n \in 1..Len(req[c].urls) /\ n \in Nat
    BY <1>1, <2>1, Plain
  <2>3. req[c].urls[n] \in Hashes
    BY <2>1, <2>2
  <2> HIDE DEF n
  <2> QED  BY <2>1, <2>2, <2>3, Plain DEF Element
<1>4. \A err, val : Ends(err, val) => ans'[c].err = err /\ pc'[c] = "done"
  BY Ended, Plain
<1>5. tries'[c] \in Nat /\ stamp'[c] \in Nat
  <2> HIDE DEF e, Ends
  <2>1. tries' = tries \/ tries' = [tries EXCEPT ![c] = n]
    BY <1>2
  <2> QED  BY <1>1, <2>1, Plain
<1>6. Others(c)
  BY <1>1, <1>2, Plain DEF Others, IInv, Shape
<1>7. pc'[c] = "done" \/ (/\ pc' = pc /\ ans' = ans /\ tries'[c] < Len(req[c].urls))
  <2> HIDE DEF Ends
  <2>1. CASE n # Len(req[c].urls) /\ UNCHANGED <<pc, ans>> /\ tries' = [tries EXCEPT ![c] = n]
    BY <1>1, <1>3, <2>1, Plain
  <2> QED  BY <1>2, <1>4, <2>1
<1>8. CallOk(c)' /\ pc'[c] \in PCs
  BY <1>1, <1>7 DEF CallOk, Deleting, PCs, Kinds
<1>9. Leads(c)'
  <2>1. req'[c].kind = "delete"
    BY <1>1 DEF Deleting
  <2> QED  BY <2>1 DEF Leads
<1>10. RowsStay /\ faults' \in Nat /\ faults' >= faults
  BY <1>1, Plain DEF RowsStay
<1>11. /\ CallInv' /\ AnswerLeadsToOrig'
       /\ pc' \in [Calls -> PCs] /\ tries' \in [Calls -> Nat] /\ stamp' \in [Calls -> Nat]
       /\ req' = [d \in Calls |-> req'[d]] /\ ans' = [d \in Calls |-> ans'[d]]
  BY <1>1, <1>5, <1>6, <1>8, <1>9, <1>10, OneCall
<1>12. pending' \in Seq(Element) /\ delivered' = delivered
  <2> HIDE DEF e, Ends
  <2>1. Append(pending, e) \in Seq(Element)
    BY <1>3, Plain
  <2> QED  BY <1>2, <2>1, Plain
<1>13. Shape'
  BY <1>1, <1>10, <1>11, <1>12 DEF IInv, Shape
<1>14. QueueInv'
  <2> DEFINE Now(x) == /\ pc'[x.call] # "idle" /\ req'[x.call].kind = "delete"
                       /\ ~req'[x.call].new /\ req'[x.call].user = x.user
  <2>1. \A d \in Calls : pc[d] # "idle" => pc'[d] # "idle" /\ req'[d] = req[d]
    BY <1>1, <1>6, <1>7 DEF IInv, Shape, Others
  <2>2. \A x \in Element : Asked(x) => Now(x)
    BY <2>1 DEF Asked, Deleting, Element
  <2>3. Now(e)
    BY <1>1, <1>3, <2>1 DEF Deleting
  <2> HIDE DEF e, Ends, Now
  <2>4. \A i \in DOMAIN delivered : Now(delivered[i])
    BY <2>2, InQueue, Plain DEF IInv, QueueInv
  <2>5. \A i \in DOMAIN pending : Now(pending[i])
    BY <2>2, InQueue, Plain DEF IInv, QueueInv
  <2>6. \A i \in DOMAIN pending' : Now(pending'[i])
    <3>1. CASE pending' = pending
      BY <2>5, <3>1
    <3>2. CASE pending' = Append(pending, e)
      <4>1. \A i \in DOMAIN pending' : (i \in DOMAIN pending /\ pending'[i] = pending[i]) \/ pending'[i] = e
        BY <1>3, <3>2, Plain
      <4> QED  BY <2>3, <2>5, <4>1
    <3> QED  BY <1>2, <3>1, <3>2
  <2> QED  BY <1>12, <2>4, <2>6 DEF QueueInv, Asked, Deleting, Now
<1>15. RowInv'
  BY <1>1, <1>12 DEF IInv, RowInv, Deletes
<1> QED  BY <1>11, <1>13, <1>14, <1>15 DEF IInv

(***************************************************************************)
(* The steps of the queue and of the clock.                                *)
(***************************************************************************)

\* A step that no call takes part in.
LEMMA Aside ==
  ASSUME IInv, UNCHANGED <<pc, req, tries, stamp, ans>>, RowsStay,
         clock' \in Nat, faults' \in Nat, faults' >= faults
  PROVE  CallInv' /\ AnswerLeadsToOrig'
<1>1. CallInv'
  BY DEF IInv, CallInv, Deleting
<1>2. ASSUME NEW c \in Calls PROVE Leads(c)'
  BY AllLead, StillLeads, Plain DEF IInv
<1>3. AnswerLeadsToOrig'
  BY <1>2 DEF AnswerLeadsToOrig, Leads
<1> QED  BY <1>1, <1>3

\* The queue is handed over, and some of it executed.
LEMMA HandOverStep ==
  ASSUME IInv, UNCHANGED <<clock, pc, req, tries, stamp, ans>>,
         Queue!HandOver, rows' \in {rows, DeleteBatch(rows, pending)},
         faults' \in Nat, faults' >= faults
  PROVE  IInv'
<1>1. /\ DOMAIN rows' = DOMAIN rows /\ rows' \in [DOMAIN rows' -> Records]
      /\ \A h \in DOMAIN rows :
           \/ rows'[h] = rows[h]
           \/ /\ rows'[h] = [rows[h] EXCEPT !.deleted = TRUE]
              /\ \E i \in DOMAIN pending : Deletes(pending[i], rows, h)
  <2>1. CASE rows' = rows
    BY <2>1 DEF IInv, Shape
  <2>2. CASE rows' = DeleteBatch(rows, pending)
    BY <2>2, DeleteRows DEF IInv
  <2> QED  BY <2>1, <2>2
<1>2. RowsStay
  BY <1>1 DEF RowsStay, IInv, Shape, Records
<1>3. pending' = <<>> /\ delivered' = delivered \o pending
      /\ pending \in Seq(Element) /\ delivered \in Seq(Element)
  BY DEF Queue!HandOver, IInv, Shape
<1>4. CallInv' /\ AnswerLeadsToOrig'
  BY <1>2, Aside, Plain
<1>5. Shape'
  BY <1>1, <1>3 DEF IInv, Shape
<1>6. /\ \A i \in DOMAIN delivered : i \in DOMAIN delivered' /\ delivered'[i] = delivered[i]
      /\ \A i \in DOMAIN pending : /\ Len(delivered) + i \in DOMAIN delivered'
                                   /\ delivered'[Len(delivered) + i] = pending[i]
      /\ \A i \in DOMAIN delivered' : \/ i \in DOMAIN delivered /\ delivered'[i] = delivered[i]
                                      \/ \E j \in DOMAIN pending : delivered'[i] = pending[j]
  <2>1. DOMAIN delivered = 1..Len(delivered) /\ DOMAIN pending = 1..Len(pending)
        /\ DOMAIN delivered' = 1..(Len(delivered) + Len(pending))
        /\ Len(delivered) \in Nat /\ Len(pending) \in Nat
    BY <1>3
  <2>2. \A i \in 1..(Len(delivered) + Len(pending)) :
          delivered'[i] = IF i <= Len(delivered) THEN delivered[i] ELSE pending[i - Len(delivered)]
    BY <1>3
  <2>3. ASSUME NEW i \in DOMAIN pending
        PROVE  /\ Len(delivered) + i \in DOMAIN delivered'
               /\ delivered'[Len(delivered) + i] = pending[i]
    BY <2>1, <2>2
  <2>4. ASSUME NEW i \in DOMAIN delivered', i \notin DOMAIN delivered
        PROVE  i - Len(delivered) \in DOMAIN pending /\ delivered'[i] = pending[i - Len(delivered)]
    BY <2>1, <2>2, <2>4
  <2> QED  BY <2>1, <2>2, <2>3, <2>4
<1>7. QueueInv'
  <2>1. \A i \in DOMAIN delivered' : Asked(delivered'[i])
    BY <1>6 DEF IInv, QueueInv
  <2> QED  BY <1>3, <2>1 DEF QueueInv, Asked, Deleting
<1>8. RowInv'
  <2> SUFFICES ASSUME NEW h \in DOMAIN rows', rows'[h].deleted
               PROVE  \E i \in DOMAIN delivered' : Deletes(delivered'[i], rows', h)
    BY DEF RowInv
  <2>1. \E i \in DOMAIN delivered' : Deletes(delivered'[i], rows, h)
    <3>1. CASE rows'[h] = rows[h]
      BY <1>1, <1>6, <3>1 DEF IInv, RowInv
    <3>2. CASE \E i \in DOMAIN pending : Deletes(pending[i], rows, h)
      BY <1>6, <3>2
    <3> QED  BY <1>1, <3>1, <3>2
  <2> QED  BY <1>1, <1>2, <2>1 DEF Deletes, RowsStay
<1> QED  BY <1>4, <1>5, <1>7, <1>8 DEF IInv

\* The clock goes on, or a flag is set, or nothing happens.
LEMMA IdleStep ==
  ASSUME IInv, UNCHANGED <<rows, faults, pc, req, tries, stamp, ans, pending, delivered>>,
         clock' \in Nat
  PROVE  IInv'
<1>1. RowsStay /\ faults' \in Nat /\ faults' >= faults
  BY Plain DEF RowsStay
<1>2. CallInv' /\ AnswerLeadsToOrig'
  BY <1>1, Aside
<1>3. Shape' /\ QueueInv' /\ RowInv'
  BY DEF IInv, Shape, QueueInv, Asked, Deleting, RowInv, Deletes
<1> QED  BY <1>2, <1>3 DEF IInv

LEMMA NextIInv == IInv /\ [Next]_vars => IInv'
<1> SUFFICES ASSUME IInv, [Next]_vars PROVE IInv'
  OBVIOUS
<1>1. CASE UNCHANGED vars
  BY <1>1, IdleStep, Plain DEF vars
<1>2. ASSUME NEW c \in Calls, Serve(c) PROVE IInv'
  BY <1>2, StartStep, ShortenStep, ConflictStep, ShortenBatchStep, PushNextStep,
     ResolveStep, GetAllStep DEF Serve
<1>3. CASE Flush
  <2>1. faults' \in Nat /\ faults' >= faults
    BY <1>3, Plain DEF Flush
  <2>2. /\ UNCHANGED <<clock, pc, req, tries, stamp, ans>> /\ Queue!HandOver
        /\ rows' \in {rows, DeleteBatch(rows, pending)}
    BY <1>3 DEF Flush
  <2> QED  BY <2>1, <2>2, HandOverStep
<1>4. CASE LastFlush
  <2>1. /\ UNCHANGED <<rows, clock, faults, pc, req, tries, stamp, ans>>
        /\ Queue!HandOver \/ UNCHANGED <<pending, delivered>>
    BY <1>4 DEF LastFlush, queue
  <2>2. CASE Queue!HandOver
    BY <2>1, <2>2, HandOverStep, Plain
  <2>3. CASE UNCHANGED <<pending, delivered>>
    BY <2>1, <2>3, IdleStep, Plain
  <2> QED  BY <2>1, <2>2, <2>3
<1>5. CASE Close \/ Cancel \/ Tick
  <2>1. UNCHANGED <<rows, faults, pc, req, tries, stamp, ans, pending, delivered>>
    BY <1>5 DEF Close, Cancel, Tick, Queue!Close, queue
  <2>2. clock' = clock \/ clock' = clock + 1
    BY <1>5 DEF Close, Cancel, Tick
  <2>3. clock' \in Nat
    BY <2>2, Plain
  <2> QED  BY <2>1, <2>3, IdleStep
<1> QED  BY <1>1, <1>2, <1>3, <1>4, <1>5 DEF Next

\* The inductive invariant behind the theorems below.
THEOREM Inductive == Spec => []IInv
  BY InitIInv, NextIInv, PTL DEF Spec

\* A path that was answered leads to the url that was asked for, and goes on so.
THEOREM AnswersLead == Spec => []AnswerLeadsToOrig
<1>1. IInv => AnswerLeadsToOrig
  BY DEF IInv
<1> QED  BY Inductive, <1>1, PTL

\* A deleted row was deleted by its owner, in a request younger than the row.
THEOREM DeletionsAreOwned == Spec => []DeletedByEarlierOwner
<1>1. IInv => DeletedByEarlierOwner
  <2> SUFFICES ASSUME IInv, NEW h \in DOMAIN rows, rows[h].deleted
               PROVE  \E i \in DOMAIN delivered : LET e == delivered[i] IN
                        /\ e.short = h /\ e.user = rows[h].user /\ rows[h].ts < e.ts
                        /\ req[e.call].kind = "delete" /\ req[e.call].user = rows[h].user
                        /\ ~req[e.call].new
    BY DEF DeletedByEarlierOwner
  <2>1. PICK i \in DOMAIN delivered : Deletes(delivered[i], rows, h)
    BY DEF IInv, RowInv
  <2>2. Asked(delivered[i])
    BY DEF IInv, QueueInv
  <2> QED  BY <2>1, <2>2 DEF Deletes, Asked, Deleting
<1> QED  BY Inductive, <1>1, PTL

(***************************************************************************)
(* What a step does to the table, seen from outside.                       *)
(***************************************************************************)

\* The rows of one call are added at once, and it answers that it stored them.
Adds(c, K) ==
  /\ K \subseteq Hashes /\ K \cap DOMAIN rows = {} /\ DOMAIN rows' = DOMAIN rows \cup K
  /\ \A h \in DOMAIN rows : rows'[h] = rows[h]
  /\ \A h \in K : /\ rows'[h].orig \in Origs /\ rows'[h].deleted = FALSE
                  /\ rows'[h].user = req[c].user /\ req[c].user \in Users
                  /\ rows'[h].ts = clock
  /\ rows' = [h \in DOMAIN rows' |-> rows'[h]]
  /\ \A d \in Calls : d # c => ans'[d] = ans[d]
  /\ ans'[c].err = "ok" \/ faults' # faults

LEMMA AnswerOfOne ==
  ASSUME IInv, NEW c \in Calls, NEW err, NEW val, Answer(c, err, val)
  PROVE  ans'[c].err = err /\ \A d \in Calls : d # c => ans'[d] = ans[d]
<1>1. ans' = [ans EXCEPT ![c] = [err |-> err, val |-> val]]
  BY DEF Answer
<1> QED  BY <1>1, Ended, Plain

LEMMA FaultCounts == ASSUME IInv, Fault PROVE faults' # faults
<1>1. faults' = faults + 1
  BY DEF Fault
<1> QED  BY <1>1, Plain

LEMMA ShortenAdds ==
  ASSUME IInv, NEW c \in Calls, Shorten(c)
  PROVE  UNCHANGED rows \/ \E K : Adds(c, K)
<1> DEFINE Url(h) == [short |-> h, orig |-> req[c].urls[1], user |-> req[c].user]
<1> SUFFICES ASSUME rows' # rows PROVE \E K : Adds(c, K)
  OBVIOUS
<1>1. PICK h \in Hashes :
        /\ ~HashTaken(rows, Url(h)) /\ rows' = Insert(rows, Url(h), clock)
        /\ Answer(c, "ok", h) \/ (Fault /\ Answer(c, "storage error", "none"))
  BY DEF Shorten
<1>2. req[c].urls[1] \in Origs /\ req[c].user \in Users
  <2>1. pc[c] = "shorten" /\ req[c].kind = "shorten" /\ req[c] \in Requests[c]
    BY DEF Shorten, IInv, CallInv, Kinds
  <2>2. req[c].urls \in Seq(Origs) /\ Len(req[c].urls) = 1 /\ req[c].user \in Users
    BY <2>1, RequestsAssumption
  <2> QED  BY <2>2
<1>3. /\ \A d \in Calls : d # c => ans'[d] = ans[d]
      /\ ans'[c].err = "ok" \/ faults' # faults
  BY <1>1, AnswerOfOne, FaultCounts
<1>4. Url(h).short = h /\ Url(h).orig = req[c].urls[1] /\ Url(h).user = req[c].user
  OBVIOUS
<1> HIDE DEF Url
<1>5. /\ DOMAIN rows' = DOMAIN rows \cup {h} /\ rows' \in [DOMAIN rows' -> Records]
      /\ \A k \in DOMAIN rows : rows'[k] = rows[k]
      /\ rows'[h] = Row(Url(h), clock) /\ h \notin DOMAIN rows
  BY <1>1, <1>2, <1>4, InsertRow DEF IInv
<1>6. /\ rows'[h].orig \in Origs /\ rows'[h].deleted = FALSE /\ rows'[h].user = req[c].user
      /\ rows'[h].ts = clock
  BY <1>2, <1>4, <1>5 DEF Row
<1>7. Adds(c, {h})
  BY <1>2, <1>3, <1>5, <1>6 DEF Adds
<1> QED  BY <1>7

LEMMA ShortenBatchAdds ==
  ASSUME IInv, NEW c \in Calls, ShortenBatch(c)
  PROVE  UNCHANGED rows \/ \E K : Adds(c, K)
<1> SUFFICES ASSUME rows' # rows PROVE \E K : Adds(c, K)
  OBVIOUS
<1>1. PICK hs \in [DOMAIN req[c].urls -> Hashes] :
        /\ BatchFits(rows, Drawn(c, hs)) /\ rows' = InsertBatch(rows, Drawn(c, hs), clock)
        /\ Answer(c, "ok", hs) \/ (Fault /\ Answer(c, "storage error", "none"))
  BY DEF ShortenBatch, Drawn
<1> DEFINE urls == Drawn(c, hs)
           K == {urls[i].short : i \in DOMAIN urls}
<1>2. req[c].kind = "batch" /\ req[c] \in Requests[c]
  BY DEF ShortenBatch, IInv, CallInv, Kinds
<1>3. /\ DOMAIN urls = DOMAIN hs
      /\ \A i \in DOMAIN hs : /\ urls[i].short \in Hashes /\ urls[i].orig \in Origs
                              /\ urls[i].user = req[c].user /\ urls[i].user \in Users
  BY <1>2, DrawnUrls
<1>4. /\ \A d \in Calls : d # c => ans'[d] = ans[d]
      /\ ans'[c].err = "ok" \/ faults' # faults
  BY <1>1, AnswerOfOne, FaultCounts
<1>5. BatchFits(rows, urls) /\ rows' = InsertBatch(rows, urls, clock) /\ Shape
  BY <1>1 DEF IInv
<1> HIDE DEF urls
<1>6. /\ DOMAIN rows' = DOMAIN rows \cup K /\ rows' \in [DOMAIN rows' -> Records]
      /\ \A h \in DOMAIN rows : rows'[h] = rows[h]
      /\ \A i \in DOMAIN urls : /\ urls[i].short \notin DOMAIN rows
                                /\ rows'[urls[i].short] = Row(urls[i], clock)
  BY <1>3, <1>5, InsertRows
<1>7. ASSUME NEW h \in K
      PROVE  /\ h \in Hashes /\ h \notin DOMAIN rows /\ rows'[h].orig \in Origs /\ rows'[h].deleted = FALSE
             /\ rows'[h].user = req[c].user /\ req[c].user \in Users /\ rows'[h].ts = clock
  <2>1. PICK i \in DOMAIN urls : h = urls[i].short
    OBVIOUS
  <2> HIDE DEF K
  <2>2. rows'[h] = Row(urls[i], clock) /\ h \notin DOMAIN rows
    BY <1>6, <2>1
  <2>3. i \in DOMAIN hs
    BY <1>3
  <2> QED  BY <1>3, <2>1, <2>2, <2>3 DEF Row
<1> HIDE DEF K
<1>8. Adds(c, K)
  BY <1>4, <1>6, <1>7 DEF Adds
<1> QED  BY <1>8

\* Whoever changes the table: a call that stores, or a flush that deletes.
LEMMA StepOfTable ==
  ASSUME IInv, [Next]_vars
  PROVE  \/ UNCHANGED rows
         \/ \E c \in Calls : \E K : Adds(c, K)
         \/ rows' = DeleteBatch(rows, pending) /\ UNCHANGED ans
<1>1. CASE UNCHANGED vars
  BY <1>1 DEF vars
<1>2. ASSUME NEW c \in Calls, Serve(c) PROVE UNCHANGED rows \/ \E K : Adds(c, K)
  <2>1. CASE Shorten(c) \/ ShortenBatch(c)
    BY <2>1, ShortenAdds, ShortenBatchAdds
  <2>2. CASE Start(c) \/ Conflict(c) \/ PushNext(c) \/ Resolve(c) \/ GetAll(c)
    BY <2>2 DEF Start, Conflict, PushNext, Resolve, GetAll
  <2> QED  BY <1>2, <2>1, <2>2 DEF Serve
<1>3. CASE Flush
  BY <1>3 DEF Flush
<1>4. CASE Close \/ LastFlush \/ Cancel \/ Tick
  BY <1>4 DEF Close, LastFlush, Cancel, Tick
<1> QED  BY <1>1, <1>2, <1>3, <1>4 DEF Next

\* An error that no broken connection explains has stored nothing.
THEOREM ErrorsStoreNothing == Spec => ErrorStoresNothing
<1>1. IInv /\ [Next]_vars =>
        \A c \in Calls : (pc[c] # "done" /\ ans'[c].err \notin {"none", "ok"} /\ faults' = faults)
                            => rows' = rows
  <2> SUFFICES ASSUME IInv, [Next]_vars, NEW c \in Calls, pc[c] # "done", faults' = faults,
                      rows' # rows
               PROVE  ans'[c].err \in {"none", "ok"}
    OBVIOUS
  <2>1. ans[c].err = "none"
    BY DEF IInv, CallInv
  <2>2. ASSUME NEW d \in Calls, NEW K, Adds(d, K) PROVE ans'[c].err \in {"none", "ok"}
    BY <2>1, <2>2 DEF Adds
  <2> QED  BY <2>1, <2>2, StepOfTable
<1> QED  BY Inductive, <1>1, PTL DEF Spec, ErrorStoresNothing

\* The table is an abstract url store: paths are added at once, over free ones, and
\* only ever marked deleted.
THEOREM ImplementsUrlStore == Spec => UrlStoreSpec
<1>1. Init => AbstractStore!Init
  BY DEF Init, NoRows, Urls, AbstractStore!Init, AbstractStore!EmptyMap
<1>2. IInv /\ [Next]_vars => [AbstractStore!Next]_Urls
  <2> SUFFICES ASSUME IInv, [Next]_vars
               PROVE  AbstractStore!Next \/ UNCHANGED Urls
    OBVIOUS
  <2>1. CASE UNCHANGED rows
    BY <2>1 DEF Urls
  <2>2. ASSUME NEW c \in Calls, NEW K, Adds(c, K)
        PROVE  AbstractStore!Next \/ UNCHANGED Urls
    <3>1. CASE K = {}
      <4>1. rows' = rows
        BY <2>2, <3>1 DEF Adds, IInv, Shape
      <4> QED  BY <4>1 DEF Urls
    <3>2. CASE K # {}
      <4>1. K \in SUBSET Hashes /\ req[c].user \in Users
        BY <2>2, <3>2 DEF Adds
      <4>2. \A k \in K : ~AbstractStore!Taken(Urls, k)
        BY <2>2 DEF Adds, AbstractStore!Taken, Urls
      <4>3. DOMAIN Urls' = DOMAIN Urls \cup K /\ \A k \in DOMAIN Urls \ K : Urls'[k] = Urls[k]
        BY <2>2 DEF Adds, Urls
      <4>4. \A k \in K : Urls'[k] \in AbstractStore!Live /\ Urls'[k].user = req[c].user
        BY <2>2, <4>1 DEF Adds, Urls, AbstractStore!Live
      <4>5. AbstractStore!Add(K, req[c].user)
        BY <3>2, <4>2, <4>3, <4>4 DEF AbstractStore!Add
      <4> QED  BY <4>1, <4>5 DEF AbstractStore!Next
    <3> QED  BY <3>1, <3>2
  <2>3. CASE rows' = DeleteBatch(rows, pending)
    <3> DEFINE K == {h \in DOMAIN rows : \E i \in DOMAIN pending : Deletes(pending[i], rows, h)}
    <3>1. K \in SUBSET Hashes /\ K \subseteq DOMAIN Urls
      BY DEF IInv, Shape, Urls
    <3>2. rows' = [h \in DOMAIN rows |-> IF h \in K THEN [rows[h] EXCEPT !.deleted = TRUE] ELSE rows[h]]
      BY <2>3 DEF DeleteBatch
    <3> HIDE DEF K
    <3>3. \A h \in DOMAIN rows : rows[h] \in Records
      BY DEF IInv, Shape
    <3>4. Urls' = [h \in DOMAIN Urls |-> IF h \in K THEN [Urls[h] EXCEPT !.deleted = TRUE] ELSE Urls[h]]
      <4>1. DOMAIN rows' = DOMAIN rows
        BY <3>2
      <4>2. ASSUME NEW h \in DOMAIN rows
            PROVE  [orig |-> rows'[h].orig, user |-> rows'[h].user, deleted |-> rows'[h].deleted]
                     = IF h \in K THEN [Urls[h] EXCEPT !.deleted = TRUE] ELSE Urls[h]
        BY <3>2, <3>3 DEF Urls, Records
      <4> QED  BY <4>1, <4>2 DEF Urls
    <3>5. AbstractStore!Remove(K)
      BY <3>1, <3>4 DEF AbstractStore!Remove
    <3> QED  BY <3>1, <3>5 DEF AbstractStore!Next
  <2> QED  BY <2>1, <2>2, <2>3, StepOfTable
<1> QED  BY Inductive, <1>1, <1>2, PTL DEF Spec, UrlStoreSpec, AbstractStore!Spec

(***************************************************************************)
(* What becomes of a deletion that was accepted.                           *)
(***************************************************************************)

\* Deletion n of call c, as PushNext makes it.
Names(e, c, n) == /\ e.call = c /\ e.n = n /\ e.short = req[c].urls[n]
                  /\ e.user = req[c].user /\ e.ts = stamp[c]

In(e, q) == \E i \in DOMAIN q : q[i] = e

\* Deletion n of call c waits, or was handed over.
Pushed(c, n) == \E e \in Element : Names(e, c, n) /\ (In(e, pending) \/ In(e, delivered))

\* All that call c has pushed is in the queue or was there, and a call that
\* succeeded has pushed everything.
PushedOk(c) ==
  /\ stamp[c] <= clock
  /\ Deleting(c) => \A n \in 1..tries[c] : Pushed(c, n)
  /\ pc[c] = "done" /\ req[c].kind = "delete" /\ ans[c].err = "ok"
       => Deleting(c) /\ tries[c] = Len(req[c].urls)

\* No deletion is from the future.
TimeInv == /\ \A i \in DOMAIN pending : pending[i].ts <= clock
           /\ \A i \in DOMAIN delivered : delivered[i].ts <= clock

\* What was handed over before the shutdown is executed: no row is live that it hits.
AppliedInv ==
  faults = 0 /\ ~ctxDone =>
    \A i \in DOMAIN delivered : \A h \in DOMAIN rows :
      Deletes(delivered[i], rows, h) => rows[h].deleted

QInv == /\ \A c \in Calls : PushedOk(c)
        /\ TimeInv /\ AppliedInv
        /\ closed \in BOOLEAN /\ ctxDone \in BOOLEAN /\ (closed => ctxDone)

LEMMA InitQInv == Init => QInv
<1> SUFFICES ASSUME Init PROVE QInv
  OBVIOUS
<1> USE DEF Init, Queue!Init
<1>1. \A c \in Calls : PushedOk(c)
  BY DEF PushedOk, Deleting
<1>2. TimeInv /\ AppliedInv
  BY DEF TimeInv, AppliedInv
<1>3. closed \in BOOLEAN /\ ctxDone \in BOOLEAN /\ (closed => ctxDone)
  OBVIOUS
<1> QED  BY <1>1, <1>2, <1>3 DEF QInv

\* What the queue does in a step that is not a push: nothing, or a hand over.
LEMMA StepOfQueue ==
  ASSUME IInv, [Next]_vars
  PROVE  \/ \E c \in Calls : PushNext(c)
         \/ UNCHANGED <<pending, delivered>>
         \/ Queue!HandOver /\ (Flush \/ LastFlush)
<1>1. CASE UNCHANGED vars
  BY <1>1 DEF vars
<1>2. ASSUME NEW c \in Calls, Serve(c), ~PushNext(c) PROVE UNCHANGED <<pending, delivered>>
  BY <1>2 DEF Serve, Start, Shorten, Conflict, ShortenBatch, Resolve, GetAll, queue
<1>3. CASE Flush \/ LastFlush
  BY <1>3 DEF Flush, LastFlush, queue
<1>4. CASE Close \/ Cancel \/ Tick
  BY <1>4 DEF Close, Cancel, Tick, Queue!Close, queue
<1> QED  BY <1>1, <1>2, <1>3, <1>4 DEF Next

\* A deletion that is handed over goes from one sequence to the other.
LEMMA Moved ==
  ASSUME IInv, Queue!HandOver
  PROVE  \A e : In(e, pending) \/ In(e, delivered) <=> In(e, delivered)'
<1>1. /\ delivered' = delivered \o pending
      /\ pending \in Seq(Element) /\ delivered \in Seq(Element)
  BY Plain DEF Queue!HandOver
<1>2. /\ DOMAIN delivered = 1..Len(delivered) /\ DOMAIN pending = 1..Len(pending)
      /\ DOMAIN delivered' = 1..(Len(delivered) + Len(pending))
      /\ Len(delivered) \in Nat /\ Len(pending) \in Nat
  BY <1>1
<1>3. \A i \in 1..(Len(delivered) + Len(pending)) :
        delivered'[i] = IF i <= Len(delivered) THEN delivered[i] ELSE pending[i - Len(delivered)]
  BY <1>1
<1>4. ASSUME NEW i \in DOMAIN pending
      PROVE  Len(delivered) + i \in DOMAIN delivered' /\ delivered'[Len(delivered) + i] = pending[i]
  BY <1>2, <1>3
<1>5. ASSUME NEW i \in DOMAIN delivered
      PROVE  i \in DOMAIN delivered' /\ delivered'[i] = delivered[i]
  BY <1>2, <1>3
<1>6. ASSUME NEW i \in DOMAIN delivered'
      PROVE  \/ i \in DOMAIN delivered /\ delivered'[i] = delivered[i]
             \/ i - Len(delivered) \in DOMAIN pending /\ delivered'[i] = pending[i - Len(delivered)]
  BY <1>2, <1>3
<1> QED  BY <1>4, <1>5, <1>6 DEF In

\* The deletion that PushNext makes.
LEMMA OnePush ==
  ASSUME IInv, NEW c \in Calls, PushNext(c)
  PROVE  \E e \in Element :
           /\ Names(e, c, tries[c] + 1) /\ delivered' = delivered
           /\ \/ /\ pending' = Append(pending, e) /\ tries' = [tries EXCEPT ![c] = tries[c] + 1]
                 /\ \/ tries[c] + 1 = Len(req[c].urls) /\ Answer(c, "ok", "none")
                    \/ UNCHANGED <<pc, ans>>
              \/ Answer(c, "delete error", "none") /\ UNCHANGED <<tries, pending>>
<1> DEFINE n == tries[c] + 1
           e == [call |-> c, n |-> n, short |-> req[c].urls[n], user |-> req[c].user,
                 ts |-> stamp[c]]
<1>1. pc[c] = "push" /\ Deleting(c) /\ req[c] \in Requests[c] /\ tries[c] < Len(req[c].urls)
  BY DEF PushNext, IInv, CallInv
<1>2. req[c].urls \in Seq(Hashes) /\ req[c].user \in Users
  BY <1>1, RequestsAssumption DEF Deleting
<1>3. n \in 1..Len(req[c].urls) /\ n \in Nat
  BY <1>1, <1>2, Plain
<1>4. e \in Element /\ Names(e, c, n)
  <2>1. req[c].urls[n] \in Hashes
    BY <1>2, <1>3
  <2> HIDE DEF n
  <2> QED  BY <1>2, <1>3, <2>1, Plain DEF Element, Names
<1>5. /\ delivered' = delivered
      /\ \/ /\ pending' = Append(pending, e) /\ tries' = [tries EXCEPT ![c] = n]
            /\ \/ n = Len(req[c].urls) /\ Answer(c, "ok", "none")
               \/ UNCHANGED <<pc, ans>>
         \/ Answer(c, "delete error", "none") /\ UNCHANGED <<tries, pending>>
  BY DEF PushNext, Queue!Take, Queue!Refuse
<1> QED  BY <1>4, <1>5

LEMMA Appended ==
  ASSUME IInv, NEW e \in Element, pending' = Append(pending, e)
  PROVE  \A x : In(x, pending)' <=> In(x, pending) \/ x = e
<1>1. pending \in Seq(Element)
  BY Plain
<1>2. \A i \in DOMAIN pending : i \in DOMAIN pending' /\ pending'[i] = pending[i]
  BY <1>1
<1>3. \A i \in DOMAIN pending' : (i \in DOMAIN pending /\ pending'[i] = pending[i]) \/ pending'[i] = e
  BY <1>1
<1>4. Len(pending) + 1 \in DOMAIN pending' /\ pending'[Len(pending) + 1] = e
  BY <1>1
<1> QED  BY <1>2, <1>3, <1>4 DEF In

\* Nothing leaves the queue but to the storage.
LEMMA QueueKeeps ==
  ASSUME IInv, [Next]_vars,
         NEW e, In(e, pending) \/ In(e, delivered)
  PROVE  In(e, pending)' \/ In(e, delivered)'
<1>1. CASE UNCHANGED <<pending, delivered>>
  BY <1>1 DEF In
<1>2. CASE Queue!HandOver
  BY <1>2, Moved
<1>3. ASSUME NEW c \in Calls, PushNext(c) PROVE In(e, pending)' \/ In(e, delivered)'
  <2>1. PICK x \in Element : delivered' = delivered /\ (pending' = pending \/ pending' = Append(pending, x))
    BY <1>3, OnePush
  <2> QED  BY <2>1, Appended DEF In
<1> QED  BY <1>1, <1>2, <1>3, StepOfQueue

(***************************************************************************)
(* The steps, with respect to the deletions.                               *)
(***************************************************************************)

\* Time does not go back, and a deletion is taken from its request for good.
LEMMA StillPushed ==
  ASSUME IInv, [Next]_vars, NEW c \in Calls, NEW n, Pushed(c, n),
         stamp'[c] = stamp[c], req'[c] = req[c]
  PROVE  Pushed(c, n)'
<1>1. PICK e \in Element : Names(e, c, n) /\ (In(e, pending) \/ In(e, delivered))
  BY DEF Pushed
<1>2. In(e, pending)' \/ In(e, delivered)'
  BY <1>1, QueueKeeps
<1>3. Names(e, c, n)'
  BY <1>1 DEF Names
<1> QED  BY <1>2, <1>3 DEF Pushed

LEMMA ClockGrows ==
  ASSUME IInv, [Next]_vars
  PROVE  clock \in Nat /\ clock' \in Nat /\ clock <= clock'
<1>1. clock' = clock \/ clock' = clock + 1
  BY DEF Next, Serve, Start, Shorten, Conflict, ShortenBatch, PushNext, Resolve, GetAll,
         Flush, Close, LastFlush, Cancel, Tick, vars
<1> QED  BY <1>1, Plain

\* A call keeps its promise while others make their steps.
LEMMA OtherPushed ==
  ASSUME IInv, [Next]_vars, NEW c \in Calls, PushedOk(c), pc'[c] = pc[c], req'[c] = req[c],
         tries'[c] = tries[c], stamp'[c] = stamp[c], ans'[c] = ans[c]
  PROVE  PushedOk(c)'
<1>1. stamp'[c] <= clock'
  BY ClockGrows, Plain DEF PushedOk
<1>2. Deleting(c)' => \A n \in 1..tries'[c] : Pushed(c, n)'
  BY StillPushed DEF PushedOk, Deleting
<1> QED  BY <1>1, <1>2 DEF PushedOk, Deleting

LEMMA StartPushed ==
  ASSUME IInv, NEW c \in Calls, Start(c), PushedOk(c)
  PROVE  PushedOk(c)'
<1>1. pc[c] = "idle" /\ tries[c] = 0 /\ tries' = tries /\ clock' = clock
  BY DEF Start, IInv, CallInv
<1>2. stamp' = stamp \/ stamp' = [stamp EXCEPT ![c] = clock]
  BY DEF Start
<1>3. stamp'[c] <= clock'
  BY <1>1, <1>2, Plain DEF PushedOk
<1>4. ~(pc'[c] = "done" /\ req'[c].kind = "delete" /\ ans'[c].err = "ok")
  <2>1. \/ Answer(c, "unauthorized", "none")
        \/ Answer(c, "empty batch", "none")
        \/ UNCHANGED ans
    BY DEF Start
  <2>2. ans[c].err = "none"
    BY <1>1 DEF IInv, CallInv
  <2>3. ASSUME NEW err, err # "ok", Answer(c, err, "none") PROVE ans'[c].err # "ok"
    BY <2>3, AnswerOfOne
  <2>4. "unauthorized" # "ok" /\ "empty batch" # "ok"
    BY Zenon
  <2> QED  BY <2>1, <2>2, <2>3, <2>4
<1>5. \A n \in 1..tries'[c] : Pushed(c, n)'
  BY <1>1
<1> QED  BY <1>3, <1>4, <1>5 DEF PushedOk

LEMMA PushPushed ==
  ASSUME IInv, [Next]_vars, NEW c \in Calls, PushNext(c), PushedOk(c)
  PROVE  PushedOk(c)'
<1>1. /\ UNCHANGED <<req, stamp, clock>>
      /\ pc[c] = "push" /\ Deleting(c) /\ ans[c].err = "none"
  BY DEF PushNext, IInv, CallInv
<1>2. PICK e \in Element :
        /\ Names(e, c, tries[c] + 1) /\ delivered' = delivered
        /\ \/ /\ pending' = Append(pending, e) /\ tries' = [tries EXCEPT ![c] = tries[c] + 1]
              /\ \/ tries[c] + 1 = Len(req[c].urls) /\ Answer(c, "ok", "none")
                 \/ UNCHANGED <<pc, ans>>
           \/ Answer(c, "delete error", "none") /\ UNCHANGED <<tries, pending>>
  BY OnePush
<1>3. stamp'[c] <= clock'
  BY <1>1 DEF PushedOk
<1>4. \A n \in 1..tries[c] : Pushed(c, n)'
  BY <1>1, StillPushed DEF PushedOk
<1>5. Deleting(c)'
  <2>1. \/ \E err, val : Answer(c, err, val)
        \/ pc' = pc
    BY <1>2
  <2>2. pc'[c] # "idle"
    BY <1>1, <2>1, Plain DEF Answer
  <2> QED  BY <1>1, <2>2 DEF Deleting
<1>6. CASE pending' = Append(pending, e) /\ tries' = [tries EXCEPT ![c] = tries[c] + 1]
  <2>1. tries'[c] = tries[c] + 1 /\ tries[c] \in Nat
    BY <1>6, Plain
  <2>2. PICK k : k = tries[c] + 1
    OBVIOUS
  <2>3. Pushed(c, k)'
    <3>1. Names(e, c, k)'
      BY <1>1, <1>2, <2>2 DEF Names
    <3>2. In(e, pending)'
      BY <1>6, Appended
    <3> QED  BY <3>1, <3>2 DEF Pushed
  <2>4. \A n \in 1..tries'[c] : n \in 1..tries[c] \/ n = k
    BY <2>1, <2>2
  <2>5. \A n \in 1..tries'[c] : Pushed(c, n)'
    BY <1>4, <2>3, <2>4
  <2>6. ans'[c].err = "ok" => tries'[c] = Len(req[c].urls)
    <3>1. CASE UNCHANGED <<pc, ans>>
      BY <1>1, <3>1
    <3>2. CASE tries[c] + 1 = Len(req[c].urls)
      BY <2>1, <3>2
    <3>3. CASE Answer(c, "delete error", "none") /\ UNCHANGED <<tries, pending>>
      <4>1. tries'[c] = tries[c]
        BY <3>3
      <4>2. tries[c] # tries[c] + 1
        BY <2>1
      <4> QED  BY <2>1, <4>1, <4>2
    <3> QED  BY <1>2, <3>1, <3>2, <3>3
  <2> QED  BY <1>1, <1>3, <1>5, <2>5, <2>6 DEF PushedOk
<1>7. CASE Answer(c, "delete error", "none") /\ UNCHANGED <<tries, pending>>
  <2>1. ans'[c].err = "delete error"
    BY <1>7, AnswerOfOne
  <2> QED  BY <1>3, <1>4, <1>5, <1>7, <2>1 DEF PushedOk
<1> QED  BY <1>2, <1>6, <1>7

\* What a call that does not delete does, and where it leaves the others.
LEMMA ServeMoves ==
  ASSUME IInv, NEW c \in Calls, Serve(c), NEW d \in Calls
  PROVE  /\ d # c => /\ pc'[d] = pc[d] /\ req'[d] = req[d] /\ tries'[d] = tries[d]
                     /\ stamp'[d] = stamp[d] /\ ans'[d] = ans[d]
         /\ \/ Start(c) \/ PushNext(c)
            \/ req'[c].kind # "delete" /\ stamp' = stamp /\ clock' = clock
<1>1. /\ pc' = [pc EXCEPT ![c] = "done"] \/ pc' = [pc EXCEPT ![c] = "push"] \/ pc' = pc
         \/ pc' = [pc EXCEPT ![c] = "conflict"] \/ \E k : pc' = [pc EXCEPT ![c] = k]
      /\ req' = req \/ \E r : req' = [req EXCEPT ![c] = r]
      /\ tries' = tries \/ tries' = [tries EXCEPT ![c] = @ + 1]
      /\ stamp' = stamp \/ stamp' = [stamp EXCEPT ![c] = clock]
      /\ ans' = ans \/ \E err, val : Answer(c, err, val)
  BY DEF Serve, Start, Shorten, Conflict, ShortenBatch, PushNext, Resolve, GetAll, Answer
<1>2. ASSUME d # c
      PROVE  /\ pc'[d] = pc[d] /\ req'[d] = req[d] /\ tries'[d] = tries[d]
             /\ stamp'[d] = stamp[d] /\ ans'[d] = ans[d]
  <2>1. pc'[d] = pc[d] /\ tries'[d] = tries[d] /\ stamp'[d] = stamp[d]
    BY <1>1, <1>2, Plain
  <2>2. req'[d] = req[d]
    BY <1>1, <1>2 DEF IInv, Shape
  <2>3. ans'[d] = ans[d]
    BY <1>1, <1>2, AnswerOfOne
  <2> QED  BY <2>1, <2>2, <2>3
<1>3. ASSUME Shorten(c) \/ Conflict(c) \/ ShortenBatch(c) \/ Resolve(c) \/ GetAll(c)
      PROVE  req'[c].kind # "delete" /\ stamp' = stamp /\ clock' = clock
  <2>1. /\ pc[c] \in {"shorten", "conflict", "batch", "resolve", "list"}
        /\ UNCHANGED <<req, stamp, clock>>
    BY <1>3 DEF Shorten, Conflict, ShortenBatch, Resolve, GetAll
  <2> QED  BY <2>1 DEF IInv, CallInv, Kinds
<1> QED  BY <1>2, <1>3 DEF Serve

LEMMA NextPushed ==
  ASSUME IInv, [Next]_vars, NEW d \in Calls, PushedOk(d)
  PROVE  PushedOk(d)'
<1>1. ASSUME UNCHANGED <<pc, req, tries, stamp, ans>> PROVE PushedOk(d)'
  BY <1>1, OtherPushed
<1>2. ASSUME NEW c \in Calls, Serve(c) PROVE PushedOk(d)'
  <2>1. CASE d # c
    BY <1>2, <2>1, ServeMoves, OtherPushed
  <2>2. CASE d = c /\ (Start(c) \/ PushNext(c))
    BY <2>2, StartPushed, PushPushed
  <2>3. CASE d = c /\ req'[c].kind # "delete" /\ stamp' = stamp /\ clock' = clock
    BY <2>3 DEF PushedOk, Deleting
  <2> QED  BY <1>2, <2>1, <2>2, <2>3, ServeMoves
<1>3. CASE UNCHANGED vars
  BY <1>1, <1>3 DEF vars
<1>4. CASE Flush \/ Close \/ LastFlush \/ Cancel \/ Tick
  BY <1>1, <1>4 DEF Flush, Close, LastFlush, Cancel, Tick
<1> QED  BY <1>2, <1>3, <1>4 DEF Next

LEMMA NextTime ==
  ASSUME IInv, [Next]_vars, TimeInv, \A c \in Calls : PushedOk(c)
  PROVE  TimeInv'
<1> DEFINE Past(q) == \A i \in DOMAIN q : q[i].ts <= clock
           PastNow(q) == \A i \in DOMAIN q : q[i].ts <= clock'
<1>1. \A e \in Element : e.ts <= clock => e.ts <= clock'
  BY ClockGrows DEF Element
<1>2. ASSUME NEW q \in Seq(Element), Past(q) PROVE PastNow(q)
  BY <1>1, <1>2, InQueue
<1>3. PastNow(pending) /\ PastNow(delivered)
  BY <1>2, Plain DEF TimeInv
<1>4. CASE UNCHANGED <<pending, delivered>>
  BY <1>3, <1>4 DEF TimeInv
<1>5. CASE Queue!HandOver
  <2>1. pending' = <<>>
    BY <1>5 DEF Queue!HandOver
  <2>2. ASSUME NEW e, In(e, delivered)' PROVE e.ts <= clock'
    <3>1. In(e, pending) \/ In(e, delivered)
      BY <1>5, <2>2, Moved
    <3> QED  BY <1>3, <3>1 DEF In
  <2>3. \A i \in DOMAIN delivered' : delivered'[i].ts <= clock'
    BY <2>2 DEF In
  <2> QED  BY <2>1, <2>3 DEF TimeInv
<1>6. ASSUME NEW c \in Calls, PushNext(c) PROVE TimeInv'
  <2>1. PICK e \in Element : /\ Names(e, c, tries[c] + 1) /\ delivered' = delivered
                             /\ pending' = pending \/ pending' = Append(pending, e)
    BY <1>6, OnePush
  <2>2. e.ts <= clock'
    BY <1>1, <2>1 DEF Names, PushedOk
  <2>3. CASE pending' = pending
    BY <1>3, <2>1, <2>3 DEF TimeInv
  <2>4. CASE pending' = Append(pending, e)
    <3>1. ASSUME NEW x, In(x, pending)' PROVE x.ts <= clock'
      <4>1. In(x, pending) \/ x = e
        BY <2>4, <3>1, Appended
      <4> QED  BY <1>3, <2>2, <4>1 DEF In
    <3>2. \A i \in DOMAIN pending' : pending'[i].ts <= clock'
      BY <3>1 DEF In
    <3> QED  BY <1>3, <2>1, <3>2 DEF TimeInv
  <2> QED  BY <2>1, <2>3, <2>4
<1> QED  BY <1>4, <1>5, <1>6, StepOfQueue

LEMMA FaultsOnly ==
  ASSUME IInv, [Next]_vars
  PROVE  /\ faults \in Nat /\ faults' \in Nat /\ faults' >= faults
         /\ ctxDone => ctxDone'
         /\ closed' # closed => ctxDone'
<1>1. faults \in Nat /\ (faults' = faults \/ faults' = faults + 1)
  <2>1. faults' = faults \/ faults' = faults + 1
    BY DEF Next, Serve, Start, Shorten, Conflict, ShortenBatch, PushNext, Resolve, GetAll,
           Flush, Close, LastFlush, Cancel, Tick, vars, Fault
  <2> QED  BY <2>1, Plain
<1>2. ctxDone => ctxDone'
  BY DEF Next, Serve, Start, Shorten, Conflict, ShortenBatch, PushNext, Resolve, GetAll,
         Flush, Close, LastFlush, Cancel, Tick, vars
<1>3. closed' = closed \/ Close
  BY DEF Next, Serve, Start, Shorten, Conflict, ShortenBatch, PushNext, Resolve, GetAll,
         Flush, LastFlush, Cancel, Tick, vars, queue, Queue!Take, Queue!Refuse, Queue!HandOver
<1>4. Close => ctxDone
  BY DEF Close
<1> QED  BY <1>1, <1>2, <1>3, <1>4

LEMMA NextApplied ==
  ASSUME IInv, [Next]_vars, QInv
  PROVE  AppliedInv'
<1> SUFFICES ASSUME faults' = 0, ~ctxDone', NEW e, In(e, delivered)',
                    NEW h \in DOMAIN rows', Deletes(e, rows', h), ~rows'[h].deleted
             PROVE  FALSE
  BY DEF AppliedInv, In
<1>1. faults = 0 /\ faults' = faults /\ ~ctxDone /\ ~closed
  BY FaultsOnly DEF QInv
<1>2. \A x : In(x, delivered) => \A k \in DOMAIN rows : Deletes(x, rows, k) => rows[k].deleted
  BY <1>1 DEF QInv, AppliedInv, In
<1>3. CASE Queue!HandOver /\ (Flush \/ LastFlush)
  <2>1. rows' = DeleteBatch(rows, pending)
    <3>1. Flush
      BY <1>1, <1>3 DEF LastFlush
    <3>2. faults + 1 # 0 /\ ~ctxDone
      BY <1>1
    <3> QED  BY <1>1, <3>1, <3>2 DEF Flush
  <2>2. /\ DOMAIN rows' = DOMAIN rows
        /\ \A k \in DOMAIN rows :
             /\ rows'[k].user = rows[k].user /\ rows'[k].ts = rows[k].ts
             /\ rows[k].deleted => rows'[k].deleted
             /\ (\E j \in DOMAIN pending : Deletes(pending[j], rows, k)) => rows'[k].deleted
    <3>1. \A k \in DOMAIN rows : rows[k] \in Records
      BY DEF IInv, Shape
    <3>2. DOMAIN rows' = DOMAIN rows
      BY <2>1 DEF DeleteBatch
    <3>3. ASSUME NEW k \in DOMAIN rows
          PROVE  rows'[k] = IF \E j \in DOMAIN pending : Deletes(pending[j], rows, k)
                            THEN [rows[k] EXCEPT !.deleted = TRUE] ELSE rows[k]
      BY <2>1 DEF DeleteBatch
    <3> QED  BY <3>1, <3>2, <3>3 DEF Records
  <2>3. h \in DOMAIN rows /\ Deletes(e, rows, h)
    BY <2>2 DEF Deletes
  <2>4. In(e, pending) \/ In(e, delivered)
    BY <1>3, Moved
  <2>5. CASE In(e, pending)
    BY <2>2, <2>3, <2>5 DEF In
  <2>6. CASE In(e, delivered)
    BY <1>2, <2>2, <2>3, <2>6
  <2> QED  BY <2>4, <2>5, <2>6
<1>4. CASE delivered' = delivered
  <2> In(e, delivered)
    BY <1>4 DEF In
  <2>1. CASE UNCHANGED rows
    BY <1>2, <2>1
  <2>2. ASSUME NEW c \in Calls, NEW K, Adds(c, K) PROVE FALSE
    <3>1. CASE h \in DOMAIN rows
      <4>1. rows'[h] = rows[h]
        BY <2>2, <3>1 DEF Adds
      <4> QED  BY <1>2, <3>1, <4>1 DEF Deletes
    <3>2. CASE h \notin DOMAIN rows
      <4>1. rows'[h].ts = clock /\ clock \in Nat
        BY <2>2, <3>2, Plain DEF Adds
      <4>2. e.ts <= clock /\ e.ts \in Nat
        <5>1. PICK i \in DOMAIN delivered : delivered[i] = e
          BY DEF In
        <5>2. e \in Element /\ e.ts <= clock
          BY <5>1, InQueue, Plain DEF QInv, TimeInv
        <5> QED  BY <5>2 DEF Element
      <4>3. rows'[h].ts < e.ts
        BY DEF Deletes
      <4> QED  BY <4>1, <4>2, <4>3
    <3> QED  BY <3>1, <3>2
  <2>3. CASE rows' = DeleteBatch(rows, pending)
    <3>1. /\ DOMAIN rows' = DOMAIN rows
          /\ \A k \in DOMAIN rows :
               rows'[k] = IF \E j \in DOMAIN pending : Deletes(pending[j], rows, k)
                          THEN [rows[k] EXCEPT !.deleted = TRUE] ELSE rows[k]
      BY <2>3 DEF DeleteBatch
    <3>2. rows[h] \in Records
      BY <3>1 DEF IInv, Shape
    <3>3. rows'[h].user = rows[h].user /\ rows'[h].ts = rows[h].ts
          /\ (rows[h].deleted => rows'[h].deleted)
      BY <3>1, <3>2 DEF Records
    <3> QED  BY <1>2, <3>1, <3>3 DEF Deletes
  <2> QED  BY <2>1, <2>2, <2>3, StepOfTable
<1>5. ASSUME NEW c \in Calls, PushNext(c) PROVE delivered' = delivered
  BY <1>5, OnePush
<1> QED  BY <1>3, <1>4, <1>5, StepOfQueue

LEMMA NextQInv == IInv /\ QInv /\ [Next]_vars => QInv'
<1> SUFFICES ASSUME IInv, QInv, [Next]_vars PROVE QInv'
  OBVIOUS
<1>1. \A c \in Calls : PushedOk(c)'
  BY NextPushed DEF QInv
<1>2. TimeInv' /\ AppliedInv'
  BY NextTime, NextApplied DEF QInv
<1>3. closed' \in BOOLEAN /\ ctxDone' \in BOOLEAN
  BY DEF QInv, Next, Serve, Start, Shorten, Conflict, ShortenBatch, PushNext, Resolve, GetAll,
         Flush, Close, LastFlush, Cancel, Tick, vars, queue, Queue!Take, Queue!Refuse,
         Queue!HandOver, Queue!Close
<1>4. closed' => ctxDone'
  BY <1>3, FaultsOnly DEF QInv
<1> QED  BY <1>1, <1>2, <1>3, <1>4 DEF QInv

\* Every deletion of a call to DeleteBatch that succeeded still waits in the queue, or
\* deleteURLs has had it, and then the row is deleted if it is the user's and
\* was there before the request.
AcceptedIsApplied ==
  \A c \in Calls : pc[c] = "done" /\ ans[c].err = "ok" /\ req[c].kind = "delete" =>
    \A n \in DOMAIN req[c].urls :
      \/ \E i \in DOMAIN pending : Names(pending[i], c, n)
      \/ \A h \in DOMAIN rows :
           h = req[c].urls[n] /\ rows[h].user = req[c].user /\ rows[h].ts < stamp[c]
             => rows[h].deleted

\* As long as no statement has failed and no shutdown began, no deletion that was
\* accepted is forgotten: what DeleteBatch pushed one by one is in the queue, or a
\* flush has executed it, and no row stored since counts as one it should have hit.
THEOREM AcceptedAreApplied == Spec => [](faults = 0 /\ ~ctxDone => AcceptedIsApplied)
<1>1. Init => IInv /\ QInv
  BY InitIInv, InitQInv
<1>2. IInv /\ QInv /\ [Next]_vars => IInv' /\ QInv'
  BY NextIInv, NextQInv
<1>3. IInv /\ QInv => (faults = 0 /\ ~ctxDone => AcceptedIsApplied)
  <2> SUFFICES ASSUME IInv, QInv, faults = 0, ~ctxDone, NEW c \in Calls,
                      pc[c] = "done", ans[c].err = "ok", req[c].kind = "delete",
                      NEW n \in DOMAIN req[c].urls
               PROVE  \/ \E i \in DOMAIN pending : Names(pending[i], c, n)
                      \/ \A h \in DOMAIN rows :
                           h = req[c].urls[n] /\ rows[h].user = req[c].user
                           /\ rows[h].ts < stamp[c] => rows[h].deleted
    BY DEF AcceptedIsApplied
  <2>1. Deleting(c) /\ tries[c] = Len(req[c].urls) /\ req[c] \in Requests[c]
    BY DEF QInv, PushedOk, IInv, CallInv
  <2>2. n \in 1..tries[c]
    <3>1. req[c].urls \in Seq(Hashes)
      BY <2>1, RequestsAssumption DEF Deleting
    <3> QED  BY <2>1, <3>1
  <2>3. PICK e \in Element : Names(e, c, n) /\ (In(e, pending) \/ In(e, delivered))
    BY <2>1, <2>2 DEF QInv, PushedOk, Pushed
  <2>4. CASE In(e, pending)
    BY <2>3, <2>4 DEF In
  <2>5. CASE In(e, delivered)
    BY <2>3, <2>5 DEF In, QInv, AppliedInv, Names, Deletes
  <2> QED  BY <2>3, <2>4, <2>5
<1> QED  BY <1>1, <1>2, <1>3, PTL DEF Spec
=============================================================================
