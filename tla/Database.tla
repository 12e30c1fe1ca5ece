------------------------------ MODULE Database ------------------------------
(***************************************************************************)
(* internal/storage/database: the statements that the storage sends to     *)
(* PostgreSQL, each a transaction of its own, over the table urls with its *)
(* two unique indexes. rows maps a hash to [orig, user, deleted, ts]; ts   *)
(* is the creation time that the column default sets.                      *)
(***************************************************************************)
EXTENDS Naturals, Sequences, FiniteSets

NoRows == [h \in {} |-> {}]

Row(url, now) ==
  [orig |-> url.orig, user |-> url.user, deleted |-> FALSE, ts |-> now]

\* Mutant: the insert replaces the row of a hash.
HashTakenUpsert(rows, url) == FALSE

HashTaken(rows, url) == url.short \in DOMAIN rows
OrigTaken(rows, url) == \E h \in DOMAIN rows : rows[h].orig = url.orig

Insert(rows, url, now) ==
  [h \in DOMAIN rows \cup {url.short} |->
     IF h = url.short THEN Row(url, now) ELSE rows[h]]

\* The batch insert succeeds when no two of its urls, and none of them and a
\* row, share a hash or an orig.
BatchFits(rows, urls) ==
  /\ \A i \in DOMAIN urls : ~HashTaken(rows, urls[i]) /\ ~OrigTaken(rows, urls[i])
  /\ \A i, j \in DOMAIN urls :
       i # j => urls[i].short # urls[j].short /\ urls[i].orig # urls[j].orig

InsertBatch(rows, urls, now) ==
  [h \in DOMAIN rows \cup {urls[i].short : i \in DOMAIN urls} |->
     IF h \in DOMAIN rows THEN rows[h]
     ELSE Row(CHOOSE url \in {urls[i] : i \in DOMAIN urls} : url.short = h, now)]

\* Mutant: the lookup without its condition on orig.
LiveHashesAll(rows, orig) == {h \in DOMAIN rows : ~rows[h].deleted}

\* getHashByURL: the hash of the live row of an orig, if there is one.
LiveHashes(rows, orig) == {h \in DOMAIN rows : rows[h].orig = orig /\ ~rows[h].deleted}

GetOrig(rows, h) ==
  IF h \notin DOMAIN rows THEN "not found"
  ELSE IF rows[h].deleted THEN "deleted" ELSE rows[h].orig

\* Stats counts what is not deleted, unlike the memory storage.
StatsOf(rows) ==
  LET live == {h \in DOMAIN rows : ~rows[h].deleted}
  IN  [urls |-> Cardinality(live), users |-> Cardinality({rows[h].user : h \in live})]

UserHashes(rows, u) == {h \in DOMAIN rows : rows[h].user = u /\ ~rows[h].deleted}

\* Mutant: the delete without its condition on the creation time.
DeletesYounger(e, rows, h) == e.short = h /\ e.user = rows[h].user

\* The where clause of the delete: hash, owner, and a row older than the request.
Deletes(e, rows, h) ==
  e.short = h /\ e.user = rows[h].user /\ rows[h].ts < e.ts

\* Mutant: only the first deletion of a batch is sent.
DeleteBatchFirst(rows, es) ==
  [h \in DOMAIN rows |->
     IF Deletes(es[1], rows, h) THEN [rows[h] EXCEPT !.deleted = TRUE] ELSE rows[h]]

DeleteBatch(rows, es) ==
  [h \in DOMAIN rows |->
     IF \E i \in DOMAIN es : Deletes(es[i], rows, h)
     THEN [rows[h] EXCEPT !.deleted = TRUE]
     ELSE rows[h]]
=============================================================================
