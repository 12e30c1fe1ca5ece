------------------------------- MODULE UrlMap -------------------------------
(***************************************************************************)
(* internal/storage/memory/db and what internal/storage/memory does to it: *)
(* a map from short paths to records. A url is a record [short, orig,      *)
(* user]; a record of the map is [orig, user, deleted]. The uuid of a      *)
(* record is left out, nothing reads it.                                   *)
(***************************************************************************)
EXTENDS Naturals, Sequences, FiniteSets

EmptyMap == [k \in {} |-> {}]

Record(url) == [orig |-> url.orig, user |-> url.user, deleted |-> FALSE]

\* The test of Store and StoreBatch: a deleted record does not hold its key.
Taken(map, k) == k \in DOMAIN map /\ ~map[k].deleted

Shorts(urls) == {urls[i].short : i \in DOMAIN urls}

\* The writes of StoreBatch, in order: the last one to a key stays.
PutAll(map, urls) ==
  LET LastTo(k) == CHOOSE i \in DOMAIN urls :
                     /\ urls[i].short = k
                     /\ \A j \in DOMAIN urls : urls[j].short = k => j <= i
  IN  [k \in DOMAIN map \cup Shorts(urls) |->
         IF k \in Shorts(urls) THEN Record(urls[LastTo(k)]) ELSE map[k]]

\* Mutant: anybody's record will do.
OwnedAny(map, url) == url.short \in DOMAIN map

\* DeleteUserURLs: the records of the batch that belong to its user.
Owned(map, url) == url.short \in DOMAIN map /\ map[url.short].user = url.user

\* Mutant: the record is removed from the map.
MarkDeletedRemoves(map, urls) ==
  [k \in {j \in DOMAIN map :
            \A i \in DOMAIN urls : ~(urls[i].short = j /\ Owned(map, urls[i]))} |-> map[k]]

MarkDeleted(map, urls) ==
  [k \in DOMAIN map |->
     IF \E i \in DOMAIN urls : urls[i].short = k /\ Owned(map, urls[i])
     THEN [map[k] EXCEPT !.deleted = TRUE]
     ELSE map[k]]

GetOrig(map, k) ==
  IF k \notin DOMAIN map THEN "not found"
  ELSE IF map[k].deleted THEN "deleted" ELSE map[k].orig

\* ListUserURLs of the memory store lists the deleted records too.
UserShorts(map, u) == {k \in DOMAIN map : map[k].user = u}

\* DB.Stats counts every record, and the users that have one not deleted.
StatsOf(map) ==
  [urls  |-> Cardinality(DOMAIN map),
   users |-> Cardinality({map[k].user : k \in {j \in DOMAIN map : ~map[j].deleted}})]
=============================================================================
