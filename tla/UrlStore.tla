------------------------------ MODULE UrlStore ------------------------------
(***************************************************************************)
(* What every storage promises to the services, whatever it keeps its urls *)
(* in: a set of short paths is added in one step or not at all, only over  *)
(* paths that are free or deleted; a live record is never replaced, and a  *)
(* record only ever changes by being marked deleted.                       *)
(***************************************************************************)
EXTENDS UrlMap

CONSTANTS Keys, Users, Origs

VARIABLE urls

Live == [orig : Origs, user : Users, deleted : {FALSE}]

Init == urls = EmptyMap

\* A batch of new urls becomes visible at once.
Add(K, u) ==
  /\ K # {}
  /\ \A k \in K : ~Taken(urls, k)
  /\ DOMAIN urls' = DOMAIN urls \cup K
  /\ \A k \in K : urls'[k] \in Live /\ urls'[k].user = u
  /\ \A k \in DOMAIN urls \ K : urls'[k] = urls[k]

\* A batch of records is marked deleted.
Remove(K) ==
  /\ K \subseteq DOMAIN urls
  /\ urls' = [k \in DOMAIN urls |->
                IF k \in K THEN [urls[k] EXCEPT !.deleted = TRUE] ELSE urls[k]]

Next == \/ \E K \in SUBSET Keys, u \in Users : Add(K, u)
        \/ \E K \in SUBSET Keys : Remove(K)

Spec == Init /\ [][Next]_urls
=============================================================================
