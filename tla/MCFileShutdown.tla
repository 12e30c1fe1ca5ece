--------------------------- MODULE MCFileShutdown ---------------------------
(***************************************************************************)
(* The instance of FileShutdown that TLC checks: two deletions in a queue  *)
(* of size one, so that it can wedge and a batch can have one or two of    *)
(* them, and one call that stores the url that the first of them names.    *)
(***************************************************************************)
EXTENDS FileShutdown

U(k, u) == [short |-> k, orig |-> "o1", user |-> u]

MCUrlOf == [p1 |-> U("k1", "u1"), p2 |-> U("k2", "u1")]
MCStoredBy == [s \in Stores |-> <<U("k1", "u1")>>]
=============================================================================
