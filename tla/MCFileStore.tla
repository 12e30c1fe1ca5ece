---------------------------- MODULE MCFileStore ----------------------------
(***************************************************************************)
(* The instance of FileStore that TLC checks: a store, a batch over the    *)
(* same path and another, and a delete, in two lives of the process. The   *)
(* second url of the batch does not parse.                                 *)
(***************************************************************************)
EXTENDS FileStore

U(k, o, u) == [short |-> k, orig |-> o, user |-> u]

MCCalls == {"c1", "c2", "c3"}

MCRequestOf ==
  [c1 |-> [kind |-> "store", urls |-> <<U("k1", "o1", "u1")>>],
   c2 |-> [kind |-> "store", urls |-> <<U("k2", "o1", "u1"), U("k1", "bad", "u1")>>],
   c3 |-> [kind |-> "delete", urls |-> <<U("k1", "o1", "u1"), U("k2", "o1", "u2")>>]]
=============================================================================
