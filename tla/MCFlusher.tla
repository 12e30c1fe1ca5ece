----------------------------- MODULE MCFlusher -----------------------------
(***************************************************************************)
(* The instance of Flusher that TLC checks: the configurations give Calls  *)
(* two or four model values and a flush size of one or two, enough for a   *)
(* stale token in the channel, a second fill behind it and a late call at  *)
(* shutdown. The properties are temporal, so no symmetry is used.          *)
(***************************************************************************)
EXTENDS Flusher
=============================================================================
