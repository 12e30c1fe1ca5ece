---------------------------- MODULE DelayedQueue ----------------------------
(***************************************************************************)
(* What a delayed queue promises to the callers of Push, whatever threads, *)
(* locks and timers are used to keep the promise: an element is taken at   *)
(* most once, the elements are handed to the consumer in the order they    *)
(* were taken, in non-empty batches, each exactly once, and an element is  *)
(* refused only once the queue is closed.                                  *)
(***************************************************************************)
EXTENDS Sequences, Functions

CONSTANT Elements

VARIABLES pending,    \* taken and not handed over yet, oldest first
          delivered,  \* handed over, oldest first
          refused,    \* the elements whose Push returned an error
          closed      \* set once, when the queue starts to shut down

vars == <<pending, delivered, refused, closed>>

Known == Range(delivered) \cup Range(pending) \cup refused

Init == /\ pending = <<>>
        /\ delivered = <<>>
        /\ refused = {}
        /\ closed = FALSE

Take(e) == /\ e \notin Known
           /\ pending' = Append(pending, e)
           /\ UNCHANGED <<delivered, refused, closed>>

Refuse(e) == /\ closed
             /\ e \notin Known
             /\ refused' = refused \cup {e}
             /\ UNCHANGED <<pending, delivered, closed>>

HandOver == /\ pending # <<>>
            /\ delivered' = delivered \o pending
            /\ pending' = <<>>
            /\ UNCHANGED <<refused, closed>>

Close == /\ ~closed
         /\ closed' = TRUE
         /\ UNCHANGED <<pending, delivered, refused>>

Next == \/ \E e \in Elements : Take(e) \/ Refuse(e)
        \/ HandOver
        \/ Close

Spec == Init /\ [][Next]_vars
=============================================================================
