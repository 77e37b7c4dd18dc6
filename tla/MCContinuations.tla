--------------------------- MODULE MCContinuations ---------------------------
(* Continuations on a small instance: a child and its child.  The second
   Activation of the first may go into maintenance. *)
EXTENDS Continuations

MCTended == {<<1, 2>>}
=============================================================================
