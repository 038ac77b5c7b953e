----------------------------- MODULE MCDelivery -----------------------------
(* Delivery on a small instance: two repositories, so that one can succeed
   where the other fails, and every way to call the merge phase. *)
EXTENDS Delivery

EveryMode == AllModes
=============================================================================
