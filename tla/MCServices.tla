----------------------------- MODULE MCServices -----------------------------
(* The services with small constants; the bounds are named in the cfg. *)
EXTENDS Services
=============================================================================
