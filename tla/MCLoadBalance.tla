--------------------------- MODULE MCLoadBalance ---------------------------
(***************************************************************************)
(* Instances of LoadBalance for TLC.                                       *)
(***************************************************************************)
EXTENDS LoadBalance

Symmetry == Permutations(Servers) \cup Permutations(Clients)
=============================================================================
