------------------------------ MODULE MCReplica ------------------------------
(***************************************************************************)
(* Instances of Replica for TLC.                                           *)
(***************************************************************************)
EXTENDS Replica

\* The servers are interchangeable: nothing in the module names one.
MCSymmetry == Permutations(Servers)
=============================================================================
