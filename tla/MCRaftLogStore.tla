--------------------------- MODULE MCRaftLogStore ---------------------------
(***************************************************************************)
(* Instances of RaftLogStore for TLC.                                      *)
(***************************************************************************)
EXTENDS RaftLogStore
=============================================================================
