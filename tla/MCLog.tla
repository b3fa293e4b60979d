------------------------------- MODULE MCLog -------------------------------
(***************************************************************************)
(* Instances of Log for TLC.                                               *)
(***************************************************************************)
EXTENDS Log

\* An empty payload makes a frame of 8 or 10 bytes, the other one of 21 or 23:
\* with a store limit of 32 and an index limit of 36 bytes a segment fills by
\* its store (after two to four records) or by its index (after three).
MCPayloadLens == {0, 11}
=============================================================================
