---------------------------- MODULE MCLogRestart ----------------------------
(***************************************************************************)
(* Instances of LogRestart for TLC.                                        *)
(***************************************************************************)
EXTENDS LogRestart

MCPayloadLens == {0, 11}
=============================================================================
