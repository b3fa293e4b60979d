------------------------------- MODULE MCAgent -------------------------------
(***************************************************************************)
(* An instance of Agent for TLC.                                           *)
(***************************************************************************)
EXTENDS Agent

\* The policy of the tests: root may do both, a stranger neither.
MCPolicy == {<<"root", "produce">>, <<"root", "consume">>}

\* A record that Read refuses, and one it does not.
MCEarlier == <<0, 11>>
=============================================================================
