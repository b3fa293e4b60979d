---------------------------- MODULE MCHttpServer ----------------------------
(***************************************************************************)
(* An instance of HttpServer for TLC.                                      *)
(***************************************************************************)
EXTENDS HttpServer

MCOffsets == {0, 1, 2}
=============================================================================
