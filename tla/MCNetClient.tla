---------------------------- MODULE MCNetClient ----------------------------
(* Instances of NetClient for TLC.                                          *)
EXTENDS NetClient
CONSTANTS A, B
=============================================================================
