--------------------------- MODULE MCStreamClient ---------------------------
(* Instances of StreamClient for TLC.                                      *)
EXTENDS StreamClient
=============================================================================
