-------------------------------- MODULE MCReply --------------------------------
(* A reply that reaches the client in reads which end anywhere.            *)
EXTENDS Reply
=============================================================================
