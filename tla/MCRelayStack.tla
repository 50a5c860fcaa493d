---------------------------- MODULE MCRelayStack ----------------------------
(* TLC instances of RelayStack. *)
EXTENDS RelayStack

=============================================================================
