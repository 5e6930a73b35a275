-------------------------- MODULE MCRelayTransport --------------------------
(* Small instances of RelayTransport for TLC. *)
EXTENDS RelayTransport
=============================================================================
