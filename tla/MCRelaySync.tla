----------------------------- MODULE MCRelaySync ----------------------------
(* RelaySync for TLC. *)
EXTENDS RelaySync
=============================================================================
