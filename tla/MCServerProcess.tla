--------------------------- MODULE MCServerProcess ---------------------------
(* Instances of ServerProcess for TLC. *)
EXTENDS ServerProcess

BothModes == {"fresh-if-replica-missing", "restore-required"}
=============================================================================
