--------------------------- MODULE MCServerDaemon ---------------------------
(* Instances of ServerDaemon for TLC. *)
EXTENDS ServerDaemon
=============================================================================
