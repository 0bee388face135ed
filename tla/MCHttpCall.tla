----------------------------- MODULE MCHttpCall -----------------------------
(* Instances of HttpCall for TLC. *)
EXTENDS HttpCall

CONSTANTS c1, c2
=============================================================================
