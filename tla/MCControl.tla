----------------------------- MODULE MCControl -----------------------------
(* Control on small instances. *)
EXTENDS Control
=============================================================================
