---------------------------- MODULE MCLaboratory ----------------------------
(* Laboratory for TLC. *)
EXTENDS Laboratory
============================================================================
