----------------------------- MODULE MCFolding -----------------------------
(* Folding for TLC. *)
EXTENDS Folding
============================================================================
