------------------------------ MODULE MCNotes ------------------------------
(* Notes for TLC; its configurations give its sets model values. *)
EXTENDS Notes
=============================================================================
