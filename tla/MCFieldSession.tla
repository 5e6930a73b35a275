--------------------------- MODULE MCFieldSession ---------------------------
(* FieldSession for TLC. *)
EXTENDS FieldSession
=============================================================================
