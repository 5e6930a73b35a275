---------------------------- MODULE MCOfficeDesk ----------------------------
(* Small instances of OfficeDesk for TLC. *)
EXTENDS OfficeDesk
=============================================================================
