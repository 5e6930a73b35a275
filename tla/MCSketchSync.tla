---------------------------- MODULE MCSketchSync ----------------------------
(* Small instances of SketchSync for TLC. *)
EXTENDS SketchSync
=============================================================================
