------------------------- MODULE MCMeasurementSync -------------------------
(* Small instances of MeasurementSync for TLC. *)
EXTENDS MeasurementSync, TLC

(* The groups are merged one by one, all in the same way. *)
MCSymmetry == Permutations(Groups)
=============================================================================
