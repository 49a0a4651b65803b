-------------------------- MODULE MCExportedCall --------------------------
(* Instances of ExportedCall for TLC: slots are interchangeable.           *)
EXTENDS ExportedCall, TLC

Symmetry == Permutations(Slots)
=============================================================================
