---------------------------- MODULE MCObjectMap ----------------------------
(* Workspaces whose switch files have names that are no numbers. *)
EXTENDS ObjectMap

MCEcuName  == [e \in ECU |-> "ecu" \o ToString(e)]
MCFileName == [i \in Item |-> "switch" \o ToString(i)]

ValSymmetry == Permutations(Vals)
=============================================================================
