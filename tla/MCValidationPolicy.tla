------------------------- MODULE MCValidationPolicy -------------------------
(* Documents with one mapping (field 1) and one list (field 2) for TLC. *)
EXTENDS ValidationPolicy

MCRequiredParts == {<<1, 1>>}
=============================================================================
