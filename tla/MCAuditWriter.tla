--------------------------- MODULE MCAuditWriter ---------------------------
(***************************************************************************)
(* AuditWriter with small channels, groups and checkpoint counts.          *)
(***************************************************************************)
EXTENDS AuditWriter, TLC

Symmetry == Permutations(Requests)
=============================================================================
