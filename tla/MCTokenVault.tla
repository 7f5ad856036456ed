---------------------------- MODULE MCTokenVault ----------------------------
(***************************************************************************)
(* TokenVault with two handlers at a time.                                 *)
(***************************************************************************)
EXTENDS TokenVault, TLC

WorkerSymmetry == Permutations(Workers)
=============================================================================
