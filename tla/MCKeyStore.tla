----------------------------- MODULE MCKeyStore -----------------------------
(***************************************************************************)
(* KeyStore on a small cluster.                                            *)
(***************************************************************************)
EXTENDS KeyStore, TLC

Symmetry == Permutations(Workers) \cup Permutations(Nodes)
=============================================================================
