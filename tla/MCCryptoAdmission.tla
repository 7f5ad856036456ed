------------------------- MODULE MCCryptoAdmission -------------------------
(***************************************************************************)
(* CryptoAdmission with more jobs than permits and positions.              *)
(***************************************************************************)
EXTENDS CryptoAdmission, TLC

=============================================================================
