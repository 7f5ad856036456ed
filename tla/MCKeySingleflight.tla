------------------------- MODULE MCKeySingleflight -------------------------
(***************************************************************************)
(* KeySingleflight with a few requests for two keys.                       *)
(***************************************************************************)
EXTENDS KeySingleflight, TLC

=============================================================================
