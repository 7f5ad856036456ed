---------------------------- MODULE KeyLifecycle ----------------------------
(***************************************************************************)
(* The lifecycle of an operational key: the statuses a key can have, the   *)
(* transitions an administrator may ask for and the uses each status still *)
(* allows.  These are pure rules; the modules that hold keys (KeyStore,    *)
(* TokenVault) apply them to their own state.                              *)
(***************************************************************************)

LIFECYCLE_STATUSES ==
    {"active", "disabled", "retired", "compromised", "destroyed"}

\* validate_lifecycle_transition: only an active key leaves for another
\* status, and only a disabled key can come back.
ValidTransition(current, next) ==
    \/ current = "active" /\ next \in LIFECYCLE_STATUSES \ {"active"}
    \/ current = "disabled" /\ next = "active"

\* The statuses from which no transition is accepted.
Terminal == {"retired", "compromised", "destroyed"}

\* require_lifecycle_for_new_use: encrypting, signing, encoding.
AllowsNewUse(status) == status = "active"

\* require_lifecycle_for_decrypt_or_verify.
AllowsDecryptOrVerify(status) == status \in {"active", "retired"}

\* prepare_profile_use: what a profile operation of kind use needs of its key.
\* A random token may be deleted whatever the status of its key.
AllowsProfileUse(use, status) ==
    CASE use = "NewUse"      -> AllowsNewUse(status)
      [] use = "Verify"      -> AllowsDecryptOrVerify(status)
      [] use = "TokenDelete" -> TRUE
=============================================================================
