----------------------------- MODULE MCPgSubject -----------------------------
(***************************************************************************)
(* What the PostgreSQL backend does for tokens: the transactions of        *)
(* PgSubject, a few of them open at a time, and the batch read of          *)
(* TokenReads.  They share no state, so a behaviour follows one of the     *)
(* two, chosen at the start, and the other stands still.                   *)
(***************************************************************************)
EXTENDS PgSubject, TokenReads, TLC

VARIABLE part

storageVars == << part, vars, rvars >>

InitStorage ==
    /\ Init
    /\ \/ part = "reads" /\ InitReads
       \/ /\ part = "transactions"
          /\ envelopes = << >> /\ hashids = << >> /\ readStage = "idle"
          /\ rowsDue = {} /\ bytesLeft = 0 /\ rowsFound = << >>
          /\ usesLeft = << >> /\ inOrder = << >>

\* A read that has its outcome stays there.
ReadOver ==
    /\ readStage \in {"prepared", "not found", "too large", "invalid"}
    /\ UNCHANGED rvars

StorageStep ==
    /\ UNCHANGED part
    /\ \/ part = "transactions" /\ Next /\ UNCHANGED rvars
       \/ part = "reads" /\ (ReadStep \/ ReadOver) /\ UNCHANGED vars

SpecStorage == InitStorage /\ [][StorageStep]_storageVars

Symmetry ==
    Permutations(Transactions) \cup Permutations(Tokens) \cup Permutations(HashIds)
=============================================================================
