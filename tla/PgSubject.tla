------------------------------ MODULE PgSubject ------------------------------
(***************************************************************************)
(* The transactions of the PostgreSQL backend on one subject and its       *)
(* tokens: guarded insert, one-time consumption, subject creation and      *)
(* subject deletion.  Several nodes share the database, so any number of   *)
(* them may be open at once, each advancing statement by statement.        *)
(*                                                                         *)
(* Of the database the model keeps what these statements rely on at the    *)
(* default isolation level, READ COMMITTED: a statement sees the rows      *)
(* committed when it starts and its own; SELECT ... FOR SHARE and DELETE   *)
(* lock the rows they touch until the transaction ends; a statement that   *)
(* meets a locked row waits, then looks at the row again; an INSERT of a   *)
(* key that an open transaction is deleting waits for it.  A statement     *)
(* takes all its row locks at once here; the deadlocks that taking them    *)
(* one by one can cause end in Rollback.                                   *)
(***************************************************************************)
EXTENDS Naturals, FiniteSets

CONSTANTS
    Transactions,   \* connections running one transaction each at a time
    Tokens,         \* token rows of the subject that may ever be inserted
    MaxSeeds        \* bound: seeds ever drawn for the subject

ASSUME PgAssumption == MaxSeeds \in Nat

VARIABLES
    seed,        \* table subjects: the subject's seed, or NoSeed
    rows,        \* table tokens: committed rows, token and seed of its hash
    sharers,     \* transactions holding FOR SHARE on the subject row
    deleter,     \* transaction that has deleted the subject row, or none
    rowLock,     \* for each token, the transaction that has deleted its row
    tx,          \* what each transaction has done so far
    seedsDrawn,
    consumed,    \* history: tokens a committed consumption removed
    twice        \* history: tokens removed by two of them

vars == << seed, rows, sharers, deleter, rowLock, tx, seedsDrawn, consumed, twice >>

NoSeed == 0
Nobody == "nobody"
NoTx == [pc |-> "idle", op |-> "none", seed |-> NoSeed, tokens |-> {}]

Ops == {"save", "consume", "create", "purge"}
PCs == {"idle", "guard", "insert", "delete", "tokens", "subject", "commit"}

TypeOK ==
    /\ seed \in 0 .. MaxSeeds
    /\ rows \subseteq [token : Tokens, seed : 1 .. MaxSeeds]
    /\ sharers \subseteq Transactions
    /\ deleter \in Transactions \cup {Nobody}
    /\ rowLock \in [Tokens -> Transactions \cup {Nobody}]
    /\ tx \in [Transactions -> [pc : PCs, op : Ops \cup {"none"},
                                seed : 0 .. MaxSeeds, tokens : SUBSET Tokens]]
    /\ seedsDrawn \in 0 .. MaxSeeds
    /\ consumed \subseteq Tokens
    /\ twice \subseteq Tokens

Init ==
    /\ seed = NoSeed
    /\ rows = {}
    /\ sharers = {}
    /\ deleter = Nobody
    /\ rowLock = [k \in Tokens |-> Nobody]
    /\ tx = [t \in Transactions |-> NoTx]
    /\ seedsDrawn = 0
    /\ consumed = {}
    /\ twice = {}

table == << seed, rows >>
locks == << sharers, deleter, rowLock >>
history == << seedsDrawn, consumed, twice >>

InUse(k) ==
    \/ \E r \in rows : r.token = k
    \/ \E t \in Transactions : tx[t].op = "save" /\ k \in tx[t].tokens
    \/ k \in consumed

\* The end of a transaction, committed or rolled back, releases its locks.
Release(t) ==
    /\ sharers' = sharers \ {t}
    /\ deleter' = IF deleter = t THEN Nobody ELSE deleter
    /\ rowLock' = [k \in Tokens |-> IF rowLock[k] = t THEN Nobody ELSE rowLock[k]]
    /\ tx' = [tx EXCEPT ![t] = NoTx]

Begin(t, op, g, K, pc) ==
    /\ tx[t].pc = "idle"
    /\ tx' = [tx EXCEPT ![t] = [pc |-> pc, op |-> op, seed |-> g, tokens |-> K]]
    /\ UNCHANGED << table, locks, consumed, twice >>
-----------------------------------------------------------------------------
(***************************************************************************)
(* save_tokens_batch_guarded.  The encode read the seed before it began.   *)
(***************************************************************************)
\* Mutant of SaveBegin: a subject that does not exist is not noticed.
SaveBeginWithoutSubject(t) ==
    \E K \in SUBSET Tokens \ {{}} :
        /\ \A k \in K : ~InUse(k)
        /\ Begin(t, "save", seed, K, "guard")
        /\ UNCHANGED seedsDrawn

SaveBegin(t) ==
    \E K \in SUBSET Tokens \ {{}} :
        /\ seed # NoSeed
        /\ \A k \in K : ~InUse(k)
        /\ Begin(t, "save", seed, K, "guard")
        /\ UNCHANGED seedsDrawn

\* Mutant of SaveGuard: a plain SELECT, which locks nothing.
SaveGuardUnlocked(t) ==
    /\ tx[t].pc = "guard"
    /\ IF seed = tx[t].seed
          THEN /\ tx' = [tx EXCEPT ![t].pc = "insert"]
               /\ UNCHANGED locks
          ELSE Release(t)
    /\ UNCHANGED << table, history >>

\* SELECT seed ... FOR SHARE waits for an open deletion of the subject row,
\* then check_subject_generation compares what it found.
SaveGuard(t) ==
    /\ tx[t].pc = "guard"
    /\ deleter = Nobody
    /\ IF seed = tx[t].seed
          THEN /\ sharers' = sharers \cup {t}
               /\ tx' = [tx EXCEPT ![t].pc = "insert"]
               /\ UNCHANGED << deleter, rowLock >>
          ELSE Release(t)
    /\ UNCHANGED << table, history >>

\* INSERT: the row exists for this transaction only, until it commits.
SaveInsert(t) ==
    /\ tx[t].pc = "insert"
    /\ tx' = [tx EXCEPT ![t].pc = "commit"]
    /\ UNCHANGED << table, locks, history >>
-----------------------------------------------------------------------------
(***************************************************************************)
(* consume_tokens_batch_for_subject, and delete_token_for_subject for a    *)
(* batch of one.  The decode read its rows before it began.                *)
(***************************************************************************)
ConsumeBegin(t) ==
    \E K \in SUBSET {r.token : r \in {q \in rows : q.seed = seed}} \ {{}} :
        /\ Begin(t, "consume", seed, K, "delete")
        /\ UNCHANGED seedsDrawn

\* Mutant of Missing: rows that are gone are not noticed.
MissingNone(t) == {}

\* The tokens asked for that have no row any more.
Missing(t) ==
    {k \in tx[t].tokens : [token |-> k, seed |-> tx[t].seed] \notin rows}

\* DELETE waits for the transactions that have deleted some of the rows, then
\* finds them or not; one missing row rolls the whole batch back.
ConsumeDelete(t) ==
    /\ tx[t].pc = "delete"
    /\ \A k \in tx[t].tokens : rowLock[k] = Nobody
    /\ IF Missing(t) = {}
          THEN /\ rowLock' = [k \in Tokens |-> IF k \in tx[t].tokens THEN t
                                                                    ELSE rowLock[k]]
               /\ tx' = [tx EXCEPT ![t].pc = "commit"]
               /\ UNCHANGED << sharers, deleter >>
          ELSE Release(t)
    /\ UNCHANGED << table, history >>
-----------------------------------------------------------------------------
(***************************************************************************)
(* save_subject, one autocommitted INSERT ... ON CONFLICT DO NOTHING.  It  *)
(* waits for an open deletion of the same key.                             *)
(***************************************************************************)
CreateBegin(t) ==
    /\ seedsDrawn < MaxSeeds
    /\ seedsDrawn' = seedsDrawn + 1
    /\ Begin(t, "create", seedsDrawn + 1, {}, "commit")

Conflicts == seed # NoSeed
-----------------------------------------------------------------------------
(***************************************************************************)
(* delete_subject: the token rows, then the subject row, in one            *)
(* transaction.                                                            *)
(***************************************************************************)
\* DELETE FROM tokens starts: it will see the rows committed now.
PurgeBegin(t) ==
    /\ Begin(t, "purge", NoSeed, {r.token : r \in rows}, "tokens")
    /\ UNCHANGED seedsDrawn

\* It waits for the rows another open transaction has deleted, and locks the
\* ones that are still there.
PurgeTokens(t) ==
    LET left == tx[t].tokens \cap {r.token : r \in rows} IN
    /\ tx[t].pc = "tokens"
    /\ \A k \in left : rowLock[k] = Nobody
    /\ rowLock' = [k \in Tokens |-> IF k \in left THEN t ELSE rowLock[k]]
    /\ tx' = [tx EXCEPT ![t].pc = "subject"]
    /\ UNCHANGED << table, sharers, deleter, history >>

\* DELETE FROM subjects waits for every FOR SHARE lock on the row.
PurgeSubjectRow(t) ==
    /\ tx[t].pc = "subject"
    /\ sharers = {} /\ deleter = Nobody
    /\ deleter' = IF seed = NoSeed THEN Nobody ELSE t
    /\ tx' = [tx EXCEPT ![t].pc = "commit"]
    /\ UNCHANGED << table, sharers, rowLock, history >>
-----------------------------------------------------------------------------
\* The rows a transaction has deleted.
Locked(t) == {k \in Tokens : rowLock[k] = t}

\* COMMIT makes the effects of the transaction visible at once.
CommitSave(t) ==
    /\ tx[t].pc = "commit" /\ tx[t].op = "save"
    /\ rows' = rows \cup [token : tx[t].tokens, seed : {tx[t].seed}]
    /\ Release(t)
    /\ UNCHANGED << seed, history >>

CommitConsume(t) ==
    /\ tx[t].pc = "commit" /\ tx[t].op = "consume"
    /\ rows' = {r \in rows : r.token \notin Locked(t)}
    /\ consumed' = consumed \cup Locked(t)
    /\ twice' = twice \cup (consumed \cap Locked(t))
    /\ Release(t)
    /\ UNCHANGED << seed, seedsDrawn >>

CommitCreate(t) ==
    /\ tx[t].pc = "commit" /\ tx[t].op = "create"
    /\ deleter = Nobody
    /\ seed' = IF Conflicts THEN seed ELSE tx[t].seed
    /\ Release(t)
    /\ UNCHANGED << rows, history >>

CommitPurge(t) ==
    /\ tx[t].pc = "commit" /\ tx[t].op = "purge"
    /\ rows' = {r \in rows : r.token \notin Locked(t)}
    /\ seed' = IF deleter = t THEN NoSeed ELSE seed
    /\ Release(t)
    /\ UNCHANGED history

\* A failure, a cancelled handler or PostgreSQL's deadlock detector.
Rollback(t) ==
    /\ tx[t].pc # "idle"
    /\ Release(t)
    /\ UNCHANGED << table, history >>

Next ==
    \E t \in Transactions :
        \/ SaveBegin(t) \/ SaveGuard(t) \/ SaveInsert(t) \/ CommitSave(t)
        \/ ConsumeBegin(t) \/ ConsumeDelete(t) \/ CommitConsume(t)
        \/ CreateBegin(t) \/ CommitCreate(t)
        \/ PurgeBegin(t) \/ PurgeTokens(t) \/ PurgeSubjectRow(t) \/ CommitPurge(t)
        \/ Rollback(t)

Spec == Init /\ [][Next]_vars
-----------------------------------------------------------------------------
(***************************************************************************)
(* Properties.                                                             *)
(***************************************************************************)
\* A completed subject deletion leaves no row behind that was encoded under the
\* deleted seed.
NoStaleInsert == \A r \in rows : r.seed = seed

\* At most one consumption of a token commits, so a one-time decode on two
\* nodes releases its plaintext once.
ConsumedOnce == twice = {}

\* A committed insert still holds under the guard it checked: the subject has
\* the seed the encode opened at the moment its rows become visible.
CommitUnderGuard ==
    [][\A r \in rows' \ rows : seed = r.seed]_vars
=============================================================================
