----------------------------- MODULE TokenVault -----------------------------
(***************************************************************************)
(* Random tokenization: the HTTP handlers that encode, decode and delete   *)
(* tokens and that create and delete subjects, running concurrently on     *)
(* shared storage.                                                         *)
(*                                                                         *)
(* A handler is an async function.  It runs without interruption between   *)
(* two awaits, so it is split into one action per await: a read of the     *)
(* in-memory key under its lock, a dispatch to the crypto pool, a storage  *)
(* transaction.  A worker carries what the handler holds in its locals     *)
(* from one action to the next.  Storage transactions are atomic here, as  *)
(* SQLite's BEGIN IMMEDIATE makes them (module PgSubject opens up the      *)
(* transactions of the PostgreSQL backend).                                *)
(*                                                                         *)
(* Cryptography is ideal.  A keyed hash is the tuple of everything that    *)
(* enters it, so two hashes are equal only if the key and the message are; *)
(* a ciphertext opens only under the key and associated data it was sealed *)
(* with.  A random token and a random seed are values never drawn before.  *)
(* A plaintext is identified with the token it was encoded as.             *)
(***************************************************************************)
EXTENDS KeyLifecycle, Naturals, Sequences, FiniteSets

CONSTANTS
    Workers,       \* handler invocations in flight
    Profiles,      \* tokenization profiles of one kid
    Stored,        \* the profiles whose subject_mode is "stored"
    OneTime,       \* the profiles with one_time set
    Names,         \* subject names
    NoSubject,     \* no subject in the request
    KeyStatuses,   \* the statuses the node's copy of the key goes through
    MaxTokens,     \* bound: tokens ever generated
    MaxSeeds,      \* bound: subject seeds ever generated
    MaxBatch       \* bound: items in a batch request

ASSUME VaultAssumption ==
    /\ Profiles # {}
    /\ Stored \subseteq Profiles
    /\ OneTime \subseteq Profiles
    /\ KeyStatuses \subseteq LIFECYCLE_STATUSES
    /\ "active" \in KeyStatuses
    /\ MaxTokens \in Nat /\ MaxSeeds \in Nat /\ MaxBatch \in Nat \ {0}
    /\ NoSubject \notin Stored \X Names

VARIABLES
    keyStatus,  \* lifecycle status of the key in the node's memory
    subjects,   \* table subjects: the seed of each subject, or NoSeed
    rows,       \* table tokens, primary key hashid
    worker,     \* what each handler holds, and where it is
    tokensDrawn, seedsDrawn,   \* random values drawn so far
    delivered,  \* history: plaintext responses per one-time token, up to two
    revoked     \* history: tokens whose removal a response has confirmed

vars == << keyStatus, subjects, rows, worker, tokensDrawn, seedsDrawn,
           delivered, revoked >>

Token == 1 .. MaxTokens
Seed == 1 .. MaxSeeds
NoSeed == 0

\* subject_id: a keyed hash of the profile and the name.
Subject == Stored \X Names
SubjectId(profile, name) == << profile, name >>

\* TokenContext::hash: the profile's hash key, or the one derived from the
\* subject's seed, over the profile, the subject and the token.
HashId(c, token) ==
    [profile |-> c.profile, subject |-> c.subject, seed |-> c.seed,
     token |-> token]

HashIds == [profile : Profiles, subject : Subject \cup {NoSubject},
            seed : Seed \cup {NoSeed}, token : Token]

\* TokenContext::encrypt: sealed under the context's data key with the hashid
\* as associated data; the payload names its profile.
Encrypt(c, token) ==
    [aad |-> HashId(c, token), profile |-> c.profile, plaintext |-> token]

\* TokenContext::decrypt.
Decrypts(c, token, data) ==
    data.aad = HashId(c, token) /\ data.profile = c.profile

Row(c, token) ==
    [hashid |-> HashId(c, token), subject |-> c.subject,
     data |-> Encrypt(c, token)]

Rows == [hashid : HashIds, subject : Subject \cup {NoSubject},
         data : [aad : HashIds, profile : Profiles, plaintext : Token]]

EncodeOps == {"encode", "encode_batch"}
DecodeOps == {"decode", "decode_batch"}
Ops == EncodeOps \cup DecodeOps \cup {"delete", "subject_create", "subject_delete"}

UseOf(op) == CASE op \in EncodeOps -> "NewUse"
               [] op \in DecodeOps -> "Verify"
               [] op = "delete"    -> "TokenDelete"

PCs == {"idle", "authorize", "context", "seed", "ready", "save", "decrypt",
        "consume", "prepare", "exists", "insert", "purge", "respond"}

BatchOf(S) == UNION {[1 .. n -> S] : n \in 1 .. MaxBatch}

Contexts ==
    [pc : PCs, op : Ops \cup {"none"}, profile : Profiles,
     subject : Subject \cup {NoSubject}, seed : Seed \cup {NoSeed},
     items : BatchOf(Token) \cup {<<>>}, size : 0 .. MaxBatch,
     found : BatchOf(Rows) \cup {<<>>}, gone : SUBSET Token,
     stale : BOOLEAN]

Idle == [pc |-> "idle", op |-> "none", profile |-> CHOOSE p \in Profiles : TRUE,
         subject |-> NoSubject, seed |-> NoSeed, items |-> <<>>, size |-> 0,
         found |-> <<>>, gone |-> {}, stale |-> FALSE]

ItemsOf(c) == {c.items[i] : i \in DOMAIN c.items}
-----------------------------------------------------------------------------
Init ==
    /\ keyStatus = "active"
    /\ subjects = [s \in Subject |-> NoSeed]
    /\ rows = {}
    /\ worker = [w \in Workers |-> Idle]
    /\ tokensDrawn = 0
    /\ seedsDrawn = 0
    /\ delivered = [t \in Token |-> 0]
    /\ revoked = {}

storage == << subjects, rows >>
drawn == << tokensDrawn, seedsDrawn >>
history == << delivered, revoked >>

Goto(w, pc) == worker' = [worker EXCEPT ![w].pc = pc]

\* The handler returns, early with an error or at its end: its locals go.
Return(w) == worker' = [worker EXCEPT ![w] = Idle]
-----------------------------------------------------------------------------
(***************************************************************************)
(* The first synchronous stretch of each handler: authentication,          *)
(* permission, lazy key load, parsing, and the profile taken from the      *)
(* request's configuration snapshot.  A request refused here has touched   *)
(* nothing (action Fail).                                                 *)
(***************************************************************************)
Begin(w, c) ==
    /\ worker[w].pc = "idle"
    /\ worker' = [worker EXCEPT ![w] = c]
    /\ UNCHANGED << keyStatus, storage, drawn, history >>

BeginEncode(w) ==
    \E p \in Profiles, s \in Subject \cup {NoSubject} :
        Begin(w, [Idle EXCEPT !.pc = "context", !.op = "encode",
                     !.profile = p, !.subject = s, !.size = 1])

BeginEncodeBatch(w) ==
    \E p \in Profiles, s \in Subject \cup {NoSubject}, n \in 1 .. MaxBatch :
        Begin(w, [Idle EXCEPT !.pc = "context", !.op = "encode_batch",
                     !.profile = p, !.subject = s, !.size = n])

BeginDecode(w) ==
    \E p \in Profiles, s \in Subject \cup {NoSubject}, t \in 1 .. tokensDrawn :
        Begin(w, [Idle EXCEPT !.pc = "context", !.op = "decode",
                     !.profile = p, !.subject = s, !.items = << t >>,
                     !.stale = t \in revoked])

BeginDecodeBatch(w) ==
    \E p \in Profiles, s \in Subject \cup {NoSubject} :
    \E ts \in BatchOf(1 .. tokensDrawn) :
        Begin(w, [Idle EXCEPT !.pc = "authorize", !.op = "decode_batch",
                     !.profile = p, !.subject = s, !.items = ts,
                     !.stale = \E i \in DOMAIN ts : ts[i] \in revoked])

BeginDelete(w) ==
    \E p \in Profiles, s \in Subject \cup {NoSubject}, t \in 1 .. tokensDrawn :
        Begin(w, [Idle EXCEPT !.pc = "context", !.op = "delete",
                     !.profile = p, !.subject = s, !.items = << t >>])

BeginSubjectCreate(w) ==
    \E p \in Profiles, n \in Names :
        Begin(w, [Idle EXCEPT !.pc = "prepare", !.op = "subject_create",
                     !.profile = p,
                     !.subject = IF p \in Stored THEN SubjectId(p, n)
                                                 ELSE NoSubject])

BeginSubjectDelete(w) ==
    \E s \in Subject :
        Begin(w, [Idle EXCEPT !.pc = "purge", !.op = "subject_delete",
                     !.subject = s])
-----------------------------------------------------------------------------
(***************************************************************************)
(* token_context, shared by the token handlers.                            *)
(***************************************************************************)
\* authorize_decode_batch: a batch decode checks its key once more up front.
AuthorizeDecodeBatch(w) ==
    /\ worker[w].pc = "authorize"
    /\ IF AllowsProfileUse("Verify", keyStatus)
          THEN Goto(w, "context")
          ELSE Return(w)
    /\ UNCHANGED << keyStatus, storage, drawn, history >>

\* Mutant of ValidSubjectMode: a stored profile does without a subject.
ValidSubjectModeOptional(c) == c.subject # NoSubject => c.profile \in Stored

\* validate_subject_mode: a subject is given exactly for a stored profile.
ValidSubjectMode(c) == c.profile \in Stored <=> c.subject # NoSubject

\* The lifecycle check, under the read lock of the in-memory keys.
TokenContext(w) ==
    LET c == worker[w] IN
    /\ c.pc = "context"
    /\ IF ValidSubjectMode(c) /\ AllowsProfileUse(UseOf(c.op), keyStatus)
          THEN Goto(w, IF c.subject = NoSubject THEN "ready" ELSE "seed")
          ELSE Return(w)
    /\ UNCHANGED << keyStatus, storage, drawn, history >>

\* open_seed: the envelope authenticates the profile that created it.
OpensSeed(profile, subject) == subject[1] = profile

\* get_subject, then open_seed in the crypto pool; the generation read here is
\* the one the context keeps.
OpenSubject(w) ==
    LET c == worker[w] IN
    /\ c.pc = "seed"
    /\ IF subjects[c.subject] # NoSeed /\ OpensSeed(c.profile, c.subject)
          THEN worker' = [worker EXCEPT ![w].pc = "ready",
                                        ![w].seed = subjects[c.subject]]
          ELSE Return(w)
    /\ UNCHANGED << keyStatus, storage, drawn, history >>
-----------------------------------------------------------------------------
(***************************************************************************)
(* Encode.                                                                 *)
(***************************************************************************)
\* generate_token, once per item.
NewTokens(c) == [i \in 1 .. c.size |-> tokensDrawn + i]

\* prepare_encode checks the lifecycle again; encode draws the tokens.
EncodeItems(w) ==
    LET c == worker[w] IN
    /\ c.pc = "ready" /\ c.op \in EncodeOps
    /\ \/ /\ ~AllowsNewUse(keyStatus)
          /\ Return(w)
          /\ UNCHANGED tokensDrawn
       \/ /\ AllowsNewUse(keyStatus)
          /\ tokensDrawn + c.size <= MaxTokens
          /\ tokensDrawn' = tokensDrawn + c.size
          /\ worker' = [worker EXCEPT ![w].pc = "save",
                                      ![w].items = NewTokens(c)]
    /\ UNCHANGED << keyStatus, storage, seedsDrawn, history >>

\* Mutant of GuardHolds: any live subject will do, whatever its seed.
GuardIgnoresGeneration(c) ==
    c.subject # NoSubject => subjects[c.subject] # NoSeed

\* check_subject_generation: the subject still has the seed the context was
\* opened with.  Without a subject there is no guard.
GuardHolds(c) == c.subject # NoSubject => subjects[c.subject] = c.seed

\* save_tokens_batch_guarded: the generation guard and all the inserts, or
\* nothing.
SaveTokens(w) ==
    LET c == worker[w] IN
    /\ c.pc = "save"
    /\ IF GuardHolds(c)
          THEN /\ rows' = rows \cup {Row(c, t) : t \in ItemsOf(c)}
               /\ Goto(w, "respond")
          ELSE /\ Return(w)
               /\ UNCHANGED rows
    /\ UNCHANGED << keyStatus, subjects, drawn, history >>
-----------------------------------------------------------------------------
(***************************************************************************)
(* Decode.  A token is looked up by its hash in the request's context.     *)
(***************************************************************************)
\* A batch on a one-time profile may not name a token twice.
RejectsDuplicates(c) ==
    /\ c.op = "decode_batch"
    /\ c.profile \in OneTime
    /\ \E i, j \in DOMAIN c.items : i # j /\ c.items[i] = c.items[j]

RowsFor(c, i) == {r \in rows : r.hashid = HashId(c, c.items[i])}

\* get_token or get_tokens_batch: every token must be there, and a row's
\* subject must be the request's.  The rows come in request order; module
\* TokenReads has the steps that put them there.
ReadTokens(w) ==
    LET c == worker[w]
        complete == \A i \in DOMAIN c.items : RowsFor(c, i) # {}
        found == [i \in DOMAIN c.items |-> CHOOSE r \in RowsFor(c, i) : TRUE]
    IN
    /\ c.pc = "ready" /\ c.op \in DecodeOps
    /\ IF /\ ~RejectsDuplicates(c)
          /\ complete
          /\ \A i \in DOMAIN c.items : found[i].subject = c.subject
          THEN worker' = [worker EXCEPT ![w].pc = "decrypt", ![w].found = found]
          ELSE Return(w)
    /\ UNCHANGED << keyStatus, storage, drawn, history >>

\* prepare_decode checks the lifecycle again for a single token;
\* prepare_decode_batch does not.  Then the payloads are opened.
DecryptTokens(w) ==
    LET c == worker[w] IN
    /\ c.pc = "decrypt"
    /\ IF /\ c.op = "decode" => AllowsDecryptOrVerify(keyStatus)
          /\ \A i \in DOMAIN c.items :
                Decrypts(c, c.items[i], c.found[i].data)
          THEN Goto(w, IF c.profile \in OneTime THEN "consume" ELSE "respond")
          ELSE Return(w)
    /\ UNCHANGED << keyStatus, storage, drawn, history >>

\* The rows a request's tokens name for deletion, by hashid and subject.
Deletable(c) ==
    {r \in rows : /\ \E t \in ItemsOf(c) : r.hashid = HashId(c, t)
                  /\ r.subject = c.subject}

\* Mutant of DeletesAll: rows_affected is not looked at.
DeletesAllUnchecked(c) == TRUE

\* delete_token_for_subject and consume_tokens_batch_for_subject delete every
\* row asked for, each named once, or roll back.
DeletesAll(c) ==
    /\ \A i, j \in DOMAIN c.items : c.items[i] = c.items[j] => i = j
    /\ \A t \in ItemsOf(c) : \E r \in Deletable(c) : r.hashid = HashId(c, t)

\* Mutant of DeleteRows: the transaction is dropped without a commit.
DeleteRowsUncommitted(w) ==
    LET c == worker[w] IN
    /\ UNCHANGED rows
    /\ IF DeletesAll(c)
          THEN worker' = [worker EXCEPT ![w].pc = "respond",
                                        ![w].gone = ItemsOf(c)]
          ELSE Return(w)

\* Mutant of DeleteRows: no rollback when a row is missing.
DeleteRowsPartially(w) ==
    LET c == worker[w] IN
    /\ rows' = rows \ Deletable(c)
    /\ IF DeletesAll(c)
          THEN worker' = [worker EXCEPT ![w].pc = "respond",
                                        ![w].gone = ItemsOf(c)]
          ELSE Return(w)

DeleteRows(w) ==
    LET c == worker[w] IN
    IF DeletesAll(c)
       THEN /\ rows' = rows \ Deletable(c)
            /\ worker' = [worker EXCEPT ![w].pc = "respond",
                                        ![w].gone = ItemsOf(c)]
       ELSE /\ Return(w)
            /\ UNCHANGED rows

\* A one-time token is removed before its plaintext is released.
ConsumeTokens(w) ==
    /\ worker[w].pc = "consume"
    /\ DeleteRows(w)
    /\ UNCHANGED << keyStatus, subjects, drawn, history >>

DeleteToken(w) ==
    /\ worker[w].pc = "ready" /\ worker[w].op = "delete"
    /\ DeleteRows(w)
    /\ UNCHANGED << keyStatus, subjects, drawn, history >>
-----------------------------------------------------------------------------
(***************************************************************************)
(* Subjects.                                                               *)
(***************************************************************************)
\* prepare_create: a stored profile and an active key.
PrepareSubject(w) ==
    LET c == worker[w] IN
    /\ c.pc = "prepare"
    /\ IF c.profile \in Stored /\ AllowsNewUse(keyStatus)
          THEN Goto(w, "exists")
          ELSE Return(w)
    /\ UNCHANGED << keyStatus, storage, drawn, history >>

\* subject_exists; then create_seed draws a new seed in the crypto pool.
SubjectExists(w) ==
    LET c == worker[w] IN
    /\ c.pc = "exists"
    /\ \/ /\ subjects[c.subject] # NoSeed
          /\ Return(w)
          /\ UNCHANGED seedsDrawn
       \/ /\ subjects[c.subject] = NoSeed
          /\ seedsDrawn < MaxSeeds
          /\ seedsDrawn' = seedsDrawn + 1
          /\ worker' = [worker EXCEPT ![w].pc = "insert",
                                      ![w].seed = seedsDrawn + 1]
    /\ UNCHANGED << keyStatus, storage, tokensDrawn, history >>

\* Mutant of Inserts: an upsert that replaces the seed.
InsertsAlways(c) == TRUE

\* save_subject: INSERT ... ON CONFLICT DO NOTHING.
Inserts(c) == subjects[c.subject] = NoSeed

SaveSubject(w) ==
    LET c == worker[w] IN
    /\ c.pc = "insert"
    /\ subjects' = IF Inserts(c) THEN [subjects EXCEPT ![c.subject] = c.seed]
                                 ELSE subjects
    /\ Return(w)
    /\ UNCHANGED << keyStatus, rows, drawn, history >>

\* delete_subject: the subject's token rows and its seed in one transaction,
\* whatever the key's status.
RowsOf(s) == {r \in rows : r.subject = s}

PurgeSubject(w) ==
    LET c == worker[w] IN
    /\ c.pc = "purge"
    /\ rows' = rows \ RowsOf(c.subject)
    /\ subjects' = [subjects EXCEPT ![c.subject] = NoSeed]
    /\ IF subjects[c.subject] = NoSeed
          THEN Return(w)
          ELSE worker' = [worker EXCEPT ![w].pc = "respond",
                             ![w].gone = {r.hashid.token : r \in RowsOf(c.subject)}]
    /\ UNCHANGED << keyStatus, drawn, history >>
-----------------------------------------------------------------------------
(***************************************************************************)
(* The end of a handler, and what can cut it short.                        *)
(***************************************************************************)
Occurrences(c, t) == Cardinality({i \in DOMAIN c.items : c.items[i] = t})
UpToTwo(n) == IF n > 2 THEN 2 ELSE n

\* The response leaves: a decode delivers its plaintexts (counted on one-time
\* profiles).
Respond(w) ==
    LET c == worker[w] IN
    /\ c.pc = "respond"
    /\ Return(w)
    /\ delivered' = IF c.op \in DecodeOps /\ c.profile \in OneTime
                       THEN [t \in Token |-> UpToTwo(delivered[t] + Occurrences(c, t))]
                       ELSE delivered
    /\ revoked' = revoked \cup c.gone
    /\ UNCHANGED << keyStatus, storage, drawn >>

\* The handler ends without its response: the request is refused at the
\* start, the crypto queue is full, storage fails, the audit record of a
\* finished operation cannot be made durable and an error replaces the
\* response, or the client goes away and the future is dropped at an await.
Fail(w) ==
    /\ worker[w].pc # "idle"
    /\ Return(w)
    /\ UNCHANGED << keyStatus, storage, drawn, history >>

\* A lifecycle update or a reload replaces the node's copy of the key.
ReplaceKey ==
    /\ keyStatus' \in KeyStatuses \ {keyStatus}
    /\ UNCHANGED << storage, worker, drawn, history >>
-----------------------------------------------------------------------------
Step(w) ==
    \/ AuthorizeDecodeBatch(w) \/ TokenContext(w) \/ OpenSubject(w)
    \/ EncodeItems(w) \/ SaveTokens(w)
    \/ ReadTokens(w) \/ DecryptTokens(w) \/ ConsumeTokens(w) \/ DeleteToken(w)
    \/ PrepareSubject(w) \/ SubjectExists(w) \/ SaveSubject(w) \/ PurgeSubject(w)
    \/ Respond(w) \/ Fail(w)

Start(w) ==
    \/ BeginEncode(w) \/ BeginEncodeBatch(w) \/ BeginDecode(w)
    \/ BeginDecodeBatch(w) \/ BeginDelete(w)
    \/ BeginSubjectCreate(w) \/ BeginSubjectDelete(w)

Next == ReplaceKey \/ \E w \in Workers : Start(w) \/ Step(w)

Spec == Init /\ [][Next]_vars
-----------------------------------------------------------------------------
(***************************************************************************)
(* Properties.                                                             *)
(***************************************************************************)
\* Every variable has its type, and a token row names a subject exactly if the
\* subject mode of its profile is stored: no request gets past
\* validate_subject_mode with the other form and leaves a row that the deletion
\* of its subject would not find.
TypeOK ==
    /\ keyStatus \in KeyStatuses
    /\ subjects \in [Subject -> Seed \cup {NoSeed}]
    /\ rows \subseteq Rows
    /\ \A r \in rows : r.hashid.profile \in Stored <=> r.subject # NoSubject
    /\ worker \in [Workers -> Contexts]
    /\ tokensDrawn \in 0 .. MaxTokens
    /\ seedsDrawn \in 0 .. MaxSeeds
    /\ delivered \in [Token -> 0 .. 2]
    /\ revoked \subseteq Token

\* A stored row of a subject belongs to the seed the subject has now: deleting
\* a subject leaves none of its rows behind, no encode that opened the old seed
\* puts one back, and a subject created again starts empty.
RowsUnderCurrentSeed ==
    \A r \in rows : r.subject # NoSubject =>
        /\ subjects[r.subject] # NoSeed
        /\ subjects[r.subject] = r.hashid.seed

\* The plaintext of a one-time token leaves the service at most once, however
\* many decodes, batch decodes and deletes of it run at the same time.
OneTimeDeliveredOnce == \A t \in Token : delivered[t] <= 1

\* Once a response has confirmed that a token is gone (deleted, consumed, or
\* purged with its subject), no decode that starts afterwards answers with its
\* plaintext.
RevocationIsFinal ==
    \A w \in Workers :
        worker[w].pc = "respond" /\ worker[w].op \in DecodeOps => ~worker[w].stale

\* The seed of a live subject is never replaced: when several creations of a
\* subject race, all but one keep the winner's seed.
SeedNeverReplaced ==
    [][\A s \in Subject : subjects[s] # NoSeed =>
          subjects'[s] \in {subjects[s], NoSeed}]_vars

\* Rows disappear only in a step that removes everything its request asked for
\* and whose handler goes on to the response that confirms the removal: a batch
\* that meets a missing row removes none of the others.  The response may still
\* be lost, or be replaced by an error when its audit record cannot be written
\* (Fail); the rows are gone then all the same.
RemovalIsReported ==
    [][\A r \in rows \ rows' :
          \E w \in Workers : /\ worker'[w].pc = "respond"
                             /\ r.hashid.token \in worker'[w].gone]_vars
=============================================================================
