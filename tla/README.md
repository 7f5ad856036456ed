# Vectis: formal models

This directory models Vectis in TLA+, checks the models with TLC on small
instances and proves theorems about them with TLAPS. Source paths below are
relative to the crate's `src/`.

## 1. The system

Vectis is an HTTP service (and a CLI that prepares and administers it) that
protects data with keys it never releases. Its layers are `core` (configuration,
storage, cryptographic building blocks, audit), `ops` (one file per operation,
mostly synchronous) and `io` (HTTP handlers, CLI). Several nodes may share one
PostgreSQL database; with SQLite there is one node. Everything else is local to a
node: keys and signed configuration are loaded at start and reloaded only on
request.

| Part | Code | Holds state | Model |
|---|---|---|---|
| random tokenization, stored subjects | `io/http/token.rs`, `io/http/subject.rs`, `ops/tokenization.rs`, `ops/subjects.rs` | tables `tokens`, `subjects` | `TokenVault` |
| batch reads of tokens | `core/storage/mod.rs`, `ops/tokenization.rs` | | `TokenReads` |
| PostgreSQL transactions on them | `core/storage/postgres.rs` | rows, row locks | `PgSubject` |
| key lifecycle rules | `ops/keys.rs` | | `KeyLifecycle` |
| operational keys | `ops/keys.rs`, `io/http/keys.rs`, `io/http/mod.rs` | table `opskeys`, `KeysDbState` per node | `KeyStore` |
| lazy load single-flight | `io/http/key_load.rs` | map of flights | `KeySingleflight` |
| crypto admission | `core/blocking.rs` | two semaphores | `CryptoAdmission` |
| audit chain writer | `core/audit_chain.rs`, `core/audit.rs`, `io/http/middleware.rs` | channel, file, chain head | `AuditWriter`, abstract `AuditLog` |
| audit chain verifier | `core/audit_chain.rs` | | `AuditVerify` |
| signed configuration | `core/config_file.rs`, `io/http/config.rs`, `io/http/mod.rs`, `io/cli/http.rs` | two files, `ConfigState` per node | `ConfigReload` |
| permissions, API keys | `core/permissions.rs`, `io/http/auth.rs` | | `Permissions` |
| messaging between services | `io/http/message.rs`, `ops/message.rs`, `core/remote_routes.rs` | | planned |
| profile operations, blind indexes | `ops/{mac,fpe,commitments,sharing,masking,indexes}.rs` and others | table `indexes` | planned, batch rules and lifecycle only |
| signatures, time attestation, init, unseal, CLI, wiring | the rest | | not modelled |

`PROJECT.json` lists every part with the reason for what is left out, maps each
definition to the lines it stands for, and lists the hazards the properties are
aimed at.

## 2. How the code becomes actions

A handler is an async function: it runs without interruption between two awaits,
and at each await it may be overtaken, or dropped when its client goes away. Each
stretch between two awaits is one action, and a worker record carries the
handler's locals from one to the next. `Fail` is the early end: an error at that
point or a dropped future.

Cryptography is ideal. A keyed hash is the record of everything that enters it, a
ciphertext opens only under the key and associated data it was sealed with, and a
random value is one never drawn before (a counter). Formatting, logging, metrics
and the wording of errors are left out.

**TokenVault** has one action per await of the encode, decode and delete
endpoints (single and batch) and of subject creation and deletion, over the two
tables and the node's copy of the key, which another request may change at any
time. Storage transactions are atomic, as SQLite's are.

**TokenReads** opens up the read of a batch: rows come from the query one by one in
any order, `TokenBatchReadBudget` charges each as often as the request names it, and
`resolve_tokens_in_request_order` hands them out, copying a row until its last use
takes it. `MCPgSubject` runs it beside `PgSubject`; the two share no state, a
behaviour is one or the other.

**PgSubject** opens those transactions up for PostgreSQL: statement by statement
at READ COMMITTED, with share locks, row locks, waiting, commit and rollback. The
database is external; only what these statements rely on is modelled.

**KeyStore** has the rows, each node's copy and the handlers that create keys,
change their status (compare-and-swap on the encrypted properties), reload
everything or load one key on first use; nodes may restart. A blob is encrypted
under a fresh nonce, so the model numbers them. The history variable `disturbed`
notes the nodes on which administrative requests have overlapped or a row was
skipped since the last complete start; what serial administration promises is
stated for the others.

**KeySingleflight** models the map of weak references to flights and the
`OnceCell` in each: joining, running the loader, handing over when the
runner is cancelled, and the removal by the last lease.

**CryptoAdmission** models the execution semaphore, the queue semaphore, the
deadline, cancellation at each await, and closures that outlive their callers.

**AuditWriter** models requests that emit records into the bounded channel and
await a barrier, the writer thread with its group commit, checkpoints, sync and
poisoning, orderly shutdown, power failures that lose or tear unsynced lines, and
starts on the same file. A start writes its genesis record and syncs it in two
steps; either may fail, and power may fail between them. A genesis record written
behind a torn line is glued to it, and both are one unreadable line. **AuditVerify** is the
verifier that the properties use to read the file. **AuditLog** is what the writer
promises: acknowledged events are durable and durable events stay.

**ConfigReload** models the operator, who edits and signs two files, the start and
the reloads that read them one after the other, and requests that are authorised
and served on a snapshot of the configuration. A file content stands for all texts
with the same canonical JSON; of its sections the permissions and one profile
section are there in full, the field rules of the others are a flag. `POST
/mac/{kid}` stands for the profile endpoints, which share its outline.
**Permissions** is the validation of the permissions section, the table it is
compiled to and the decision, with `MayAct` as the independent reading of the
file that the properties compare it with.

## 3. Runs

| Run | Instance | Shows |
|---|---|---|
| `token_once` | 2 handlers, 1 one-time stored profile, 2 tokens, 2 seeds, batches of 2 | rows belong to the live seed; one-time plaintexts leave once; confirmed removals are final; a removal that took only part of its rows is never committed |
| `token_mixed` | 2 handlers, a stored and a one-time profile, 3 key statuses | the same across profiles, and seeds are never replaced |
| `pg_subject` | 3 transactions, 2 tokens, 2 seeds; batch reads of up to 3 items over 3 rows | consumption commits once, inserts commit under the seed they checked; the budget of a batch read does not depend on the order of its rows, and every item gets its own |
| `key_store` | 2 nodes, 3 handlers, 1 key, 3 blobs, rows may be skipped | stored statuses follow the lifecycle; a confirmed terminal status is enforced on nodes that are not `disturbed` |
| `single_flight` | 3 requests, 2 keys | one load per key, no leaked flight; every request is answered |
| `crypto_admission` | 5 jobs, limits 2 and 2 | limits hold, permits are conserved; no job waits for ever |
| `audit_writer` | 2 requests, channel 2, group 2, 2 events, 2 chains, torn lines, failing starts | the writer implements `AuditLog`; a file without a torn line verifies; an orderly shutdown ends in a signed checkpoint; every waiting request is answered |
| `config_reload` | 2 handlers, 2 keys of which one may fail to load, 3 files, 2 edits, the root key and 3 client keys | only signed, valid files come into force; decisions follow the file; a request is served under one file; after an answered reload nothing older comes into force than what loads held when it installed |

Why the bounds are enough. The races are between two requests over one object
(token, subject, key, configuration), so two or three workers and one object reach
them; two seeds allow deletion and recreation, two tokens allow a batch that
overlaps another request, three blobs allow two updates of a created key. Channel
and group sizes of 2 with 2 events and 2 barriers fill the channel and split a
batch; two chains put one behind another, and a start that wrote no genesis record
leaves its chain free for the next. Two edits let a file change
between the two reads of a load, with a signature of the older one in place. The
files of `MCConfigReload` bind one profile to different keys, move a grant, have an
active administrator and then revoke it, disable a client, use the wildcard and fail
to parse. Deadlock checking is off only
in the audit runs, where all requests may be served and the writer stopped.

Fairness. `single_flight` assumes that a polled future goes on (weak fairness) and
strong fairness of entering the cell, since tokio's semaphore is first come, first
served. `crypto_admission` assumes that closures end and that a granted waiter is
polled; it does not assume that deadlines pass. `audit_writer` assumes the writer
thread runs and that a request is polled when its barrier is released or dropped, and
strong fairness of sending the barrier, since tokio's channel hands out room first
come, first served; a handler may take as long as it likes.
No fairness is put on failures, cancellations, crashes or the arrival of requests.

`RemovalIsReported` is about storage transactions, not about answers: a handler whose
removal has committed may still fail before it answers.

`AnsweredReloadInForce` compares the configuration in force with what the answered
reloads have promised. A reload takes no lock across its reads, so a load that had
already read `config.json` when it installed may install its older content
afterwards, and the older file is then in force although the newer one was answered
as applied; no document excludes that. The history variable `promise` is the oldest
content that any load held at the installation, and the property says that nothing
older comes into force: loads that begin or read later cannot undo a reload, and a
reload that installed while no other load held a file is never undone.

## 4. Disagreements between the code and its documents

Four runs are expected to fail; each checks one sentence of the repository.

* `pg_subject_stale`: on PostgreSQL an encode that commits between the two
  `DELETE`s of a subject deletion leaves its rows behind, against the comment in
  `core/storage/subject_tests.rs:187` and `doc/API.md:2354`. Deleting the subject
  row first (its lock then stops the guard) would repair it.
* `key_store_overlap`: overlapping administrative requests can install an older
  row over a confirmed terminal one, against `doc/Internal.md:709` and
  `doc/API.md:553`. When a row was skipped even serial administration can, through a
  lazy load that began before the update.
* `audit_torn`: after a power failure that tears the last line, the next start appends its
  genesis record to the remains, and the file no longer verifies.
  `doc/Internal.md:616-619` says that writing a line at once "does not provide
  universal atomicity or durability across the operating system and collector; the
  synchronized audit file remains the locally verifiable destination". The first
  half allows the torn line; the run is about the second, once a later start has
  synchronized the file.
* `config_unsigned`: a reload that finds `config.json` but no signature file takes
  the second missing file for the first and installs the empty configuration,
  against `doc/API.md:620` ("unsigned [...] the previous in-memory config remains
  active") and `doc/Reference.md:440`.

## 5. Proofs

TLC checks the instances above; the theorems hold for every value of the
constants that satisfies the module's `ASSUME`.

* `TokenVaultProofs`: `TypeCorrect`, and `RowsUnderCurrentSeedHolds`. `TypeOK` is
  not inductive: a handler about to save must hold tokens already drawn and a
  subject exactly if its profile stores subjects, one about to consume must have
  found rows, and so on. `TypeInv` adds `HandlersOK`, which says this per program
  point. That rows belong to the current seed is
  then inductive: only a guarded save adds rows, and only a purge, which removes
  them, or a creation on a subject without rows changes a seed.
* `TokenOnceProofs`: `OneTimeDeliveredOnceHolds`. The invariant `OnceInv` says
  that a token is in at most one place: drawn and about to be saved by one
  handler, in one row, held by the one handler that removed its row, or delivered.
* `CryptoAdmissionProofs`: `PermitsConservedHolds`, `ExecutionBoundedHolds`,
  `QueueBoundedHolds`. `AdmissionInv` adds to permit conservation that the queue
  holds exactly the waiting jobs, each once; the bounds follow by counting.
* `ConfigReloadProofs`: `ConfigTypeCorrect`, `OnlySignedInForceHolds`,
  `AnsweredReloadInForceHolds`, for any files, keys, clients and number of
  handlers. `SignedInv` follows a content on its way into force: a signature file
  covers a signed content, a signing command holds one that validates, and a load
  past its verification holds a signed one or none. `ReloadInv` says what a
  promise needs: the number it names is a `Floor`, below which neither the disk, nor
  the configuration in force, nor any content a load holds can be. An installation
  puts the content of one holder in force and promises the oldest of them, so every
  floor stays one and the promise is one; a read takes the content of the disk. That
  a least element exists comes from the well-foundedness of the naturals.

Only model-checked: the liveness properties (fairness and `ENABLED` are beyond the
prover), the refinement of `AuditLog`, `RevocationIsFinal`, the properties of
`PgSubject`, `KeyStore` and `KeySingleflight`, and of `ConfigReload`
`ServedUnderOneFile` and `DecisionsFollowFile`.

## 6. Plan

1. Messaging: send, deliver, lost responses, remote routes.
2. Profile operations (MAC, FPE, commitments, sharing, masking, deterministic
   tokens) and blind indexes: batch rules, lifecycle, profile validation, and the
   `indexes` table.
3. The key load pool of `load_keys_from_rows`; pure algorithms: batch
   validation, key index.
4. Signatures and time attestation; init and unseal.
5. Proofs for `KeyStore` (`OnlyValidTransitions`), `KeySingleflight`,
   `ConfigReload` (`ServedUnderOneFile`) and the audit writer.
