----------------------------- MODULE TokenReads -----------------------------
(***************************************************************************)
(* The read of a batch of tokens: the rows come from the query one by one  *)
(* and in any order, a budget bounds the bytes of the answer, and the rows *)
(* are then put in the order of the request, where a token may occur more  *)
(* than once.  The query runs on one snapshot of the table, so what other  *)
(* requests write meanwhile does not show (TokenVault has those).          *)
(***************************************************************************)
EXTENDS Naturals, Sequences, FiniteSets

CONSTANTS
    HashIds,       \* hashes of tokens
    Sizes,         \* lengths of stored envelopes, in bytes
    MaxItems,      \* bound: items of a batch
    MaxBytes,      \* TOKEN_DECODE_BATCH_MAX_ENVELOPE_BYTES
    UsizeMax,      \* the largest usize
    Absent,        \* no row
    Bad            \* a row whose envelope is not one

\* A budget and a size are a usize, and no row and an invalid row are not sizes.
ASSUME ReadsAssumption ==
    /\ Sizes \subseteq 0 .. UsizeMax /\ MaxItems \in Nat
    /\ MaxBytes \in Nat /\ UsizeMax \in Nat /\ MaxBytes <= UsizeMax
    /\ Absent \notin Sizes /\ Bad \notin Sizes /\ Absent # Bad

VARIABLES
    envelopes,     \* the envelope stored for each hash: its size, Bad or Absent
    hashids,       \* the request
    readStage,     \* where the read is
    rowsDue,       \* hashes of the rows the query has still to give
    bytesLeft,     \* the budget's bytes
    rowsFound,     \* rows read so far, by hash
    usesLeft,      \* occurrences still to resolve
    inOrder        \* the rows in request order

rvars == << envelopes, hashids, readStage, rowsDue, bytesLeft, rowsFound, usesLeft, inOrder >>

TokenBatches == UNION {[1 .. n -> HashIds] : n \in 1 .. MaxItems}

Occurrences(hashid) == Cardinality({i \in DOMAIN hashids : hashids[i] = hashid})

\* TokenBatchReadBudget::new.
InitReads ==
    /\ envelopes \in [HashIds -> Sizes \cup {Absent, Bad}]
    /\ hashids \in TokenBatches
    /\ readStage = "fetch"
    /\ rowsDue = {h \in HashIds : envelopes[h] # Absent /\ Occurrences(h) > 0}
    /\ bytesLeft = MaxBytes
    /\ rowsFound = [h \in HashIds |-> Absent]
    /\ usesLeft = [h \in HashIds |-> Occurrences(h)]
    /\ inOrder = << >>

checked_mul(a, b) == IF a * b > UsizeMax THEN {} ELSE {a * b}
checked_sub(a, b) == IF b > a THEN {} ELSE {a - b}

\* Mutant of retain: a token named twice is paid for once.
retain_once(hashid) ==
    IF envelopes[hashid] = Bad THEN {} ELSE checked_sub(bytesLeft, envelopes[hashid])

\* What a row leaves of the budget, or {}.
retain(hashid) ==
    IF envelopes[hashid] = Bad
       THEN {}
       ELSE UNION {checked_sub(bytesLeft, bytes) :
                      bytes \in checked_mul(envelopes[hashid], Occurrences(hashid))}

\* One row of the query.
get_tokens_batch ==
    /\ readStage = "fetch"
    /\ \E h \in rowsDue :
         /\ rowsDue' = rowsDue \ {h}
         /\ IF retain(h) = {}
               THEN /\ readStage' = IF envelopes[h] = Bad THEN "invalid" ELSE "too large"
                    /\ UNCHANGED << bytesLeft, rowsFound >>
               ELSE /\ bytesLeft' \in retain(h)
                    /\ rowsFound' = [rowsFound EXCEPT ![h] = envelopes[h]]
                    /\ UNCHANGED readStage
    /\ UNCHANGED << envelopes, hashids, usesLeft, inOrder >>

\* The query has no more rows.
fetched ==
    /\ readStage = "fetch" /\ rowsDue = {}
    /\ readStage' = "resolve"
    /\ UNCHANGED << envelopes, hashids, rowsDue, bytesLeft, rowsFound, usesLeft, inOrder >>

\* Mutant of taken: every use takes the row out of the map.
taken_always(h) == [rowsFound EXCEPT ![h] = Absent]

\* The last use of a row takes it out of the map; the ones before copy it.
taken(h) == IF usesLeft[h] = 1 THEN [rowsFound EXCEPT ![h] = Absent] ELSE rowsFound

\* The next item of the request; the handler stops at one that has no row.
resolve_tokens_in_request_order ==
    /\ readStage = "resolve" /\ Len(inOrder) < Len(hashids)
    /\ LET h == hashids[Len(inOrder) + 1] IN
       IF rowsFound[h] = Absent
          THEN /\ readStage' = "not found"
               /\ UNCHANGED << rowsFound, usesLeft, inOrder >>
          ELSE /\ inOrder' = Append(inOrder, [hashid |-> h, data |-> rowsFound[h]])
               /\ rowsFound' = taken(h)
               /\ usesLeft' = [usesLeft EXCEPT ![h] = @ - 1]
               /\ UNCHANGED readStage
    /\ UNCHANGED << envelopes, hashids, rowsDue, bytesLeft >>

\* prepare_decode_batch: as many rows as references.
prepare_decode_batch ==
    /\ readStage = "resolve" /\ Len(inOrder) = Len(hashids)
    /\ readStage' = "prepared"
    /\ UNCHANGED << envelopes, hashids, rowsDue, bytesLeft, rowsFound, usesLeft, inOrder >>

ReadStep ==
    \/ get_tokens_batch \/ fetched
    \/ resolve_tokens_in_request_order \/ prepare_decode_batch

SpecReads == InitReads /\ [][ReadStep]_rvars
-----------------------------------------------------------------------------
Rowed == {i \in DOMAIN hashids : envelopes[hashids[i]] \in Sizes}

\* The bytes of the rows of some items, each byte with the item it answers.
BytesOf(items) == UNION {{i} \X (1 .. envelopes[hashids[i]]) : i \in items}

\* The bytes of the answer, an item named twice counted twice.
AskedBytes == Cardinality(BytesOf(Rowed))

\* A batch is turned down as too large exactly when the rows it asks for, each
\* as often as it asks, exceed the budget, in whatever order the query gives
\* them (TokenBatchReadBudget).
BudgetIgnoresRowOrder ==
    /\ readStage = "too large" => AskedBytes > MaxBytes
    /\ readStage \in {"resolve", "prepared"} => AskedBytes <= MaxBytes

\* The rows that are decrypted are those of the request, item by item, a token
\* that occurs twice included; and a batch is answered with not found only if
\* one of its tokens has no row (resolve_tokens_in_request_order).
AnswersInRequestOrder ==
    /\ readStage = "prepared" =>
          inOrder = [i \in DOMAIN hashids |->
                         [hashid |-> hashids[i], data |-> envelopes[hashids[i]]]]
    /\ readStage = "not found" => \E i \in DOMAIN hashids : envelopes[hashids[i]] = Absent
=============================================================================
