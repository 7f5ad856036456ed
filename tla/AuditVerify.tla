---------------------------- MODULE AuditVerify ----------------------------
(***************************************************************************)
(* The lines of an audit file and the offline verifier of                  *)
(* "vectis audit verify".                                                  *)
(*                                                                         *)
(* A record's hash covers its chain, sequence number, event and previous   *)
(* hash; events are numbered apart, so chain, sequence and event identify  *)
(* it.  Event 0 is the genesis event.  A checkpoint line carries the       *)
(* sequence and hash it signs.  A line that was cut short is torn, one     *)
(* written behind the remains of another is glued: neither is valid JSON.  *)
(***************************************************************************)
EXTENDS Naturals, Sequences, SequencesExt

GENESIS_HASH == << 0, 0, 0 >>

\* hash_record
HashRecord(r) == << r.chain, r.seq, r.event >>

RecordLine(chain, seq, event, prev) ==
    [kind |-> "record", chain |-> chain, seq |-> seq, event |-> event, hash |-> prev]

CheckpointLine(chain, seq, head) ==
    [kind |-> "checkpoint", chain |-> chain, seq |-> seq, event |-> 0, hash |-> head]

TornLine == [kind |-> "torn", chain |-> 0, seq |-> 0, event |-> 0, hash |-> GENESIS_HASH]
GluedLine == [TornLine EXCEPT !.kind = "glued"]
Unreadable(r) == r.kind \in {"torn", "glued"}

\* The verifier's state: the chain it is in (none yet: chain 0), its last
\* sequence number and head hash, and whether a line was rejected.
NoChain == [valid |-> TRUE, chain |-> 0, seq |-> 0, head |-> GENESIS_HASH]
Rejected == [NoChain EXCEPT !.valid = FALSE]

IsGenesis(r) == r.kind = "record" /\ r.event = 0

\* VerifiedChain::push
Continues(v, r) ==
    v.chain # 0 /\ r.chain = v.chain /\ r.seq = v.seq + 1 /\ r.hash = v.head

\* VerifiedChain::checkpoint
Covers(v, r) ==
    v.chain # 0 /\ r.chain = v.chain /\ r.seq = v.seq /\ r.hash = v.head

VerifyLine(v, r) ==
    CASE ~v.valid \/ Unreadable(r) -> Rejected
      [] r.kind = "checkpoint" -> IF Covers(v, r) THEN v ELSE Rejected
      [] IsGenesis(r) ->
            IF r.seq = 0 /\ r.hash = GENESIS_HASH
               THEN [valid |-> TRUE, chain |-> r.chain, seq |-> 0, head |-> HashRecord(r)]
               ELSE Rejected
      [] OTHER ->
            IF Continues(v, r)
               THEN [v EXCEPT !.seq = r.seq, !.head = HashRecord(r)]
               ELSE Rejected

\* verify_file_with_verifier: every line in turn, and at least one of them.
VerifyFile(file) == file # << >> /\ FoldLeft(VerifyLine, NoChain, file).valid
=============================================================================
