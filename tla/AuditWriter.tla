---------------------------- MODULE AuditWriter ----------------------------
(***************************************************************************)
(* The audit writer: requests emit events into a bounded channel and       *)
(* confirm them before they answer; one thread appends them to the file as *)
(* a hash chain, groups what is queued into one commit, signs checkpoints, *)
(* syncs, and only then releases the requests that wait.  The file outlives*)
(* the process; what was not synced may be lost in a crash.                *)
(***************************************************************************)
EXTENDS AuditVerify, FiniteSets

CONSTANTS
    Requests,      \* HTTP requests, each served once
    Capacity,      \* AUDIT_CHAIN_CHANNEL_CAPACITY
    GroupMax,      \* AUDIT_GROUP_COMMIT_MAX_COMMANDS
    EventCount,    \* CheckpointPolicy::event_count
    MaxEvents,     \* bound: events ever emitted
    MaxStarts      \* bound: times the process is started

ASSUME AuditAssumption ==
    /\ Capacity \in Nat \ {0} /\ GroupMax \in Nat \ {0}
    /\ EventCount \in Nat \ {0}
    /\ MaxEvents \in Nat /\ MaxStarts \in Nat

VARIABLES
    file,       \* lines written, the operating system's view
    synced,     \* how many of them are on disk
    channel,    \* commands queued for the writer
    writer,     \* the writer thread and its chain state
    request,    \* where each request is, its failure cell and its events
    emitted,    \* events emitted so far
    acked       \* history: events of requests answered without audit failure

vars == << file, synced, channel, writer, request, emitted, acked >>

None == "none"

\* Commands.
Record(e, r, alone) ==
    [type |-> "record", event |-> e, req |-> r, standalone |-> alone]
Barrier(r) == [type |-> "barrier", event |-> 0, req |-> r, standalone |-> FALSE]
Shutdown == [type |-> "shutdown", event |-> 0, req |-> None, standalone |-> FALSE]

\* A new AuditChainState whose genesis event has been written and synced; the
\* writer's locals are those of an empty batch.  lastCheckpoint: the sequence a
\* checkpoint last covered, 0 for none; residue: a line the buffered writer
\* could not write out and still holds.
Started(n) ==
    [pc |-> "recv", chain |-> n, next |-> 1, head |-> << n, 0, 0 >>, since |-> 0,
     lastCheckpoint |-> 0, poisoned |-> FALSE, dirty |-> FALSE, residue |-> << >>,
     barriers |-> {}, processed |-> 0, commit |-> FALSE, shutdown |-> FALSE]

Genesis(n) == RecordLine(n, 0, 0, GENESIS_HASH)

\* A request's task, with an empty failure cell and no event yet.
Context(pc) == [pc |-> pc, failed |-> FALSE, events |-> {}]

Init ==
    /\ file = << Genesis(1) >>
    /\ synced = 1
    /\ channel = << >>
    /\ writer = Started(1)
    /\ request = [r \in Requests |-> Context("handler")]
    /\ emitted = 0
    /\ acked = {}

disk == << file, synced >>
Up == writer.pc \notin {"down", "genesis"}
Closed == writer.pc = "stopped"

\* Mutant of Full: one command too many.
FullOneLate == Len(channel) > Capacity

\* The bounded channel has no room.
Full == Len(channel) >= Capacity
-----------------------------------------------------------------------------
(***************************************************************************)
(* Requests (core/audit.rs, the request_context middleware and the calls   *)
(* they make).                                                             *)
(***************************************************************************)
\* A request's task ends, and its failure cell with it.
Ends(r) == [request EXCEPT ![r] = Context("over")]

\* audit_event in a request: try_send, or the failure cell is set.
Emit(r) ==
    LET e == emitted + 1
        lost == Closed \/ Full
    IN
    /\ Up /\ request[r].pc = "handler" /\ emitted < MaxEvents
    /\ emitted' = e
    /\ channel' = IF lost THEN channel ELSE Append(channel, Record(e, r, FALSE))
    /\ request' = [request EXCEPT ![r].events = @ \cup {e}, ![r].failed = @ \/ lost]
    /\ UNCHANGED << disk, writer, acked >>

\* audit_event off the request task: committed on its own, failure ignored.
EmitStandalone ==
    LET e == emitted + 1 IN
    /\ Up /\ emitted < MaxEvents
    /\ emitted' = e
    /\ channel' = IF Closed \/ Full THEN channel ELSE Append(channel, Record(e, None, TRUE))
    /\ UNCHANGED << disk, writer, request, acked >>

\* The handler has its response; with events emitted it must be confirmed.
HandlerDone(r) ==
    /\ Up /\ request[r].pc = "handler"
    /\ request' = IF request[r].events = {} THEN Ends(r)
                                            ELSE [request EXCEPT ![r].pc = "confirm"]
    /\ UNCHANGED << disk, channel, writer, emitted, acked >>

\* confirm: send a barrier, waiting for room in the channel.
Confirm(r) ==
    /\ Up /\ request[r].pc = "confirm"
    /\ IF Closed
          THEN /\ request' = [request EXCEPT ![r].pc = "answer", ![r].failed = TRUE]
               /\ UNCHANGED channel
          ELSE /\ ~Full
               /\ channel' = Append(channel, Barrier(r))
               /\ request' = [request EXCEPT ![r].pc = "await"]
    /\ UNCHANGED << disk, writer, emitted, acked >>

\* The writer stopped with the barrier still queued: the reply is dropped.
ReplyDropped(r) ==
    /\ Closed /\ request[r].pc = "await"
    /\ request' = [request EXCEPT ![r].pc = "answer", ![r].failed = TRUE]
    /\ UNCHANGED << disk, channel, writer, emitted, acked >>

\* The response leaves, replaced by an error if the failure cell is set.
Answer(r) ==
    /\ Up /\ request[r].pc = "answer"
    /\ request' = Ends(r)
    /\ acked' = IF request[r].failed THEN acked ELSE acked \cup request[r].events
    /\ UNCHANGED << disk, channel, writer, emitted >>

\* The client goes away; what was queued stays queued.
Cancel(r) ==
    /\ Up /\ request[r].pc \in {"handler", "confirm", "await"}
    /\ request' = Ends(r)
    /\ UNCHANGED << disk, channel, writer, emitted, acked >>

\* AuditRuntime::shutdown, once the server has stopped; a request or a detached
\* task that outlives the grace period may still be running.
SendShutdown ==
    /\ Up /\ ~Closed /\ ~Full
    /\ ~writer.shutdown
    /\ \A i \in DOMAIN channel : channel[i] # Shutdown
    /\ channel' = Append(channel, Shutdown)
    /\ UNCHANGED << disk, writer, request, emitted, acked >>
-----------------------------------------------------------------------------
(***************************************************************************)
(* The writer thread.                                                      *)
(***************************************************************************)
\* The failure cell of a record's request is set, if its task still runs.
Fails(r) ==
    IF r = None \/ request[r].pc = "over"
       THEN request ELSE [request EXCEPT ![r].failed = TRUE]

\* What the file may hold after a write that failed.
AfterFailedWrite ==
    {file} \cup IF Last(file) = TornLine THEN {} ELSE {Append(file, TornLine)}

\* A failed write: the chain state is left alone and the writer is poisoned.
WriteFailed(w, line) == [w EXCEPT !.poisoned = TRUE, !.residue = << line >>]

\* Mutant of Wrote: the head of the chain is not moved.
WroteKeepingHead(w, line) ==
    [w EXCEPT !.next = @ + 1, !.since = @ + 1, !.dirty = TRUE]

\* write_event after its write succeeded.
Wrote(w, line) ==
    [w EXCEPT !.head = HashRecord(line), !.next = @ + 1, !.since = @ + 1,
              !.dirty = TRUE]

\* One command of the batch; w is the writer with its locals.
ProcessRecord(w, cmd) ==
    LET line == RecordLine(w.chain, w.next, cmd.event, w.head) IN
    \/ /\ w.poisoned
       /\ request' = Fails(cmd.req)
       /\ writer' = w
       /\ UNCHANGED file
    \/ /\ ~w.poisoned
       /\ file' = Append(file, line)
       /\ writer' = [Wrote(w, line) EXCEPT !.commit = @ \/ cmd.standalone]
       /\ UNCHANGED request
    \/ /\ ~w.poisoned
       /\ file' \in AfterFailedWrite
       /\ writer' = WriteFailed(w, line)
       /\ request' = Fails(cmd.req)

Process(w, cmd) ==
    \/ cmd.type = "record" /\ ProcessRecord(w, cmd)
    \/ /\ cmd.type = "barrier"
       /\ writer' = [w EXCEPT !.barriers = @ \cup {cmd.req}, !.commit = TRUE]
       /\ UNCHANGED << file, request >>
    \/ /\ cmd.type = "shutdown"
       /\ writer' = [w EXCEPT !.shutdown = TRUE, !.commit = TRUE]
       /\ UNCHANGED << file, request >>

Take ==
    /\ channel # << >>
    /\ channel' = Tail(channel)
    /\ Process([writer EXCEPT !.pc = "batch", !.processed = @ + 1], Head(channel))
    /\ UNCHANGED << synced, emitted, acked >>

\* blocking_recv
Receive == writer.pc = "recv" /\ Take

\* try_recv until the channel is empty, or until the batch is full; a batch
\* that has met Shutdown drains the channel whatever its size.
BatchGoesOn == channel # << >> /\ (writer.shutdown \/ writer.processed < GroupMax)

Batch ==
    /\ writer.pc = "batch"
    /\ IF BatchGoesOn
          THEN Take
          ELSE /\ writer' = [writer EXCEPT !.pc = "checkpoint"]
               /\ UNCHANGED << disk, channel, request, emitted, acked >>

\* Mutant of CheckpointDue: a checkpoint on shutdown only after a full count.
CheckpointDueByCount == writer.since >= EventCount

CheckpointDue ==
    /\ writer.since > 0
    /\ \/ writer.since >= EventCount
       \/ writer.shutdown /\ writer.lastCheckpoint # writer.next - 1

\* append_checkpoint, if one is due.
Checkpoint ==
    LET line == CheckpointLine(writer.chain, writer.next - 1, writer.head)
        w == [writer EXCEPT !.pc = "sync"]
    IN
    /\ writer.pc = "checkpoint"
    /\ IF CheckpointDue /\ ~writer.poisoned
          THEN \/ /\ file' = Append(file, line)
                  /\ writer' = [w EXCEPT !.commit = TRUE, !.dirty = TRUE, !.since = 0,
                                         !.lastCheckpoint = writer.next - 1]
               \/ /\ file' \in AfterFailedWrite
                  /\ writer' = [WriteFailed(w, line) EXCEPT !.commit = TRUE]
          ELSE writer' = w /\ UNCHANGED file
    /\ UNCHANGED << synced, channel, request, emitted, acked >>

\* Mutant of SyncNeeded: only records written on their own are synced.
SyncNeededForBarriers == writer.commit /\ writer.barriers = {}

SyncNeeded == writer.commit /\ writer.dirty /\ ~writer.poisoned

\* fsync, which may fail.
Sync ==
    /\ writer.pc = "sync"
    /\ IF SyncNeeded
          THEN \/ /\ synced' = Len(file)
                  /\ writer' = [writer EXCEPT !.pc = "release", !.dirty = FALSE]
               \/ /\ writer' = [writer EXCEPT !.pc = "release", !.poisoned = TRUE]
                  /\ UNCHANGED synced
          ELSE writer' = [writer EXCEPT !.pc = "release"] /\ UNCHANGED synced
    /\ UNCHANGED << file, channel, request, emitted, acked >>

\* Dropping the buffered writer tries once more to write what it still holds.
AfterDrop ==
    LET torn == Len(file) > synced /\ Last(file) = TornLine
        rest == IF torn THEN Front(file) ELSE file
    IN IF writer.residue = << >> THEN {file} ELSE {file, rest \o writer.residue}

\* Mutant of Released: a poisoned writer leaves its barriers waiting.
ReleasedIfSynced(r) == writer.commit /\ r \in writer.barriers /\ ~writer.poisoned

Released(r) == writer.commit /\ r \in writer.barriers

\* The barriers of a commit are answered; after Shutdown the thread ends.
Release ==
    /\ writer.pc = "release"
    /\ request' =
          [r \in Requests |->
              IF Released(r) /\ request[r].pc = "await"
                 THEN [request[r] EXCEPT !.pc = "answer", !.failed = @ \/ writer.poisoned]
                 ELSE request[r]]
    /\ IF writer.shutdown
          THEN /\ writer' = [Started(writer.chain) EXCEPT !.pc = "stopped",
                                !.next = writer.next, !.poisoned = writer.poisoned]
               /\ channel' = << >>
               /\ file' \in AfterDrop
          ELSE /\ writer' = [writer EXCEPT !.pc = "recv", !.barriers = {},
                                           !.processed = 0, !.commit = FALSE]
               /\ UNCHANGED << file, channel >>
    /\ UNCHANGED << synced, emitted, acked >>
-----------------------------------------------------------------------------
\* The requests a process takes down with it.
Killed ==
    [r \in Requests |->
        IF request[r].events = {} THEN request[r] ELSE Context("over")]

\* The process dies; the file is as the operating system has it.
Crash ==
    /\ writer.pc # "down"
    /\ channel' = << >>
    /\ writer' = [Started(writer.chain) EXCEPT !.pc = "down"]
    /\ request' = Killed
    /\ UNCHANGED << disk, emitted, acked >>

\* What a power failure may leave: the lines that were not synced are there or
\* not, the first of the missing ones perhaps in part; of a glued line at least
\* what it was glued to.
Survivors ==
    UNION {LET kept == SubSeq(file, 1, n) IN
           CASE n = Len(file) -> {kept}
             [] n < Len(file) /\ file[n + 1] = GluedLine -> {Append(kept, TornLine)}
             [] OTHER -> {kept, Append(kept, TornLine)} :
           n \in synced .. Len(file)}

\* Power fails; the process has died with it or before.
PowerFailure ==
    /\ writer.pc = "down" /\ synced < Len(file)
    /\ file' \in Survivors
    /\ synced' = Len(file')
    /\ UNCHANGED << channel, writer, request, emitted, acked >>

\* The genesis line of a new chain, which continues a line that was cut short.
WithGenesis ==
    IF Last(file) = TornLine
       THEN Append(Front(file), GluedLine)
       ELSE Append(file, Genesis(writer.chain + 1))

\* AuditRuntime::start: a new chain in the same file.  If the genesis record cannot
\* be written the process ends; dropping the buffered writer may still write it.
\* A chain without a genesis line leaves no trace, and its number is free.
BeginStart ==
    /\ writer.pc \in {"down", "stopped"}
    /\ writer.chain < MaxStarts
    /\ \/ /\ file' = WithGenesis
          /\ synced' = Min({synced, Len(file') - 1})
          /\ \E pc \in {"genesis", "down"} :
                writer' = [Started(writer.chain + 1) EXCEPT !.pc = pc]
       \/ /\ file' \in AfterFailedWrite
          /\ writer' = [Started(writer.chain) EXCEPT !.pc = "down"]
          /\ UNCHANGED synced
    /\ channel' = << >>
    /\ request' = Killed
    /\ UNCHANGED << emitted, acked >>

\* The genesis record is synced and the writer thread started, or the process ends.
FinishStart ==
    /\ writer.pc = "genesis"
    /\ \/ synced' = Len(file) /\ writer' = [writer EXCEPT !.pc = "recv"]
       \/ writer' = [writer EXCEPT !.pc = "down"] /\ UNCHANGED synced
    /\ UNCHANGED << file, channel, request, emitted, acked >>

RequestStep(r) ==
    Emit(r) \/ HandlerDone(r) \/ Confirm(r) \/ ReplyDropped(r) \/ Answer(r) \/ Cancel(r)

WriterStep == Receive \/ Batch \/ Checkpoint \/ Sync \/ Release

Next ==
    \/ \E r \in Requests : RequestStep(r)
    \/ EmitStandalone \/ SendShutdown
    \/ WriterStep
    \/ Crash \/ PowerFailure \/ BeginStart \/ FinishStart

Spec == Init /\ [][Next]_vars

\* The writer thread and the requests that wait are scheduled, and a file operation
\* returns.  No handler has to end, and nothing to be cancelled, crash or shut down.
FairSpec ==
    /\ Spec
    /\ WF_vars(WriterStep)
    /\ \A r \in Requests : WF_vars(ReplyDropped(r) \/ Answer(r)) /\ SF_vars(Confirm(r))
-----------------------------------------------------------------------------
(***************************************************************************)
(* Properties.                                                             *)
(***************************************************************************)
\* Types, and the limits of the channel and of a batch: no more than Capacity
\* commands are queued and, before a shutdown, a batch takes at most GroupMax.
TypeOK ==
    /\ synced \in 1 .. Len(file)
    /\ Len(channel) <= Capacity
    /\ writer.pc \in {"recv", "batch", "checkpoint", "sync", "release", "stopped", "down",
                      "genesis"}
    /\ writer.processed <= GroupMax \/ writer.shutdown
    /\ writer.chain \in 1 .. MaxStarts /\ writer.next \in 1 .. MaxEvents + 1
    /\ writer.barriers \subseteq Requests
    /\ \A r \in Requests :
          /\ request[r].pc \in {"handler", "confirm", "await", "answer", "over"}
          /\ request[r].failed \in BOOLEAN
          /\ request[r].events \subseteq 1 .. emitted
    /\ emitted \in 0 .. MaxEvents /\ acked \subseteq 1 .. emitted

\* The writer implements the durable log: the events on disk only grow, and a
\* request is answered without an audit failure only once its events are on
\* disk, through write and sync failures, poisoning, cancellation, shutdown and
\* crashes.
EventsOf(lines) ==
    LET records == SelectSeq(lines, LAMBDA l : l.kind = "record" /\ l.event # 0)
    IN [i \in DOMAIN records |-> records[i].event]

Log == INSTANCE AuditLog WITH durable <- EventsOf(SubSeq(file, 1, synced)),
                              acked <- acked

ImplementsAuditLog == Log!Spec

\* As long as no line has been cut short, the file the service writes passes
\* its own verifier, also after failed writes, poisoning, restarts, starts that
\* fail or are cut off halfway, and the loss of unsynced lines.
FileVerifies == (\A i \in DOMAIN file : ~ Unreadable(file[i])) => VerifyFile(file)

\* While the service runs, an audit file that is synchronized to its last line
\* can be verified locally.  Where a write may be cut short this fails: start
\* appends the genesis record to the remains of the last line, and no later
\* line can repair that one.
SynchronizedFileVerifiable == Up /\ synced = Len(file) => VerifyFile(file)

\* After an orderly shutdown everything is on disk and the last record is
\* covered by a signed checkpoint.
OrderlyShutdownSigned ==
    Closed /\ ~writer.poisoned =>
        /\ synced = Len(file)
        /\ \/ Last(file).kind = "checkpoint" /\ Last(file).seq = writer.next - 1
           \/ writer.next = 1

\* Whatever happens to the writer, no request waits for its confirmation for ever:
\* again and again it is not waiting, which after a wait means that it was
\* answered, was cancelled, or went down with the process (confirm).
EveryRequestAnswered ==
    \A r \in Requests : []<>(request[r].pc \notin {"confirm", "await", "answer"})
=============================================================================
