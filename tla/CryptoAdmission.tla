-------------------------- MODULE CryptoAdmission --------------------------
(***************************************************************************)
(* CryptoLimiter: admission of blocking crypto jobs.  At most Max closures *)
(* run at once; at most Queued callers wait for a turn, each until its     *)
(* deadline; any other caller is turned away.  A closure owns its permit   *)
(* and cannot be interrupted, so it keeps the permit when its caller goes  *)
(* away.                                                                   *)
(*                                                                         *)
(* acquire() does not await between its two attempts and its wait, but     *)
(* other threads run between them, so each is an action.                   *)
(***************************************************************************)
EXTENDS Naturals, FiniteSets, Sequences

CONSTANTS
    Jobs,     \* calls of spawn_blocking_crypto
    Max,      \* VECTIS_MAX_CONCURRENT_CRYPTO
    Queued    \* VECTIS_MAX_QUEUED_CRYPTO

ASSUME AdmissionAssumption ==
    /\ IsFiniteSet(Jobs)
    /\ Max \in Nat \ {0}
    /\ Queued \in Nat

VARIABLES
    available,  \* free permits of the execution semaphore
    positions,  \* free permits of the waiting semaphore
    queue,      \* the execution semaphore's own queue, first come first served
    pc          \* where each job is

vars == << available, positions, queue, pc >>

\* running: the closure runs and its caller awaits it; detached: it runs and
\* its caller is gone; granted: a released permit was handed to the waiter,
\* which has not been polled yet.
PCs == {"idle", "position", "enqueue", "waiting", "granted", "running", "detached"}

In(S) == {j \in Jobs : pc[j] \in S}

Init ==
    /\ available = Max
    /\ positions = Queued
    /\ queue = << >>
    /\ pc = [j \in Jobs |-> "idle"]

Goto(j, l) == pc' = [pc EXCEPT ![j] = l]
-----------------------------------------------------------------------------
\* tokio's fair semaphore: a released permit goes to the longest waiter.
\* moved is the program counter of the job that releases it.
HandOver(j, moved) ==
    IF queue = << >>
       THEN /\ available' = available + 1
            /\ pc' = [pc EXCEPT ![j] = moved]
            /\ UNCHANGED queue
       ELSE /\ queue' = Tail(queue)
            /\ pc' = [pc EXCEPT ![j] = moved, ![Head(queue)] = "granted"]
            /\ UNCHANGED available

\* The queue when job j leaves it.
Without(q, j) ==
    LET p == CHOOSE i \in DOMAIN q : q[i] = j
    IN [i \in 1 .. Len(q) - 1 |-> IF i < p THEN q[i] ELSE q[i + 1]]

\* execution.try_acquire_owned(); with a permit the closure is dispatched.
TryExecution(j) ==
    /\ pc[j] = "idle"
    /\ IF available > 0
          THEN available' = available - 1 /\ Goto(j, "running")
          ELSE Goto(j, "position") /\ UNCHANGED available
    /\ UNCHANGED << positions, queue >>

\* Mutant of TryPosition: the guard is dropped at once (let _ = ...).
TryPositionDropped(j) ==
    /\ pc[j] = "position"
    /\ Goto(j, IF positions > 0 THEN "enqueue" ELSE "idle")
    /\ UNCHANGED << available, positions, queue >>

\* waiting.try_acquire_owned(); without a position the queue is full.
TryPosition(j) ==
    /\ pc[j] = "position"
    /\ IF positions > 0
          THEN positions' = positions - 1 /\ Goto(j, "enqueue")
          ELSE Goto(j, "idle") /\ UNCHANGED positions
    /\ UNCHANGED << available, queue >>

\* The first poll of execution.acquire_owned().
Enqueue(j) ==
    /\ pc[j] = "enqueue"
    /\ IF available > 0
          THEN /\ available' = available - 1
               /\ positions' = positions + 1
               /\ Goto(j, "running")
               /\ UNCHANGED queue
          ELSE /\ queue' = Append(queue, j)
               /\ Goto(j, "waiting")
               /\ UNCHANGED << available, positions >>

\* The waiter is polled with its permit: the position is given back and the
\* closure dispatched.
Admit(j) ==
    /\ pc[j] = "granted"
    /\ positions' = positions + 1
    /\ Goto(j, "running")
    /\ UNCHANGED << available, queue >>

\* The deadline passes while the job waits.  timeout_at polls the semaphore
\* first, so a waiter that was handed a permit is admitted instead.
Timeout(j) ==
    /\ pc[j] = "waiting"
    /\ queue' = Without(queue, j)
    /\ positions' = positions + 1
    /\ Goto(j, "idle")
    /\ UNCHANGED available

\* The caller's future is dropped while it waits; a permit it was handed but
\* never saw goes to the next waiter.
CancelWaiting(j) ==
    /\ positions' = positions + 1
    /\ \/ /\ pc[j] = "waiting"
          /\ queue' = Without(queue, j)
          /\ Goto(j, "idle")
          /\ UNCHANGED available
       \/ /\ pc[j] = "granted"
          /\ HandOver(j, "idle")

\* Mutant of CancelRunning: the permit belongs to the caller, not the closure.
CancelRunningReleases(j) ==
    /\ pc[j] = "running"
    /\ HandOver(j, "detached")
    /\ UNCHANGED positions

\* The caller's future is dropped while its closure runs.
CancelRunning(j) ==
    /\ pc[j] = "running"
    /\ Goto(j, "detached")
    /\ UNCHANGED << available, positions, queue >>

\* Mutant of Finish: a closure nobody awaits keeps its permit.
FinishAwaited(j) ==
    /\ \/ pc[j] = "running" /\ HandOver(j, "idle")
       \/ pc[j] = "detached" /\ Goto(j, "idle") /\ UNCHANGED << available, queue >>
    /\ UNCHANGED positions

\* The closure returns or panics, and drops its permit.
Finish(j) ==
    /\ pc[j] \in {"running", "detached"}
    /\ HandOver(j, "idle")
    /\ UNCHANGED positions

Next ==
    \E j \in Jobs :
        \/ TryExecution(j) \/ TryPosition(j) \/ Enqueue(j) \/ Admit(j)
        \/ Timeout(j) \/ CancelWaiting(j) \/ CancelRunning(j) \/ Finish(j)

Spec == Init /\ [][Next]_vars

\* Threads make progress, closures terminate.  Deadlines are not assumed to
\* pass, nor callers to go away.
Fairness ==
    \A j \in Jobs : /\ WF_vars(TryPosition(j)) /\ WF_vars(Enqueue(j))
                    /\ WF_vars(Admit(j)) /\ WF_vars(Finish(j))

FairSpec == Spec /\ Fairness
-----------------------------------------------------------------------------
(***************************************************************************)
(* Properties.                                                             *)
(***************************************************************************)
\* Every variable has its type.
TypeOK ==
    /\ available \in 0 .. Max
    /\ positions \in 0 .. Queued
    /\ queue \in Seq(Jobs)
    /\ pc \in [Jobs -> PCs]

\* Never more closures run than VECTIS_MAX_CONCURRENT_CRYPTO, those whose
\* callers have gone away included.
ExecutionBounded == Cardinality(In({"running", "detached"})) <= Max

\* Never more callers wait than VECTIS_MAX_QUEUED_CRYPTO.
QueueBounded == Cardinality(In({"enqueue", "waiting", "granted"})) <= Queued

\* Permits are neither lost nor duplicated by timeouts and cancellations.
PermitsConserved ==
    /\ available + Cardinality(In({"granted", "running", "detached"})) = Max
    /\ positions + Cardinality(In({"enqueue", "waiting", "granted"})) = Queued

\* A job that was accepted or is waiting is answered in the end, even if no
\* deadline ever passes: nobody waits for a permit that will not come.
EveryJobAnswered == \A j \in Jobs : pc[j] # "idle" ~> pc[j] = "idle"
=============================================================================
