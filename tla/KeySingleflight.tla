-------------------------- MODULE KeySingleflight --------------------------
(***************************************************************************)
(* KeyLoadSingleflight: requests that miss the same key in memory share    *)
(* one load of it.  A flight is a once-cell that every participant holds   *)
(* strongly and the map holds weakly.  The first participant to enter the  *)
(* cell runs the loader; the others wait for its result, and take over if  *)
(* it is cancelled.                                                        *)
(***************************************************************************)
EXTENDS Naturals, FiniteSets

CONSTANTS
    Callers,   \* requests inside ensure_keys_db_entry
    Kids       \* keys they miss

VARIABLES
    flights,   \* the map: the flight of each key, or None
    holders,   \* per flight, the participants holding a strong reference
    cell,      \* per flight, the once-cell: empty, running, or a result
    memory,    \* keys present in the node's KeysDbState
    caller     \* what each request holds, and where it is

vars == << flights, holders, cell, memory, caller >>

\* A flight is freed with its last strong reference and its slot used again,
\* so as many slots as callers are enough.
Flights == 1 .. Cardinality(Callers)
None == 0
NoKid == "nokid"

PCs == {"idle", "acquire", "enter", "recheck", "load", "insert", "drop"}
Results == {"ok", "err"}

TypeOK ==
    /\ flights \in [Kids -> Flights \cup {None}]
    /\ holders \in [Flights -> SUBSET Callers]
    /\ cell \in [Flights -> {"empty", "running"} \cup Results]
    /\ memory \subseteq Kids
    /\ caller \in [Callers -> [pc : PCs, kid : Kids \cup {NoKid},
                               flight : Flights \cup {None}]]

NotCalling == [pc |-> "idle", kid |-> NoKid, flight |-> None]

Init ==
    /\ flights = [k \in Kids |-> None]
    /\ holders = [f \in Flights |-> {}]
    /\ cell = [f \in Flights |-> "empty"]
    /\ memory = {}
    /\ caller = [c \in Callers |-> NotCalling]

Goto(c, l) == caller' = [caller EXCEPT ![c].pc = l]
-----------------------------------------------------------------------------
\* ensure_keys_db_entry finds the key missing.  (A key that is present ends
\* the call at once.)
Miss(c) ==
    \E k \in Kids \ memory :
        /\ caller[c].pc = "idle"
        /\ caller' = [caller EXCEPT ![c] = [pc |-> "acquire", kid |-> k, flight |-> None]]
        /\ UNCHANGED << flights, holders, cell, memory >>

\* Mutant of Joins: every caller starts a flight of its own.
JoinsNever(k) == FALSE

\* flights.get(kid) and Weak::upgrade.
Joins(k) == flights[k] # None /\ holders[flights[k]] # {}

\* flights.retain: entries whose flight nobody holds are swept out.
Retained ==
    [k \in Kids |-> IF flights[k] # None /\ holders[flights[k]] = {} THEN None
                                                                   ELSE flights[k]]

\* acquire, under the lock of the map: sweep it, then join the key's flight or
\* start one.
Acquire(c) ==
    LET k == caller[c].kid
        free == CHOOSE f \in Flights : holders[f] = {}
        f == IF Joins(k) THEN flights[k] ELSE free
    IN
    /\ caller[c].pc = "acquire"
    /\ flights' = [Retained EXCEPT ![k] = f]
    /\ holders' = [holders EXCEPT ![f] = @ \cup {c}]
    /\ cell' = IF Joins(k) THEN cell ELSE [cell EXCEPT ![f] = "empty"]
    /\ caller' = [caller EXCEPT ![c].pc = "enter", ![c].flight = f]
    /\ UNCHANGED memory

\* OnceCell::get_or_init: take the result, or become the one that computes it.
\* While another participant computes it the caller waits.
Enter(c) ==
    LET f == caller[c].flight IN
    /\ caller[c].pc = "enter"
    /\ \/ /\ cell[f] \in Results
          /\ Goto(c, "drop")
          /\ UNCHANGED cell
       \/ /\ cell[f] = "empty"
          /\ cell' = [cell EXCEPT ![f] = "running"]
          /\ Goto(c, "recheck")
    /\ UNCHANGED << flights, holders, memory >>

Resolve(c, result) ==
    /\ cell' = [cell EXCEPT ![caller[c].flight] = result]
    /\ Goto(c, "drop")

\* The loader looks again, in case the key arrived meanwhile.
Recheck(c) ==
    /\ caller[c].pc = "recheck"
    /\ IF caller[c].kid \in memory
          THEN Resolve(c, "ok")
          ELSE Goto(c, "load") /\ UNCHANGED cell
    /\ UNCHANGED << flights, holders, memory >>

\* load_keys_db_entry: the row is read and opened, or there is an error.
Load(c) ==
    /\ caller[c].pc = "load"
    /\ \/ Goto(c, "insert") /\ UNCHANGED cell
       \/ Resolve(c, "err")
    /\ UNCHANGED << flights, holders, memory >>

\* insert_if_absent, under the write lock of the keys.
Insert(c) ==
    /\ caller[c].pc = "insert"
    /\ memory' = memory \cup {caller[c].kid}
    /\ Resolve(c, "ok")
    /\ UNCHANGED << flights, holders >>

\* Mutant of Removes: nobody removes the entry.
RemovesNever(c) == FALSE

\* The map still has this very flight, and nobody else holds it.
Removes(c) ==
    /\ flights[caller[c].kid] = caller[c].flight
    /\ holders[caller[c].flight] = {c}

\* Drop of the lease: the strong reference is released under the lock of the
\* map, and the last participant removes the entry.
DropLease(c) ==
    /\ caller[c].pc = "drop"
    /\ holders' = [holders EXCEPT ![caller[c].flight] = @ \ {c}]
    /\ flights' = IF Removes(c) THEN [flights EXCEPT ![caller[c].kid] = None]
                                ELSE flights
    /\ caller' = [caller EXCEPT ![c] = NotCalling]
    /\ UNCHANGED << cell, memory >>

\* Mutant of Abandon: the cell stays marked as being computed.
AbandonKeepsRunning(c) == cell

\* Mutant of Abandon: the cancellation is kept as the result.
AbandonAsResult(c) == [cell EXCEPT ![caller[c].flight] = "cancelled"]

\* Dropping the future that computes the cell's value empties the cell.
Abandon(c) ==
    IF caller[c].pc \in {"recheck", "load", "insert"}
       THEN [cell EXCEPT ![caller[c].flight] = "empty"]
       ELSE cell

\* The request is cancelled at one of its awaits.
Cancel(c) ==
    /\ caller[c].pc \in {"enter", "recheck", "load", "insert"}
    /\ cell' = Abandon(c)
    /\ Goto(c, "drop")
    /\ UNCHANGED << flights, holders, memory >>

\* A reload drops a key that it could not load.
Evict ==
    /\ \E k \in memory : memory' = memory \ {k}
    /\ UNCHANGED << flights, holders, cell, caller >>

Step(c) ==
    \/ Acquire(c) \/ Enter(c) \/ Recheck(c) \/ Load(c) \/ Insert(c) \/ DropLease(c)

Next == Evict \/ \E c \in Callers : Miss(c) \/ Step(c) \/ Cancel(c)

Spec == Init /\ [][Next]_vars

\* Requests make progress and storage answers; nobody has to be cancelled.  The
\* once-cell admits its waiters in turn (tokio's semaphore is first come, first
\* served), so a waiter is not passed over for ever by participants that come
\* and are cancelled: strong fairness of Enter.
FairSpec == Spec /\ \A c \in Callers : WF_vars(Step(c)) /\ SF_vars(Enter(c))
-----------------------------------------------------------------------------
(***************************************************************************)
(* Properties.                                                             *)
(***************************************************************************)
Loading(k) ==
    {c \in Callers : caller[c].kid = k /\ caller[c].pc \in {"recheck", "load", "insert"}}

\* At any time at most one request loads a given key, also when flights end,
\* are cancelled and start again.
OneLoadPerKey == \A k \in Kids : Cardinality(Loading(k)) <= 1

\* A flight is in the map exactly while somebody holds it, under the key of
\* all its holders: no entry leaks and no participant is cut off from it.
MapMatchesHolders ==
    \A f \in Flights : \A k \in Kids :
        flights[k] = f <=> \E c \in holders[f] : caller[c].kid = k

\* Every request that misses a key gets an answer, whoever is cancelled.
EveryMissAnswered == \A c \in Callers : caller[c].pc # "idle" ~> caller[c].pc = "idle"
=============================================================================
