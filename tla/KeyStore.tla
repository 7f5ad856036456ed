------------------------------ MODULE KeyStore ------------------------------
(***************************************************************************)
(* Operational keys: the rows in shared storage and the copy each node     *)
(* keeps in memory, under key creation, lifecycle updates, reloads, lazy   *)
(* loads and restarts.                                                     *)
(*                                                                         *)
(* A handler is split at its awaits, as in TokenVault.  Of a row the model *)
(* keeps the lifecycle status and the identity of the encrypted properties *)
(* blob: it is encrypted under a fresh nonce, so no two writes produce the *)
(* same blob, and the number of a blob tells which of two is newer.        *)
(***************************************************************************)
EXTENDS KeyLifecycle, Naturals, FiniteSets

CONSTANTS
    Nodes,      \* service instances sharing the storage
    Workers,    \* handler invocations in flight, on any node
    Kids,       \* identifiers of the keys that may be created
    Targets,    \* statuses administrators ask for
    MaxBlobs    \* bound: properties blobs ever written

ASSUME KeyStoreAssumption ==
    /\ Targets \subseteq LIFECYCLE_STATUSES
    /\ MaxBlobs \in Nat

VARIABLES
    rows,       \* table opskeys
    memory,     \* KeysDbState of each node
    worker,     \* what each handler holds, and where it is
    blobs,      \* properties blobs encrypted so far
    confirmed,  \* history: per node, the keys a response said are terminal
    disturbed   \* history: nodes where administrative requests have overlapped
                \* or a row was skipped since the last complete start

vars == << rows, memory, worker, blobs, confirmed, disturbed >>
history == << confirmed, disturbed >>

NoRow == [status |-> "absent", blob |-> 0]
Rows == [status : LIFECYCLE_STATUSES, blob : 1 .. MaxBlobs]
Copies == Rows \cup {NoRow}

AdminOps == {"create", "lifecycle", "reload"}
PCs == {"idle", "save", "load", "upsert", "read", "swap", "list", "replace",
        "fetch", "insert"}

\* What a handler holds: the row it read, the blob it is to write, and for a
\* reload the rows it listed.
None == "none"
Idle == [pc |-> "idle", op |-> None, node |-> None, kid |-> None,
         next |-> NoRow, row |-> NoRow,
         listed |-> [k \in Kids |-> NoRow]]

Contexts ==
    [pc : PCs, op : AdminOps \cup {"use", None}, node : Nodes \cup {None},
     kid : Kids \cup {None}, next : Copies, row : Copies,
     listed : [Kids -> Copies]]

Init ==
    /\ rows = [k \in Kids |-> NoRow]
    /\ memory = [n \in Nodes |-> [k \in Kids |-> NoRow]]
    /\ worker = [w \in Workers |-> Idle]
    /\ blobs = 0
    /\ confirmed = [n \in Nodes |-> {}]
    /\ disturbed = {}

Goto(w, pc) == worker' = [worker EXCEPT ![w].pc = pc]
Return(w) == worker' = [worker EXCEPT ![w] = Idle]
-----------------------------------------------------------------------------
(***************************************************************************)
(* Requests.                                                               *)
(***************************************************************************)
\* Whether another administrative request is running on the node.
AdminBusy(n) == \E w \in Workers : worker[w].op \in AdminOps /\ worker[w].node = n

Begin(w, c) ==
    /\ worker[w].pc = "idle"
    /\ worker' = [worker EXCEPT ![w] = c]
    /\ disturbed' = IF c.op \in AdminOps /\ AdminBusy(c.node)
                       THEN disturbed \cup {c.node}
                       ELSE disturbed
    /\ UNCHANGED << rows, memory, confirmed >>

\* Mutant of CreatedStatus: a status the lifecycle does not have.
CreatedStatusPending == "pending"

\* create_ops_key_properties.
CreatedStatus == "active"

\* POST /keys: create_ops_key_record draws the key material, hence the kid,
\* and encrypts its properties in the crypto pool.
BeginCreate(w) ==
    \E n \in Nodes, k \in Kids :
        /\ rows[k] = NoRow
        /\ \A v \in Workers : worker[v].op = "create" => worker[v].kid # k
        /\ blobs < MaxBlobs
        /\ blobs' = blobs + 1
        /\ Begin(w, [Idle EXCEPT !.pc = "save", !.op = "create", !.node = n,
                        !.kid = k,
                        !.next = [status |-> CreatedStatus, blob |-> blobs + 1]])

\* POST /lifecycle/{kid}; next is filled in by ReadCurrent.
BeginLifecycle(w) ==
    \E n \in Nodes, k \in Kids :
        /\ Begin(w, [Idle EXCEPT !.pc = "read", !.op = "lifecycle", !.node = n,
                        !.kid = k])
        /\ UNCHANGED blobs

\* POST /keys/reload.
BeginReload(w) ==
    \E n \in Nodes :
        /\ Begin(w, [Idle EXCEPT !.pc = "list", !.op = "reload", !.node = n])
        /\ UNCHANGED blobs

\* Any operation that names a key: ensure_keys_db_entry has something to do only
\* if the key is not in memory, which it checks again once its load is running.
BeginUse(w) ==
    \E n \in Nodes, k \in Kids :
        /\ memory[n][k] = NoRow
        /\ Begin(w, [Idle EXCEPT !.pc = "fetch", !.op = "use", !.node = n, !.kid = k])
        /\ UNCHANGED blobs
-----------------------------------------------------------------------------
(***************************************************************************)
(* create_endpoint.                                                        *)
(***************************************************************************)
SaveOpsKeys(w) ==
    /\ worker[w].pc = "save"
    /\ rows' = [rows EXCEPT ![worker[w].kid] = worker[w].next]
    /\ Goto(w, "load")
    /\ UNCHANGED << memory, blobs, history >>

\* load_keys_db_entry after a creation or a lifecycle update.
LoadEntry(w) ==
    LET c == worker[w] IN
    /\ c.pc = "load"
    /\ IF rows[c.kid] = NoRow
          THEN Return(w)
          ELSE worker' = [worker EXCEPT ![w].pc = "upsert", ![w].row = rows[c.kid]]
    /\ UNCHANGED << rows, memory, blobs, history >>

\* upsert_keys_db_entry, under the write lock, and the response.
UpsertEntry(w) ==
    LET c == worker[w] IN
    /\ c.pc = "upsert"
    /\ memory' = [memory EXCEPT ![c.node][c.kid] = c.row]
    /\ confirmed' = IF c.next.status \in Terminal
                       THEN [confirmed EXCEPT ![c.node] = @ \cup {c.kid}]
                       ELSE confirmed
    /\ Return(w)
    /\ UNCHANGED << rows, blobs, disturbed >>
-----------------------------------------------------------------------------
(***************************************************************************)
(* update_lifecycle_endpoint.                                              *)
(***************************************************************************)
\* update_key_lifecycle up to its write: the row is read, the transition is
\* checked against it and the new properties are encrypted.
ReadCurrent(w) ==
    LET c == worker[w]
        row == rows[c.kid]
    IN
    /\ c.pc = "read"
    /\ \/ /\ blobs < MaxBlobs
          /\ \E s \in Targets :
                /\ ValidTransition(row.status, s)
                /\ worker' = [worker EXCEPT
                                 ![w].pc = "swap", ![w].row = row,
                                 ![w].next = [status |-> s, blob |-> blobs + 1]]
          /\ blobs' = blobs + 1
       \/ /\ \E s \in Targets : ~ValidTransition(row.status, s)
          /\ Return(w)
          /\ UNCHANGED blobs
    /\ UNCHANGED << rows, memory, history >>

\* Mutant of IsCurrent: the update is written whatever the row holds now.
IsCurrentUnchecked(c) == rows[c.kid] # NoRow

\* WHERE properties = the blob that was read.
IsCurrent(c) == rows[c.kid].blob = c.row.blob

\* update_ops_key_properties_if_current.
SwapProperties(w) ==
    LET c == worker[w] IN
    /\ c.pc = "swap"
    /\ IF IsCurrent(c)
          THEN rows' = [rows EXCEPT ![c.kid] = c.next] /\ Goto(w, "load")
          ELSE Return(w) /\ UNCHANGED rows
    /\ UNCHANGED << memory, blobs, history >>
-----------------------------------------------------------------------------
(***************************************************************************)
(* refresh_endpoint: list every row, load each in the blocking pool, then  *)
(* replace the whole state.                                                *)
(***************************************************************************)
ListOpsKeys(w) ==
    /\ worker[w].pc = "list"
    /\ worker' = [worker EXCEPT ![w].pc = "replace", ![w].listed = rows]
    /\ UNCHANGED << rows, memory, blobs, history >>

\* load_keys_from_rows: a row that does not decrypt or validate, or whose task
\* panics, is skipped.
LoadedFrom(listed) ==
    {[k \in Kids |-> IF k \in skipped THEN NoRow ELSE listed[k]] :
        skipped \in SUBSET Kids}

ReplaceState(w) ==
    LET c == worker[w] IN
    /\ c.pc = "replace"
    /\ \E loaded \in LoadedFrom(c.listed) :
          /\ memory' = [memory EXCEPT ![c.node] = loaded]
          /\ disturbed' = IF loaded = c.listed THEN disturbed
                                              ELSE disturbed \cup {c.node}
    /\ Return(w)
    /\ UNCHANGED << rows, blobs, confirmed >>
-----------------------------------------------------------------------------
(***************************************************************************)
(* ensure_keys_db_entry.  The single-flight around the load (module        *)
(* KeySingleflight) only thins these loads out.  The operation that asked  *)
(* for the key then looks it up in memory, whatever it finds there.        *)
(***************************************************************************)
\* load_keys_db_entry of a key that is not in memory.
FetchEntry(w) ==
    LET c == worker[w] IN
    /\ c.pc = "fetch"
    /\ IF rows[c.kid] = NoRow
          THEN Return(w)
          ELSE worker' = [worker EXCEPT ![w].pc = "insert", ![w].row = rows[c.kid]]
    /\ UNCHANGED << rows, memory, blobs, history >>

\* Mutant of IfAbsent: the loaded key replaces whatever is in memory.
IfAbsentIgnored(c) == c.row

\* KeysDbState::insert_if_absent.
IfAbsent(c) == IF memory[c.node][c.kid] = NoRow THEN c.row
                                                ELSE memory[c.node][c.kid]

InsertIfAbsent(w) ==
    LET c == worker[w] IN
    /\ c.pc = "insert"
    /\ memory' = [memory EXCEPT ![c.node][c.kid] = IfAbsent(c)]
    /\ Return(w)
    /\ UNCHANGED << rows, blobs, history >>
-----------------------------------------------------------------------------
\* A handler ends early: an error, or its client goes away at an await.
Fail(w) ==
    /\ worker[w].pc # "idle"
    /\ Return(w)
    /\ UNCHANGED << rows, memory, blobs, history >>

\* A node stops and starts again; it loads the stored keys before it serves.
Restart(n) ==
    /\ \E loaded \in LoadedFrom(rows) :
          /\ memory' = [memory EXCEPT ![n] = loaded]
          /\ disturbed' = IF loaded = rows THEN disturbed \ {n}
                                          ELSE disturbed \cup {n}
    /\ worker' = [w \in Workers |-> IF worker[w].node = n THEN Idle ELSE worker[w]]
    /\ UNCHANGED << rows, blobs, confirmed >>

Step(w) ==
    \/ SaveOpsKeys(w) \/ LoadEntry(w) \/ UpsertEntry(w)
    \/ ReadCurrent(w) \/ SwapProperties(w)
    \/ ListOpsKeys(w) \/ ReplaceState(w)
    \/ FetchEntry(w) \/ InsertIfAbsent(w)
    \/ Fail(w)

Start(w) == BeginCreate(w) \/ BeginLifecycle(w) \/ BeginReload(w) \/ BeginUse(w)

Next ==
    \/ \E w \in Workers : Start(w) \/ Step(w)
    \/ \E n \in Nodes : Restart(n)

Spec == Init /\ [][Next]_vars
-----------------------------------------------------------------------------
(***************************************************************************)
(* Properties.                                                             *)
(***************************************************************************)
\* Every variable has its type.
TypeOK ==
    /\ rows \in [Kids -> Copies]
    /\ memory \in [Nodes -> [Kids -> Copies]]
    /\ worker \in [Workers -> Contexts]
    /\ blobs \in 0 .. MaxBlobs
    /\ confirmed \in [Nodes -> SUBSET Kids]
    /\ disturbed \subseteq Nodes

\* Stored keys change status only along the allowed transitions, so a retired,
\* compromised or destroyed key stays that way, however many lifecycle updates
\* race on however many nodes (compare-and-swap on the properties blob).
OnlyValidTransitions ==
    [][\A k \in Kids :
          rows[k] # NoRow /\ rows'[k] # rows[k] =>
             ValidTransition(rows[k].status, rows'[k].status)]_vars

\* Once a node has answered that it made a key retired, compromised or
\* destroyed, no copy of the key that its requests find in memory allows new
\* use.
ConfirmedTerminalEnforced ==
    \A n \in Nodes : \A k \in confirmed[n] : ~AllowsNewUse(memory[n][k].status)

\* The same where the code keeps it: administrative requests to the node have
\* run one after the other and all its rows have loaded, whatever lazy loads,
\* other nodes and restarts do.
SerialTerminalEnforced ==
    \A n \in Nodes \ disturbed, k \in Kids :
        k \in confirmed[n] => ~AllowsNewUse(memory[n][k].status)
=============================================================================
