---------------------------- MODULE Permissions ----------------------------
(***************************************************************************)
(* The permissions section of the signed configuration: when it is valid,  *)
(* the table it is compiled to, and the decision for one request.          *)
(*                                                                         *)
(* A client of the file is a record with fields client, apikey_hash,       *)
(* status and permissions; a permission has fields kid and actions.  Lists *)
(* are sequences, because the code distinguishes duplicates.               *)
(***************************************************************************)
EXTENDS Naturals, Sequences, Functions, FiniteSetsExt

CONSTANT Root   \* hash of the root API key, from the environment

PERMISSION_ACTIONS ==
    {"admin", "keys", "lifecycle", "self-test", "sign", "message", "symmetric",
     "fpe-encrypt", "fpe-decrypt", "token-encode", "token-decode",
     "token-delete", "token-deterministic-encode",
     "token-deterministic-decode", "subject-create", "subject-delete",
     "mac-create", "mac-verify", "index-create", "index-verify", "mask",
     "commit-create", "commit-verify", "share-split", "share-combine",
     "time-attest", "metrics"}

GLOBAL_PERMISSION_ACTIONS == {"metrics", "time-attest"}

Statuses == {"active", "disabled", "revoked"}

Column(s, f) == [i \in DOMAIN s |-> s[i][f]]
-----------------------------------------------------------------------------
(***************************************************************************)
(* Validation.                                                             *)
(***************************************************************************)
validate_action_list(actions) ==
    /\ actions # << >>
    /\ Range(actions) \subseteq PERMISSION_ACTIONS
    /\ IsInjective(actions)

HasAdmin(client) ==
    \E i \in DOMAIN client.permissions :
        "admin" \in Range(client.permissions[i].actions)

\* One permission of a client that is not an administrator: the wildcard only
\* carries global actions, and any other kid is in memory.
ValidPermission(permission, loaded) ==
    /\ validate_action_list(permission.actions)
    /\ IF permission.kid = "*"
          THEN Range(permission.actions) \subseteq GLOBAL_PERMISSION_ACTIONS
          ELSE permission.kid \in loaded

\* What is checked of an active client.
ValidActiveClient(client, loaded) ==
    LET permissions == client.permissions IN
    IF HasAdmin(client)
       THEN \A i \in DOMAIN permissions : validate_action_list(permissions[i].actions)
       ELSE /\ IsInjective(Column(permissions, "kid"))
            /\ \A i \in DOMAIN permissions : ValidPermission(permissions[i], loaded)

ValidClients(clients, loaded) ==
    /\ IsInjective(Column(clients, "client"))
    /\ IsInjective(Column(clients, "apikey_hash"))
    /\ \A i \in DOMAIN clients :
        /\ clients[i].status \in Statuses
        /\ clients[i].status = "active" => ValidActiveClient(clients[i], loaded)
-----------------------------------------------------------------------------
(***************************************************************************)
(* The table.                                                              *)
(***************************************************************************)
\* An administrator's own permissions are dropped.
TableEntry(client) ==
    [apikey_hash |-> client.apikey_hash,
     admin |-> HasAdmin(client),
     permissions |-> IF HasAdmin(client) THEN << >> ELSE client.permissions]

\* Mutant of PermissionsState: clients that are not active stay in the table.
PermissionsStateAll(clients) == [i \in DOMAIN clients |-> TableEntry(clients[i])]

PermissionsState(clients) ==
    LET active == SelectSeq(clients, LAMBDA c : c.status = "active")
    IN  [i \in DOMAIN active |-> TableEntry(active[i])]
-----------------------------------------------------------------------------
(***************************************************************************)
(* Decisions.                                                              *)
(***************************************************************************)
Unknown == [apikey_hash |-> "none", admin |-> FALSE, permissions |-> << >>]

\* The last entry with the hash.
Entry(table, hash) ==
    LET matching == {i \in DOMAIN table : table[i].apikey_hash = hash}
    IN  IF matching = {} THEN Unknown ELSE table[Max(matching)]

\* authorize_api_key: the root key, or a client of the table.
Authenticated(table, hash) == hash = Root \/ Entry(table, hash) # Unknown

GrantedBy(permissions, kid, action) ==
    LET scope == IF action \in GLOBAL_PERMISSION_ACTIONS THEN "*" ELSE kid
    IN  \E i \in DOMAIN permissions :
            /\ permissions[i].kid = scope
            /\ action \in Range(permissions[i].actions)

NoKid == "no kid"   \* an endpoint that is not about one key

require_permission(table, hash, kid, action) ==
    \/ hash = Root
    \/ Entry(table, hash).admin
    \/ /\ kid # NoKid \/ action \in GLOBAL_PERMISSION_ACTIONS
       /\ GrantedBy(Entry(table, hash).permissions, kid, action)

Allowed(table, hash, kid, action) ==
    Authenticated(table, hash) /\ require_permission(table, hash, kid, action)
-----------------------------------------------------------------------------
\* What the file says, read without regard to the table: the holder of a key
\* may act if an active client with its hash is an administrator, has the
\* action for this kid, or has this global action for every kid.
MayAct(clients, hash, kid, action) ==
    \E c \in Range(clients) :
        /\ c.apikey_hash = hash
        /\ c.status = "active"
        /\ \E p \in Range(c.permissions) :
            \/ "admin" \in Range(p.actions)
            \/ /\ action \in Range(p.actions)
               /\ IF action \in GLOBAL_PERMISSION_ACTIONS
                     THEN p.kid = "*"
                     ELSE p.kid = kid
=============================================================================
