---------------------------- MODULE ConfigReload ----------------------------
(***************************************************************************)
(* The signed configuration of one node: the two files an operator edits   *)
(* and signs, their load at start and on POST /config/reload, and the      *)
(* requests that are decided and served under the configuration in force.  *)
(*                                                                         *)
(* A file content stands for all texts with the same canonical JSON.  What *)
(* it says is a record: parses says that it is configuration JSON of a     *)
(* supported version, sound that its sections obey the rules that do not   *)
(* depend on the keys in memory; permissions and profiles are two of those *)
(* sections.                                                               *)
(* A signature that verifies stands for the content whose hash it covers.  *)
(* Handlers are split at their awaits.  Two loads read the files at the    *)
(* same time as the operator writes them.                                  *)
(***************************************************************************)
EXTENDS Permissions, FiniteSets

CONSTANTS
    Kids,       \* keys in storage
    Damaged,    \* those whose rows may fail to decrypt
    Files,      \* contents the operator writes
    Text,       \* what each of them says
    Hashes,     \* hashes of the API keys that clients present
    Asked,      \* actions that requests ask for
    Profiles,   \* profile names that requests name
    Workers,    \* handler invocations in flight
    MaxWrites,  \* bound: changes of the configuration file
    Missing,    \* a file that does not exist
    Corrupt,    \* a signature file that does not verify
    None        \* nothing

ASSUME ConfigReloadAssumption ==
    /\ MaxWrites \in Nat
    /\ Damaged \subseteq Kids
    /\ Missing \notin Files \cup {Corrupt}
    /\ Corrupt \notin Files
    /\ None \notin Files

VARIABLES
    disk,       \* content of config.json
    signature,  \* config_sign.json: missing, corrupt, or the content it covers
    writes,     \* changes of config.json so far
    signing,    \* content that a running `vectis config sign` has read
    up,         \* whether the service is serving
    keys,       \* kids in memory
    config,     \* the configuration in force
    worker,     \* what each handler holds, and where it is
    signed,     \* history: contents the operator has signed
    confirmed   \* history: what the answered reloads have promised

files == << disk, signature, writes, signing, signed >>
vars == << files, up, keys, config, worker, confirmed >>

\* A configuration: the compiled sections, and as history the content they come
\* from and the number of the write that put it on disk.
EmptyConfig(version) ==
    [permissions |-> << >>, profiles |-> << >>, origin |-> Missing, version |-> version]

ConfigOf(content, version) ==
    [permissions |-> PermissionsState(Text[content].permissions),
     profiles |-> Text[content].profiles, origin |-> content, version |-> version]

Versions == 0 .. MaxWrites
Configs ==
    {EmptyConfig(v) : v \in Versions}
      \cup {ConfigOf(f, v) : f \in Files, v \in Versions}

Idle == [pc |-> "idle", op |-> None, loaded |-> {}, content |-> Missing,
         config |-> EmptyConfig(0), outcome |-> None, promise |-> 0,
         hash |-> None, kid |-> None, profile |-> None]

PCs == {"idle", "copy", "read", "verify", "install", "respond", "ensure",
        "prepare", "served"}

Contexts ==
    [pc : PCs, op : {"reload", "start", "use", None}, loaded : SUBSET Kids,
     content : Files \cup {Missing}, config : Configs,
     outcome : {"applied", "stale", None}, promise : Versions,
     hash : Hashes \cup {None}, kid : Kids \cup {None},
     profile : Profiles \cup {None}]

Init ==
    /\ disk = Missing
    /\ signature = Missing
    /\ writes = 0
    /\ signing = None
    /\ up = FALSE
    /\ keys = {}
    /\ config = EmptyConfig(0)
    /\ worker = [w \in Workers |-> Idle]
    /\ signed = {}
    /\ confirmed = 0

Become(w, c) == worker' = [worker EXCEPT ![w] = c]
Return(w) == Become(w, Idle)
-----------------------------------------------------------------------------
(***************************************************************************)
(* Validation.                                                             *)
(***************************************************************************)
\* A profile section: no duplicated name, every kid in memory.
ValidProfiles(profiles, loaded) ==
    /\ IsInjective(Column(profiles, "name"))
    /\ \A i \in DOMAIN profiles : profiles[i].kid \in loaded

validate_config_file(content, loaded) ==
    /\ Text[content].sound
    /\ ValidClients(Text[content].permissions, loaded)
    /\ ValidProfiles(Text[content].profiles, loaded)

\* Mutant of verify_config_file_signature: the hash of the content is not compared.
verify_config_file_signature_AnyContent(content, sig) ==
    IF sig = Corrupt \/ ~ Text[content].parses THEN "failed" ELSE "ok"

verify_config_file_signature(content, sig) ==
    CASE sig = Corrupt -> "failed"
      [] sig # Corrupt /\ ~ Text[content].parses -> "failed"
      [] sig # Corrupt /\ Text[content].parses /\ sig # content -> "stale"
      [] OTHER -> "ok"

\* load_config_file after its first read, and what its callers make of a missing
\* file.  The closure that verifies reads the signature file, and reports a
\* missing one with the same error as a missing configuration.
LoadOutcome(content, sig, loaded) ==
    IF sig = Missing
       THEN "empty"
       ELSE LET verdict == verify_config_file_signature(content, sig) IN
            CASE verdict # "ok" -> verdict
              [] verdict = "ok" /\ ~ validate_config_file(content, loaded) -> "failed"
              [] OTHER -> "loaded"
-----------------------------------------------------------------------------
(***************************************************************************)
(* The operator.                                                           *)
(***************************************************************************)
Write(content) ==
    /\ writes < MaxWrites
    /\ disk # content
    /\ disk' = content
    /\ writes' = writes + 1
    /\ UNCHANGED << signature, signing, signed, up, keys, config, worker, confirmed >>

\* The config editor, which renames a complete file into place.
WriteConfig == \E f \in Files : Write(f)

\* By hand.
RemoveConfig == Write(Missing)

DamageSignature ==
    /\ signature \notin {Missing, Corrupt}
    /\ signature' \in {Missing, Corrupt}
    /\ UNCHANGED << disk, writes, signing, signed, up, keys, config, worker, confirmed >>

\* `vectis config sign`: it validates what it reads, against the keys it can load
\* from storage itself.
BeginSign ==
    /\ signing = None
    /\ disk # Missing
    /\ Text[disk].parses
    /\ validate_config_file(disk, Kids)
    /\ signing' = disk
    /\ UNCHANGED << disk, signature, writes, signed, up, keys, config, worker, confirmed >>

WriteSignature ==
    /\ signing # None
    /\ signature' = signing
    /\ signed' = signed \cup {signing}
    /\ signing' = None
    /\ UNCHANGED << disk, writes, up, keys, config, worker, confirmed >>
-----------------------------------------------------------------------------
(***************************************************************************)
(* Loading.                                                                *)
(***************************************************************************)
\* The loads that have read config.json and have not installed it yet.
Holding == {v \in Workers : worker[v].pc \in {"verify", "install"}}

\* History, at the moment a load installs: the oldest content that any load holds.
\* The others may still install theirs over it; a load that reads later cannot
\* read an older one.
Promise == Min({worker[v].config.version : v \in Holding})

\* POST /config/reload: authorised under the configuration in force.
BeginReload(w) ==
    /\ up
    /\ worker[w].pc = "idle"
    /\ \E h \in Hashes : Allowed(config.permissions, h, NoKid, "admin")
    /\ Become(w, [Idle EXCEPT !.pc = "copy", !.op = "reload"])
    /\ UNCHANGED << files, up, keys, config, confirmed >>

\* The keys in memory, copied under the read lock.
CopyKeys(w) ==
    /\ worker[w].pc = "copy"
    /\ Become(w, [worker[w] EXCEPT !.pc = "read", !.loaded = keys])
    /\ UNCHANGED << files, up, keys, config, confirmed >>

\* run_with: a start loads the keys that decrypt, then the configuration.
BeginStart(w) ==
    /\ ~ up
    /\ \A v \in Workers : worker[v].pc = "idle"
    /\ \E skipped \in SUBSET Damaged :
        LET loaded == Kids \ skipped IN
        /\ keys' = loaded
        /\ Become(w, [Idle EXCEPT !.pc = "read", !.op = "start", !.loaded = loaded])
    /\ UNCHANGED << files, up, config, confirmed >>

\* read_config_file.
ReadConfig(w) ==
    /\ worker[w].pc = "read"
    /\ Become(w, [worker[w] EXCEPT !.pc = IF disk = Missing THEN "install" ELSE "verify",
                     !.content = disk, !.config = EmptyConfig(writes)])
    /\ UNCHANGED << files, up, keys, config, confirmed >>

\* What a reload still needs for its answer.
Answer(c, outcome) ==
    [Idle EXCEPT !.pc = "respond", !.op = c.op, !.outcome = outcome,
        !.promise = IF outcome = "applied" THEN Promise ELSE 0]

\* Mutant of VerifyConfig: a stale signature is reported as applied.
VerifyConfigNoWarning(w) ==
    LET c == worker[w]
        outcome == LoadOutcome(c.content, signature, c.loaded)
    IN
    /\ c.pc = "verify"
    /\ CASE outcome = "loaded" ->
              Become(w, [c EXCEPT !.pc = "install", !.loaded = {},
                            !.config = ConfigOf(c.content, c.config.version)])
         [] outcome = "empty" ->
              Become(w, [c EXCEPT !.pc = "install", !.loaded = {}])
         [] outcome = "stale" /\ c.op = "reload" ->
              Become(w, Answer(c, "applied"))
         [] OTHER -> Return(w)
    /\ UNCHANGED << files, up, keys, config, confirmed >>

\* The signature file is read, and the content read before is verified, parsed and
\* validated.  A stale signature is an answer of its own for a reload only.
VerifyConfig(w) ==
    LET c == worker[w]
        outcome == LoadOutcome(c.content, signature, c.loaded)
    IN
    /\ c.pc = "verify"
    /\ CASE outcome = "loaded" ->
              Become(w, [c EXCEPT !.pc = "install", !.loaded = {},
                            !.config = ConfigOf(c.content, c.config.version)])
         [] outcome = "empty" ->
              Become(w, [c EXCEPT !.pc = "install", !.loaded = {}])
         [] outcome = "stale" /\ c.op = "reload" ->
              Become(w, Answer(c, "stale"))
         [] OTHER -> Return(w)
    /\ UNCHANGED << files, up, keys, config, confirmed >>

\* A reload takes the write lock; a start builds the state it then serves.
InstallConfig(w) ==
    /\ worker[w].pc = "install"
    /\ config' = worker[w].config
    /\ IF worker[w].op = "reload"
          THEN /\ Become(w, Answer(worker[w], "applied"))
               /\ UNCHANGED << up, confirmed >>
          ELSE /\ up' = TRUE
               /\ confirmed' = Promise
               /\ Return(w)
    /\ UNCHANGED << files, keys >>

\* The answer.  One that says the file was applied makes its promise binding.
Respond(w) ==
    LET c == worker[w] IN
    /\ c.pc = "respond"
    /\ confirmed' = IF c.outcome = "applied" /\ c.promise > confirmed
                       THEN c.promise ELSE confirmed
    /\ Return(w)
    /\ UNCHANGED << files, up, keys, config >>
-----------------------------------------------------------------------------
(***************************************************************************)
(* A request under a profile: POST /mac/{kid} stands for the profile       *)
(* endpoints, which share this outline.                                    *)
(***************************************************************************)
\* authorize_request and require_permission_for, on one snapshot.
BeginUse(w) ==
    /\ up
    /\ worker[w].pc = "idle"
    /\ \E h \in Hashes, k \in Kids, p \in Profiles :
        /\ Allowed(config.permissions, h, k, "mac-create")
        /\ Become(w, [Idle EXCEPT !.pc = "ensure", !.op = "use", !.config = config,
                         !.hash = h, !.kid = k, !.profile = p])
    /\ UNCHANGED << files, up, keys, config, confirmed >>

\* Mutant of EnsureKey: the entry is stored under the profile's name.
EnsureKeyByProfile(w) ==
    /\ worker[w].pc = "ensure"
    /\ keys' = keys \cup {worker[w].profile}
    /\ Become(w, [worker[w] EXCEPT !.pc = "prepare"])
    /\ UNCHANGED << files, up, config, confirmed >>

\* ensure_keys_db_entry: a key that is not in memory is loaded.
EnsureKey(w) ==
    /\ worker[w].pc = "ensure"
    /\ keys' = keys \cup {worker[w].kid}
    /\ Become(w, [worker[w] EXCEPT !.pc = "prepare"])
    /\ UNCHANGED << files, up, config, confirmed >>

Bound(profiles, name, kid) ==
    \E i \in DOMAIN profiles : profiles[i].name = name /\ profiles[i].kid = kid

\* Mutant of PrepareUse: the profile comes from the configuration now in force.
PrepareUseLatest(w) ==
    LET c == worker[w] IN
    /\ c.pc = "prepare"
    /\ IF Bound(config.profiles, c.profile, c.kid) /\ c.kid \in keys
          THEN Become(w, [c EXCEPT !.pc = "served"])
          ELSE Return(w)
    /\ UNCHANGED << files, up, keys, config, confirmed >>

\* The profile of the request's snapshot; prepare_profile_use under the keys lock.
PrepareUse(w) ==
    LET c == worker[w] IN
    /\ c.pc = "prepare"
    /\ IF Bound(c.config.profiles, c.profile, c.kid) /\ c.kid \in keys
          THEN Become(w, [c EXCEPT !.pc = "served"])
          ELSE Return(w)
    /\ UNCHANGED << files, up, keys, config, confirmed >>

Serve(w) ==
    /\ worker[w].pc = "served"
    /\ Return(w)
    /\ UNCHANGED << files, up, keys, config, confirmed >>
-----------------------------------------------------------------------------
\* An error or a dropped request at any await; a start that fails ends the process.
Fail(w) ==
    /\ worker[w].pc # "idle"
    /\ Return(w)
    /\ UNCHANGED << files, up, keys, config, confirmed >>

\* POST /keys/reload replaces the keys in memory by the rows that decrypt.
ReloadKeys ==
    /\ up
    /\ \E skipped \in SUBSET Damaged : keys' = Kids \ skipped
    /\ UNCHANGED << files, up, config, worker, confirmed >>

Crash ==
    /\ up
    /\ up' = FALSE
    /\ keys' = {}
    /\ config' = EmptyConfig(0)
    /\ worker' = [w \in Workers |-> Idle]
    /\ confirmed' = 0
    /\ UNCHANGED files
-----------------------------------------------------------------------------
Step(w) ==
    \/ BeginReload(w)
    \/ CopyKeys(w)
    \/ BeginStart(w)
    \/ ReadConfig(w)
    \/ VerifyConfig(w)
    \/ InstallConfig(w)
    \/ Respond(w)
    \/ BeginUse(w)
    \/ EnsureKey(w)
    \/ PrepareUse(w)
    \/ Serve(w)
    \/ Fail(w)

Next ==
    \/ \E w \in Workers : Step(w)
    \/ WriteConfig
    \/ RemoveConfig
    \/ DamageSignature
    \/ BeginSign
    \/ WriteSignature
    \/ ReloadKeys
    \/ Crash

Spec == Init /\ [][Next]_vars
-----------------------------------------------------------------------------
TypeOK ==
    /\ disk \in Files \cup {Missing}
    /\ signature \in Files \cup {Missing, Corrupt}
    /\ writes \in Versions
    /\ signing \in Files \cup {None}
    /\ up \in BOOLEAN
    /\ keys \subseteq Kids
    /\ config \in Configs
    /\ worker \in [Workers -> Contexts]
    /\ signed \subseteq Files
    /\ confirmed \in Versions

(***************************************************************************)
(* What is in force is empty or a content the operator signed, whole and   *)
(* valid, whatever the operator writes between the two reads of a load     *)
(* (load_config_file verifies the text it validates, not the file again).  *)
(***************************************************************************)
OnlySignedInForce ==
    config.origin # Missing =>
        /\ config.origin \in signed
        /\ validate_config_file(config.origin, Kids)

(***************************************************************************)
(* A configuration that comes into force decides every request as its      *)
(* signed file reads: inactive clients, the wildcard and administrators    *)
(* included (validate_permission_clients, require_permission).             *)
(***************************************************************************)
DecidesAsWritten(c) ==
    \A h \in Hashes, k \in Kids \cup {NoKid}, a \in Asked :
        Allowed(c.permissions, h, k, a) <=>
            \/ h = Root
            \/ c.origin # Missing /\ MayAct(Text[c.origin].permissions, h, k, a)

DecisionsFollowFile ==
    [][up' /\ (~ up \/ config' # config) => DecidesAsWritten(config')]_vars

(***************************************************************************)
(* A request is served as one file reads: the configuration in force when  *)
(* it was authorised both lets its client act on the key and binds the     *)
(* profile to that key, although a reload may have replaced it meanwhile   *)
(* (AuthenticatedRequest carries the snapshot).                            *)
(***************************************************************************)
ServedUnderOneFile ==
    \A w \in Workers :
        LET c == worker[w] IN
        c.pc = "served" =>
            /\ c.config.origin # Missing
            /\ Bound(Text[c.config.origin].profiles, c.profile, c.kid)
            /\ c.hash = Root \/ MayAct(Text[c.config.origin].permissions, c.hash, c.kid,
                                       "mac-create")

(***************************************************************************)
(* Once a reload has answered that it applied the file, only a load that   *)
(* had already read config.json when it installed can put an older file in *)
(* force, and none older than such a load had read.  So a reload that      *)
(* installs while no other load holds a file is never undone, whatever     *)
(* loads begin or read later (reload_endpoint, reload_config_state).       *)
(***************************************************************************)
AnsweredReloadInForce == config.version >= confirmed

(***************************************************************************)
(* A reload that found the configuration file does not empty the           *)
(* configuration in force: "If the config exists but is invalid, unsigned, *)
(* has an invalid signature [...] the request fails and the previous       *)
(* in-memory config remains active" (POST /config/reload).                 *)
(***************************************************************************)
UnsignedKeepsPrevious ==
    [][\A w \in Workers :
         /\ worker[w].pc = "install"
         /\ worker'[w].pc = "respond"
         /\ worker[w].content # Missing
         /\ config.origin # Missing
         => config'.origin # Missing]_vars
=============================================================================
