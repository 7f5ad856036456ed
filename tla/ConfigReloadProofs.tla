------------------------- MODULE ConfigReloadProofs -------------------------
(***************************************************************************)
(* Proofs about ConfigReload, for any number of handlers, files, keys and  *)
(* clients: only signed files come into force, and an answered reload is   *)
(* undone at most by a load that had read the file before it installed.    *)
(***************************************************************************)
EXTENDS ConfigReload, WellFoundedInduction, TLAPS

(***************************************************************************)
(* What the types leave open: a load that verifies has read a content, and *)
(* a request that ensures a key names one.                                 *)
(***************************************************************************)
ContextOK(c) ==
    /\ c.pc = "verify" => c.content \in Files
    /\ c.pc = "ensure" => c.kid \in Kids

TypeInv == TypeOK /\ \A w \in Workers : ContextOK(worker[w])

(***************************************************************************)
(* Where a signed content may be found on its way into force: in the       *)
(* signature file, in a signing command, in a load that has verified it.   *)
(***************************************************************************)
SignedInv ==
    /\ signature \in signed \cup {Missing, Corrupt}
    /\ signing # None => validate_config_file(signing, Kids)
    /\ \A f \in signed : validate_config_file(f, Kids)
    /\ config.origin \in signed \cup {Missing}
    /\ \A w \in Workers :
        /\ worker[w].pc = "verify" => worker[w].config.origin = Missing
        /\ worker[w].pc = "install" => worker[w].config.origin \in signed \cup {Missing}

(***************************************************************************)
(* A version below which nothing can come into force any more: the disk,   *)
(* the configuration in force and every content that a load holds are at   *)
(* least as new.                                                           *)
(***************************************************************************)
Floor(n) ==
    /\ n <= writes
    /\ n <= config.version
    /\ \A v \in Holding : n <= worker[v].config.version

(***************************************************************************)
(* No load holds a content newer than the disk, and what the answers have  *)
(* promised, or are about to, is such a floor.                             *)
(***************************************************************************)
ReloadInv ==
    /\ \A v \in Holding : worker[v].config.version <= writes
    /\ Floor(confirmed)
    /\ \A w \in Workers :
        worker[w].pc = "respond" /\ worker[w].outcome = "applied" => Floor(worker[w].promise)

IInv == TypeInv /\ SignedInv /\ ReloadInv
-----------------------------------------------------------------------------
(***************************************************************************)
(* The parts of a configuration and of a handler's context.                *)
(***************************************************************************)
\* The empty configuration comes from no file (empty_config_state).
LEMMA EmptyParts ==
    ASSUME NEW v \in Versions
    PROVE  /\ EmptyConfig(v) \in Configs
           /\ EmptyConfig(v).origin = Missing
           /\ EmptyConfig(v).version = v
BY DEF EmptyConfig, Configs

\* A loaded configuration remembers its file and the write it was read at
\* (validate_config_file).
LEMMA LoadedParts ==
    ASSUME NEW f \in Files, NEW v \in Versions
    PROVE  /\ ConfigOf(f, v) \in Configs
           /\ ConfigOf(f, v).origin = f
           /\ ConfigOf(f, v).version = v
BY DEF ConfigOf, Configs

\* Every configuration is one of the two.
LEMMA ConfigParts ==
    ASSUME NEW c \in Configs
    PROVE  c.version \in Versions /\ c.origin \in Files \cup {Missing}
BY DEF Configs, ConfigOf, EmptyConfig

\* Writes are numbered by naturals from zero up to the bound.
LEMMA VersionFacts == Versions \subseteq Nat /\ 0 \in Versions
BY ConfigReloadAssumption DEF Versions

\* A handler that is not running holds a well-formed context.
LEMMA IdleTyped == Idle \in Contexts
BY EmptyParts, VersionFacts DEF Idle, Contexts, PCs

\* A set of numbers has a least element (the promise of an installation).
LEMMA MinIsLeast ==
    ASSUME NEW S, S \subseteq Nat, S # {}
    PROVE  Min(S) \in S /\ \A n \in S : Min(S) <= n
<1> DEFINE R == OpToRel(<, Nat)
<1>1. IsWellFoundedOn(R, Nat)
  BY NatLessThanWellFounded
<1> HIDE DEF R
<1>2. PICK x \in S : \A y \in S : ~ (<< y, x >> \in R)
  BY <1>1, WFMin
<1>3. ASSUME NEW y \in S PROVE x <= y
  <2>1. x \in Nat /\ y \in Nat
    OBVIOUS
  <2>2. ~ (y < x)
    BY <1>2, <2>1 DEF R, OpToRel
  <2> QED  BY <2>1, <2>2
<1> QED
  BY <1>3 DEF Min

\* What an installation promises is a version that some load holds, and no load
\* holds an older one.
LEMMA PromiseIsOldest ==
    ASSUME TypeOK, NEW w \in Holding
    PROVE  /\ Promise \in Versions
           /\ \E v \in Holding : Promise = worker[v].config.version
           /\ \A v \in Holding : Promise <= worker[v].config.version
<1> DEFINE S == {worker[v].config.version : v \in Holding}
<1>1. ASSUME NEW v \in Holding PROVE worker[v].config.version \in Versions
  <2>1. worker[v].config \in Configs
    BY DEF Holding, TypeOK, Contexts
  <2> QED  BY <2>1, ConfigParts
<1>2. S \subseteq Nat /\ S # {}
  BY <1>1, VersionFacts
<1> HIDE DEF S
<1>3. Min(S) \in S /\ \A n \in S : Min(S) <= n
  BY <1>2, MinIsLeast
<1> QED
  BY <1>1, <1>3 DEF S, Promise
-----------------------------------------------------------------------------
(***************************************************************************)
(* Type correctness.                                                       *)
(***************************************************************************)
\* Replacing the context of one handler by a well-formed one (a handler's step
\* leaves the other handlers alone).
LEMMA ContextUpdate ==
    ASSUME TypeInv, NEW w \in Workers, NEW c \in Contexts, ContextOK(c), Become(w, c)
    PROVE  worker' \in [Workers -> Contexts] /\ \A v \in Workers : ContextOK(worker[v])'
<1> USE DEF TypeInv, TypeOK, Become
<1>1. worker' \in [Workers -> Contexts]
  OBVIOUS
<1>2. \A v \in Workers : worker'[v] = IF v = w THEN c ELSE worker[v]
  OBVIOUS
<1> QED
  BY <1>1, <1>2 DEF ContextOK

\* A handler step keeps every variable in its type (all actions of Step).
LEMMA StepTyped ==
    ASSUME TypeInv, NEW w \in Workers, Step(w)
    PROVE  TypeInv'
<1> DEFINE Typed == worker' \in [Workers -> Contexts] /\ \A v \in Workers : ContextOK(worker[v])'
<1> USE EmptyParts, VersionFacts, IdleTyped
<1>t. TypeOK
  BY DEF TypeInv
<1>0. worker[w] \in Contexts /\ worker[w].config \in Configs /\ ContextOK(worker[w])
  BY DEF TypeInv, TypeOK, Contexts
<1>b. ASSUME NEW c \in Contexts, ContextOK(c), Become(w, c) PROVE Typed
  BY <1>b, ContextUpdate
<1>r. ASSUME Return(w) PROVE Typed
  <2>1. ContextOK(Idle)
    BY DEF ContextOK, Idle
  <2> QED  BY <1>r, <1>b, <2>1 DEF Return
<1>q. ASSUME Typed, TypeOK' PROVE TypeInv'
  BY <1>q DEF TypeInv
<1> HIDE DEF Typed
<1>p. Typed => worker' \in [Workers -> Contexts]
  BY DEF Typed
<1>1. CASE BeginReload(w)
  <2> DEFINE c == [Idle EXCEPT !.pc = "copy", !.op = "reload"]
  <2>1. c \in Contexts
    BY <1>t, <1>0, Zenon DEF TypeOK, Contexts, PCs
  <2>2. ContextOK(c)
    BY <1>t, <1>0 DEF ContextOK, Contexts
  <2>3. Become(w, c)
    BY <1>1 DEF BeginReload
  <2> HIDE DEF c
  <2>4. Typed
    BY <1>b, <2>1, <2>2, <2>3
  <2> QED
    BY <1>1, <1>t, <1>p, <1>q, <2>4 DEF BeginReload, TypeOK, files
<1>2. CASE CopyKeys(w)
  <2> DEFINE c == [worker[w] EXCEPT !.pc = "read", !.loaded = keys]
  <2>1. c \in Contexts
    BY <1>t, <1>0, Zenon DEF TypeOK, Contexts, PCs
  <2>2. ContextOK(c)
    BY <1>t, <1>0 DEF ContextOK, Contexts
  <2>3. Become(w, c)
    BY <1>2 DEF CopyKeys
  <2> HIDE DEF c
  <2>4. Typed
    BY <1>b, <2>1, <2>2, <2>3
  <2> QED
    BY <1>2, <1>t, <1>p, <1>q, <2>4 DEF CopyKeys, TypeOK, files
<1>3. CASE BeginStart(w)
  <2>0. PICK skipped \in SUBSET Damaged :
            /\ keys' = Kids \ skipped
            /\ Become(w, [Idle EXCEPT !.pc = "read", !.op = "start",
                             !.loaded = Kids \ skipped])
    BY <1>3, Zenon DEF BeginStart
  <2> DEFINE c == [Idle EXCEPT !.pc = "read", !.op = "start", !.loaded = Kids \ skipped]
  <2>1. c \in Contexts
    BY <1>t, <1>0, Zenon DEF TypeOK, Contexts, PCs
  <2>2. ContextOK(c)
    BY <1>t, <1>0 DEF ContextOK, Contexts
  <2>3. Become(w, c)
    BY <2>0 DEF BeginStart
  <2> HIDE DEF c
  <2>4. Typed
    BY <1>b, <2>1, <2>2, <2>3
  <2> QED
    BY <1>3, <1>t, <1>p, <1>q, <2>4, <2>0 DEF BeginStart, TypeOK, files
<1>4. CASE ReadConfig(w)
  <2> DEFINE pc == IF disk = Missing THEN "install" ELSE "verify"
             empty == EmptyConfig(writes)
             c == [worker[w] EXCEPT !.pc = pc, !.content = disk, !.config = empty]
  <2>0. empty \in Configs /\ pc \in PCs /\ disk \in Files \cup {Missing}
    BY <1>t DEF TypeOK, PCs
  <2>1. c \in Contexts
    <3> HIDE DEF pc, empty
    <3> QED  BY <1>0, <2>0 DEF Contexts
  <2>2. ContextOK(c)
    BY <1>0, <2>0 DEF ContextOK, Contexts
  <2>3. Become(w, c)
    BY <1>4 DEF ReadConfig
  <2> HIDE DEF c
  <2>4. Typed
    BY <1>b, <2>1, <2>2, <2>3
  <2> QED
    BY <1>4, <1>t, <1>p, <1>q, <2>4 DEF ReadConfig, TypeOK, files
<1>5. CASE VerifyConfig(w)
  <2> DEFINE new == ConfigOf(worker[w].content, worker[w].config.version)
             loaded == [worker[w] EXCEPT !.pc = "install", !.loaded = {}, !.config = new]
             empty == [worker[w] EXCEPT !.pc = "install", !.loaded = {}]
             stale == Answer(worker[w], "stale")
  <2>0. new \in Configs
    <3>1. worker[w].content \in Files
      BY <1>5, <1>0 DEF VerifyConfig, ContextOK
    <3>2. worker[w].config.version \in Versions
      BY <1>0, ConfigParts
    <3> QED  BY <3>1, <3>2, LoadedParts, Zenon
  <2>1. loaded \in Contexts /\ ContextOK(loaded)
    <3> HIDE DEF new
    <3>1. loaded \in Contexts
      BY <1>0, <2>0, Zenon DEF Contexts, PCs
    <3>2. loaded.pc = "install"
      BY <1>0 DEF Contexts
    <3> QED  BY <3>1, <3>2 DEF ContextOK
  <2>2. empty \in Contexts /\ ContextOK(empty)
    <3>1. empty \in Contexts
      BY <1>0 DEF Contexts, PCs
    <3>2. empty.pc = "install"
      BY <1>0 DEF Contexts
    <3> QED  BY <3>1, <3>2 DEF ContextOK
  <2>s. stale \in Contexts
    BY <1>0, Zenon DEF Answer, Contexts, PCs
  <2>3. stale \in Contexts /\ ContextOK(stale)
    BY <2>s DEF Answer, ContextOK, Idle
  <2>4. Become(w, loaded) \/ Become(w, empty) \/ Become(w, stale) \/ Return(w)
    BY <1>5 DEF VerifyConfig
  <2> HIDE DEF loaded, empty, stale
  <2>5. Typed
    BY <1>b, <1>r, <2>1, <2>2, <2>3, <2>4
  <2> QED
    BY <1>5, <1>t, <1>p, <1>q, <2>5 DEF VerifyConfig, TypeOK, files
<1>6. CASE InstallConfig(w)
  <2> DEFINE applied == Answer(worker[w], "applied")
  <2>0. Promise \in Versions
    BY <1>6, <1>t, PromiseIsOldest DEF InstallConfig, Holding
  <2>a. applied \in Contexts
    BY <1>0, <2>0, Zenon DEF Answer, Contexts, PCs
  <2>1. applied \in Contexts /\ ContextOK(applied)
    BY <2>a DEF Answer, ContextOK, Idle
  <2>2. Become(w, applied) \/ Return(w)
    BY <1>6 DEF InstallConfig
  <2> HIDE DEF applied
  <2>3. Typed
    BY <1>b, <1>r, <2>1, <2>2
  <2> QED
    BY <1>6, <1>0, <1>t, <1>p, <1>q, <2>0, <2>3, Zenon DEF InstallConfig, TypeOK, files
<1>7. CASE Respond(w)
  <2>1. worker[w].promise \in Versions
    BY <1>0 DEF Contexts
  <2> QED
    BY <1>7, <1>r, <1>t, <1>p, <1>q, <2>1 DEF Respond, TypeOK, files
<1>8. CASE BeginUse(w)
  <2>0. PICK h \in Hashes, k \in Kids, p \in Profiles :
            Become(w, [Idle EXCEPT !.pc = "ensure", !.op = "use", !.config = config,
                         !.hash = h, !.kid = k, !.profile = p])
    BY <1>8, Zenon DEF BeginUse
  <2> DEFINE c == [Idle EXCEPT !.pc = "ensure", !.op = "use", !.config = config,
                     !.hash = h, !.kid = k, !.profile = p]
  <2>1. c \in Contexts
    BY <1>t, <1>0 DEF TypeOK, Contexts, PCs
  <2>2. ContextOK(c)
    BY <1>t, <1>0 DEF ContextOK, Contexts
  <2>3. Become(w, c)
    BY <2>0 DEF BeginUse
  <2> HIDE DEF c
  <2>4. Typed
    BY <1>b, <2>1, <2>2, <2>3
  <2> QED
    BY <1>8, <1>t, <1>p, <1>q, <2>4 DEF BeginUse, TypeOK, files
<1>9. CASE EnsureKey(w)
  <2>0. worker[w].kid \in Kids
    BY <1>9, <1>0 DEF EnsureKey, ContextOK
  <2> DEFINE c == [worker[w] EXCEPT !.pc = "prepare"]
  <2>1. c \in Contexts
    BY <1>t, <1>0 DEF TypeOK, Contexts, PCs
  <2>2. ContextOK(c)
    BY <1>t, <1>0 DEF ContextOK, Contexts
  <2>3. Become(w, c)
    BY <1>9 DEF EnsureKey
  <2> HIDE DEF c
  <2>4. Typed
    BY <1>b, <2>1, <2>2, <2>3
  <2> QED
    BY <1>9, <1>t, <1>p, <1>q, <2>4, <2>0 DEF EnsureKey, TypeOK, files
<1>10. CASE PrepareUse(w)
  <2> DEFINE c == [worker[w] EXCEPT !.pc = "served"]
  <2>1. c \in Contexts /\ ContextOK(c)
    BY <1>0 DEF Contexts, PCs, ContextOK
  <2>2. Become(w, c) \/ Return(w)
    BY <1>10 DEF PrepareUse
  <2> HIDE DEF c
  <2>3. Typed
    BY <1>b, <1>r, <2>1, <2>2
  <2> QED
    BY <1>10, <1>t, <1>p, <1>q, <2>3 DEF PrepareUse, TypeOK, files
<1>11. CASE Serve(w)
  BY <1>11, <1>t, <1>r, <1>p, <1>q DEF Serve, TypeOK, files
<1>12. CASE Fail(w)
  BY <1>12, <1>t, <1>r, <1>p, <1>q DEF Fail, TypeOK, files
<1> QED
  BY <1>1, <1>2, <1>3, <1>4, <1>5, <1>6, <1>7, <1>8, <1>9, <1>10, <1>11, <1>12 DEF Step

\* So does every other step.
LEMMA NextTyped ==
    ASSUME TypeInv, [Next]_vars
    PROVE  TypeInv'
<1> USE EmptyParts, VersionFacts, IdleTyped
<1>0. ContextOK(Idle)
  BY DEF ContextOK, Idle
<1>1. ASSUME NEW w \in Workers, Step(w) PROVE TypeInv'
  BY <1>1, StepTyped
<1>2. ASSUME NEW f \in Files \cup {Missing}, Write(f) PROVE TypeInv'
  BY <1>2, ConfigReloadAssumption DEF Write, TypeInv, TypeOK, Versions
<1>3. CASE DamageSignature
  BY <1>3 DEF DamageSignature, TypeInv, TypeOK
<1>4. CASE BeginSign
  BY <1>4 DEF BeginSign, TypeInv, TypeOK
<1>5. CASE WriteSignature
  BY <1>5 DEF WriteSignature, TypeInv, TypeOK
<1>6. CASE ReloadKeys
  BY <1>6 DEF ReloadKeys, TypeInv, TypeOK, files
<1>7. CASE Crash
  BY <1>7, <1>0, Zenon DEF Crash, TypeInv, TypeOK, files
<1>8. CASE UNCHANGED vars
  BY <1>8 DEF vars, files, TypeInv, TypeOK
<1> QED
  BY <1>1, <1>2, <1>3, <1>4, <1>5, <1>6, <1>7, <1>8 DEF Next, WriteConfig, RemoveConfig

\* The first state is well typed.
LEMMA InitTyped == Init => TypeInv
<1> SUFFICES ASSUME Init PROVE TypeInv
  OBVIOUS
<1>1. ContextOK(Idle)
  BY DEF ContextOK, Idle
<1> QED
  BY <1>1, EmptyParts, VersionFacts, IdleTyped DEF Init, TypeInv, TypeOK
-----------------------------------------------------------------------------
(***************************************************************************)
(* Signed contents.                                                        *)
(***************************************************************************)
\* A handler that verifies has nothing to install yet, and one that installs
\* has a signed content or none.
Clean(c) ==
    /\ c.pc = "verify" => c.config.origin = Missing
    /\ c.pc = "install" => c.config.origin \in signed \cup {Missing}

\* A step that changes one handler only keeps SignedInv if the handler is clean
\* (the steps of a load between its reads, and those of a request).
LEMMA SignedUpdate ==
    ASSUME TypeInv, SignedInv, NEW w \in Workers, NEW c, Become(w, c), Clean(c),
           UNCHANGED << files, config >>
    PROVE  SignedInv'
<1>1. \A v \in Workers : worker'[v] = IF v = w THEN c ELSE worker[v]
  BY DEF TypeInv, TypeOK, Become
<1>2. UNCHANGED << signature, signing, signed, config >>
  BY DEF files
<1>3. \A v \in Workers :
        /\ worker'[v].pc = "verify" => worker'[v].config.origin = Missing
        /\ worker'[v].pc = "install" => worker'[v].config.origin \in signed \cup {Missing}
  BY <1>1 DEF SignedInv, Clean
<1> QED
  BY <1>2, <1>3 DEF SignedInv

\* Loads and requests bring only signed contents into force (load_config_file).
LEMMA StepSigned ==
    ASSUME TypeInv, SignedInv, NEW w \in Workers, Step(w)
    PROVE  SignedInv'
<1>0. worker[w] \in Contexts /\ worker[w].config \in Configs /\ ContextOK(worker[w])
  BY DEF TypeInv, TypeOK, Contexts
<1>i. Clean(Idle)
  BY DEF Clean, Idle
<1>r. ASSUME Return(w), UNCHANGED << files, config >> PROVE SignedInv'
  BY <1>r, <1>i, SignedUpdate DEF Return
<1>1. CASE BeginReload(w)
  <2>1. Clean([Idle EXCEPT !.pc = "copy", !.op = "reload"])
    BY DEF Clean, Idle
  <2> QED  BY <1>1, <2>1, SignedUpdate DEF BeginReload
<1>2. CASE CopyKeys(w)
  <2>1. Clean([worker[w] EXCEPT !.pc = "read", !.loaded = keys])
    BY <1>0 DEF Clean, Contexts
  <2> QED  BY <1>2, <2>1, SignedUpdate DEF CopyKeys
<1>3. CASE BeginStart(w)
  <2>1. PICK skipped \in SUBSET Damaged :
            Become(w, [Idle EXCEPT !.pc = "read", !.op = "start",
                         !.loaded = Kids \ skipped])
    BY <1>3, Zenon DEF BeginStart
  <2>2. Clean([Idle EXCEPT !.pc = "read", !.op = "start", !.loaded = Kids \ skipped])
    BY DEF Clean, Idle
  <2> QED  BY <1>3, <2>1, <2>2, SignedUpdate DEF BeginStart
<1>4. CASE ReadConfig(w)
  <2> DEFINE pc == IF disk = Missing THEN "install" ELSE "verify"
             c == [worker[w] EXCEPT !.pc = pc, !.content = disk, !.config = EmptyConfig(writes)]
  <2>1. EmptyConfig(writes).origin = Missing
    BY EmptyParts DEF TypeInv, TypeOK
  <2>2. Clean(c)
    BY <1>0, <2>1 DEF Clean, Contexts
  <2> QED  BY <1>4, <2>2, SignedUpdate DEF ReadConfig
<1>5. CASE VerifyConfig(w)
  <2> DEFINE new == ConfigOf(worker[w].content, worker[w].config.version)
             loaded == [worker[w] EXCEPT !.pc = "install", !.loaded = {}, !.config = new]
             empty == [worker[w] EXCEPT !.pc = "install", !.loaded = {}]
             stale == Answer(worker[w], "stale")
             outcome == LoadOutcome(worker[w].content, signature, worker[w].loaded)
  <2>1. outcome = "loaded" => worker[w].content \in signed
    BY DEF LoadOutcome, verify_config_file_signature, SignedInv
  <2>2. new.origin = worker[w].content
    <3>1. worker[w].content \in Files
      BY <1>5, <1>0 DEF VerifyConfig, ContextOK
    <3>2. worker[w].config.version \in Versions
      BY <1>0, ConfigParts
    <3> QED  BY <3>1, <3>2, LoadedParts, Zenon
  <2>3. outcome = "loaded" => Clean(loaded)
    <3> HIDE DEF new, outcome
    <3>1. loaded.pc = "install" /\ loaded.config = new
      BY <1>0 DEF Contexts
    <3> QED  BY <2>1, <2>2, <3>1 DEF Clean
  <2>4. Clean(empty)
    <3>1. empty.pc = "install" /\ empty.config = worker[w].config
      BY <1>0 DEF Contexts
    <3>2. worker[w].config.origin = Missing
      BY <1>5 DEF VerifyConfig, SignedInv
    <3> QED  BY <3>1, <3>2 DEF Clean
  <2>5. Clean(stale)
    BY DEF Clean, Answer, Idle
  <2>6. \/ outcome = "loaded" /\ Become(w, loaded)
        \/ Become(w, empty) \/ Become(w, stale) \/ Return(w)
    BY <1>5 DEF VerifyConfig
  <2>7. UNCHANGED << files, config >>
    BY <1>5 DEF VerifyConfig
  <2> HIDE DEF outcome, loaded, empty, stale
  <2> QED  BY <2>3, <2>4, <2>5, <2>6, <2>7, <1>r, SignedUpdate
<1>6. CASE InstallConfig(w)
  <2>1. config'.origin \in signed \cup {Missing}
    BY <1>6 DEF InstallConfig, SignedInv
  <2>2. PICK c : Become(w, c) /\ c.pc \in {"idle", "respond"}
    <3>1. Answer(worker[w], "applied").pc = "respond" /\ Idle.pc = "idle"
      BY DEF Answer, Idle
    <3>2. Become(w, Answer(worker[w], "applied")) \/ Become(w, Idle)
      BY <1>6 DEF InstallConfig, Return
    <3> QED  BY <3>1, <3>2
  <2>3. \A v \in Workers : worker'[v] = IF v = w THEN c ELSE worker[v]
    BY <2>2 DEF TypeInv, TypeOK, Become
  <2>4. UNCHANGED << signature, signing, signed >>
    BY <1>6 DEF InstallConfig, files
  <2>5. \A v \in Workers :
        /\ worker'[v].pc = "verify" => worker'[v].config.origin = Missing
        /\ worker'[v].pc = "install" => worker'[v].config.origin \in signed \cup {Missing}
    BY <2>2, <2>3 DEF SignedInv
  <2> QED  BY <2>1, <2>4, <2>5 DEF SignedInv
<1>7. CASE Respond(w)
  BY <1>7, <1>r DEF Respond
<1>8. CASE BeginUse(w)
  <2>1. PICK h \in Hashes, k \in Kids, p \in Profiles :
            Become(w, [Idle EXCEPT !.pc = "ensure", !.op = "use", !.config = config,
                         !.hash = h, !.kid = k, !.profile = p])
    BY <1>8, Zenon DEF BeginUse
  <2>2. Clean([Idle EXCEPT !.pc = "ensure", !.op = "use", !.config = config,
                 !.hash = h, !.kid = k, !.profile = p])
    BY DEF Clean, Idle
  <2> QED  BY <1>8, <2>1, <2>2, SignedUpdate DEF BeginUse
<1>9. CASE EnsureKey(w)
  <2>1. Clean([worker[w] EXCEPT !.pc = "prepare"])
    BY <1>0 DEF Clean, Contexts
  <2> QED  BY <1>9, <2>1, SignedUpdate DEF EnsureKey
<1>10. CASE PrepareUse(w)
  <2>1. Clean([worker[w] EXCEPT !.pc = "served"])
    BY <1>0 DEF Clean, Contexts
  <2> QED  BY <1>10, <1>r, <2>1, SignedUpdate DEF PrepareUse
<1>11. CASE Serve(w)
  BY <1>11, <1>r DEF Serve
<1>12. CASE Fail(w)
  BY <1>12, <1>r DEF Fail
<1> QED
  BY <1>1, <1>2, <1>3, <1>4, <1>5, <1>6, <1>7, <1>8, <1>9, <1>10, <1>11, <1>12 DEF Step

\* Signing and the rest of the environment keep SignedInv (run_config_sign).
LEMMA NextSigned ==
    ASSUME TypeInv, SignedInv, [Next]_vars
    PROVE  SignedInv'
<1>1. ASSUME NEW w \in Workers, Step(w) PROVE SignedInv'
  BY <1>1, StepSigned
<1>2. ASSUME NEW f \in Files \cup {Missing}, Write(f) PROVE SignedInv'
  BY <1>2 DEF Write, SignedInv
<1>3. CASE DamageSignature
  BY <1>3 DEF DamageSignature, SignedInv
<1>4. CASE BeginSign
  BY <1>4 DEF BeginSign, SignedInv
<1>5. CASE WriteSignature
  BY <1>5 DEF WriteSignature, SignedInv
<1>6. CASE ReloadKeys
  BY <1>6 DEF ReloadKeys, SignedInv, files
<1>7. CASE Crash
  <2>1. config'.origin = Missing
    BY <1>7, EmptyParts, VersionFacts DEF Crash
  <2>2. \A v \in Workers : worker'[v].pc = "idle"
    BY <1>7 DEF Crash, Idle
  <2> QED  BY <1>7, <2>1, <2>2 DEF Crash, SignedInv, files
<1>8. CASE UNCHANGED vars
  BY <1>8 DEF vars, files, SignedInv
<1> QED
  BY <1>1, <1>2, <1>3, <1>4, <1>5, <1>6, <1>7, <1>8 DEF Next, WriteConfig, RemoveConfig

\* Nothing is signed and nothing is in force at first.
LEMMA InitSigned == Init => SignedInv
<1> SUFFICES ASSUME Init PROVE SignedInv
  OBVIOUS
<1>1. config.origin = Missing
  BY EmptyParts, VersionFacts DEF Init
<1>2. \A v \in Workers : worker[v].pc = "idle"
  BY DEF Init, Idle
<1> QED
  BY <1>1, <1>2 DEF Init, SignedInv
-----------------------------------------------------------------------------
(***************************************************************************)
(* What an answer promises.                                                *)
(***************************************************************************)
\* Versions compare as naturals.
LEMMA Numbers ==
    ASSUME TypeInv
    PROVE  /\ writes \in Nat /\ confirmed \in Nat /\ config.version \in Nat
           /\ \A w \in Workers : worker[w].promise \in Nat /\ worker[w].config.version \in Nat
<1>1. \A w \in Workers : worker[w].promise \in Versions /\ worker[w].config \in Configs
  BY DEF TypeInv, TypeOK, Contexts
<1> QED
  BY <1>1, VersionFacts, ConfigParts DEF TypeInv, TypeOK

\* A handler that holds no file afterwards, or one no older than any floor, keeps
\* every promise (all steps but the installation and the answer).
LEMMA FloorsKept ==
    ASSUME TypeInv, ReloadInv, NEW w \in Workers, NEW c, Become(w, c),
           c.pc \in {"verify", "install"} =>
              /\ c.config.version <= writes
              /\ \A n \in Nat : Floor(n) => n <= c.config.version,
           c.pc = "respond" => c.outcome # "applied",
           UNCHANGED << writes, config, confirmed >>
    PROVE  ReloadInv'
<1>1. \A v \in Workers : worker'[v] = IF v = w THEN c ELSE worker[v]
  BY DEF TypeInv, TypeOK, Become
<1>2. ASSUME NEW v \in Holding' PROVE v = w \/ (v \in Holding /\ worker'[v] = worker[v])
  BY <1>1 DEF Holding
<1>3. ASSUME NEW n \in Nat, Floor(n) PROVE Floor(n)'
  <2>1. ASSUME NEW v \in Holding' PROVE n <= worker'[v].config.version
    BY <1>1, <1>2, <1>3, <2>1 DEF Floor, Holding
  <2> QED  BY <1>3, <2>1 DEF Floor
<1>4. \A v \in Holding' : worker'[v].config.version <= writes
  BY <1>1, <1>2 DEF ReloadInv, Holding
<1>5. Floor(confirmed)'
  <2>1. Floor(confirmed) /\ confirmed \in Nat
    BY Numbers DEF ReloadInv
  <2> QED  BY <1>3, <2>1 DEF Floor
<1>6. ASSUME NEW v \in Workers, worker'[v].pc = "respond", worker'[v].outcome = "applied"
      PROVE  Floor(worker[v].promise)'
  <2>1. worker'[v] = worker[v]
    BY <1>1, <1>6
  <2>2. Floor(worker[v].promise) /\ worker[v].promise \in Nat
    BY <1>6, <2>1, Numbers DEF ReloadInv
  <2> QED  BY <1>3, <2>1, <2>2 DEF Floor
<1> QED
  BY <1>4, <1>5, <1>6 DEF ReloadInv

\* Every handler step keeps the promises (reload_config_state, run_with).
LEMMA StepOrdered ==
    ASSUME TypeInv, ReloadInv, NEW w \in Workers, Step(w)
    PROVE  ReloadInv'
<1>0. worker[w] \in Contexts /\ worker[w].config \in Configs /\ ContextOK(worker[w])
  BY DEF TypeInv, TypeOK, Contexts
<1>r. ASSUME Return(w), UNCHANGED << files, config, confirmed >> PROVE ReloadInv'
  <2>1. Idle.pc = "idle"
    BY DEF Idle
  <2>2. UNCHANGED << writes, config, confirmed >>
    BY <1>r DEF files
  <2> QED  BY <1>r, <2>1, <2>2, FloorsKept DEF Return
<1>b. ASSUME NEW c, Become(w, c), c.pc \notin {"verify", "install", "respond"},
             UNCHANGED << files, config, confirmed >>
      PROVE  ReloadInv'
  <2>1. UNCHANGED << writes, config, confirmed >>
    BY <1>b DEF files
  <2> QED  BY <1>b, <2>1, FloorsKept
<1>1. CASE BeginReload(w)
  <2>1. [Idle EXCEPT !.pc = "copy", !.op = "reload"].pc = "copy"
    BY DEF Idle
  <2> QED  BY <1>1, <1>b, <2>1 DEF BeginReload
<1>2. CASE CopyKeys(w)
  <2>1. [worker[w] EXCEPT !.pc = "read", !.loaded = keys].pc = "read"
    BY <1>0 DEF Contexts
  <2> QED  BY <1>2, <1>b, <2>1 DEF CopyKeys
<1>3. CASE BeginStart(w)
  <2>1. PICK skipped \in SUBSET Damaged :
            Become(w, [Idle EXCEPT !.pc = "read", !.op = "start",
                         !.loaded = Kids \ skipped])
    BY <1>3, Zenon DEF BeginStart
  <2>2. [Idle EXCEPT !.pc = "read", !.op = "start", !.loaded = Kids \ skipped].pc = "read"
    BY DEF Idle
  <2> QED  BY <1>3, <1>b, <2>1, <2>2 DEF BeginStart
<1>4. CASE ReadConfig(w)
  <2> DEFINE pc == IF disk = Missing THEN "install" ELSE "verify"
             c == [worker[w] EXCEPT !.pc = pc, !.content = disk, !.config = EmptyConfig(writes)]
  <2>1. c.pc \in {"install", "verify"} /\ c.config = EmptyConfig(writes)
    BY <1>0 DEF Contexts
  <2>2. EmptyConfig(writes).version = writes /\ writes <= writes
    BY EmptyParts, Numbers DEF TypeInv, TypeOK
  <2>3. Become(w, c) /\ UNCHANGED << writes, config, confirmed >>
    BY <1>4 DEF ReadConfig, files
  <2> HIDE DEF c
  <2>4. \A n \in Nat : Floor(n) => n <= c.config.version
    BY <2>1, <2>2 DEF Floor
  <2> QED  BY <2>1, <2>2, <2>3, <2>4, FloorsKept
<1>5. CASE VerifyConfig(w)
  <2> DEFINE new == ConfigOf(worker[w].content, worker[w].config.version)
             loaded == [worker[w] EXCEPT !.pc = "install", !.loaded = {}, !.config = new]
             empty == [worker[w] EXCEPT !.pc = "install", !.loaded = {}]
             stale == Answer(worker[w], "stale")
  <2>1. w \in Holding
    BY <1>5 DEF VerifyConfig, Holding
  <2>2. new.version = worker[w].config.version
    <3>1. worker[w].content \in Files
      BY <1>5, <1>0 DEF VerifyConfig, ContextOK
    <3>2. worker[w].config.version \in Versions
      BY <1>0, ConfigParts
    <3> QED  BY <3>1, <3>2, LoadedParts, Zenon
  <2>3. loaded.pc = "install" /\ loaded.config = new
    <3> HIDE DEF new
    <3> QED  BY <1>0 DEF Contexts
  <2>4. empty.pc = "install" /\ empty.config = worker[w].config
    BY <1>0 DEF Contexts
  <2>5. stale.pc = "respond" /\ stale.outcome = "stale"
    BY DEF Answer, Idle
  <2>6. Become(w, loaded) \/ Become(w, empty) \/ Become(w, stale) \/ Return(w)
    BY <1>5 DEF VerifyConfig
  <2>7. UNCHANGED << files, writes, config, confirmed >>
    BY <1>5 DEF VerifyConfig, files
  <2> HIDE DEF new, loaded, empty, stale
  <2>8. /\ worker[w].config.version <= writes
        /\ \A n \in Nat : Floor(n) => n <= worker[w].config.version
    BY <2>1 DEF ReloadInv, Floor
  <2>9. CASE Become(w, loaded)
    BY <2>2, <2>3, <2>7, <2>8, <2>9, FloorsKept
  <2>10. CASE Become(w, empty)
    BY <2>4, <2>7, <2>8, <2>10, FloorsKept
  <2>11. CASE Become(w, stale)
    BY <2>5, <2>7, <2>11, FloorsKept
  <2> QED  BY <2>6, <2>7, <2>9, <2>10, <2>11, <1>r
<1>6. CASE InstallConfig(w)
  <2> DEFINE c == IF worker[w].op = "reload" THEN Answer(worker[w], "applied") ELSE Idle
  <2>1. /\ c.pc \in {"idle", "respond"}
        /\ c.pc = "respond" => c.promise = Promise
    BY DEF Answer, Idle
  <2>2. /\ Become(w, c)
        /\ config' = worker[w].config /\ writes' = writes
        /\ confirmed' \in {confirmed, Promise}
    BY <1>6, Zenon DEF InstallConfig, Return, files
  <2> HIDE DEF c
  <2>3. \A v \in Workers : worker'[v] = IF v = w THEN c ELSE worker[v]
    BY <2>2 DEF TypeInv, TypeOK, Become
  <2>4. Holding' \subseteq Holding /\ \A v \in Holding' : worker'[v] = worker[v]
    BY <2>1, <2>3 DEF Holding
  <2>5. w \in Holding
    BY <1>6 DEF InstallConfig, Holding
  <2>6. ASSUME NEW n \in Nat, n <= writes, \A v \in Holding : n <= worker[v].config.version
        PROVE  Floor(n)'
    BY <2>2, <2>4, <2>5, <2>6 DEF Floor
  <2>7. ASSUME NEW n \in Nat, Floor(n) PROVE Floor(n)'
    BY <2>6, <2>7 DEF Floor
  <2>8. Promise \in Nat /\ Promise <= writes
    BY <2>5, PromiseIsOldest, VersionFacts DEF TypeInv, ReloadInv
  <2>9. ASSUME NEW n, n = Promise PROVE Floor(n)'
    BY <2>5, <2>6, <2>8, <2>9, PromiseIsOldest DEF TypeInv
  <2>10. Floor(confirmed)'
    <3>1. CASE confirmed' = confirmed
      BY <2>7, <3>1, Numbers DEF ReloadInv, Floor
    <3>2. CASE confirmed' = Promise
      BY <2>9, <3>2 DEF Floor
    <3> QED  BY <2>2, <3>1, <3>2
  <2>11. ASSUME NEW v \in Workers, worker'[v].pc = "respond", worker'[v].outcome = "applied"
         PROVE  Floor(worker[v].promise)'
    <3>1. CASE v = w
      BY <2>1, <2>3, <2>9, <2>11, <3>1 DEF Floor
    <3>2. CASE v # w
      <4>1. worker'[v] = worker[v]
        BY <2>3, <3>2
      <4>2. Floor(worker[v].promise) /\ worker[v].promise \in Nat
        BY <2>11, <4>1, Numbers DEF ReloadInv
      <4> QED  BY <2>7, <4>1, <4>2 DEF Floor
    <3> QED  BY <3>1, <3>2
  <2>12. \A v \in Holding' : worker'[v].config.version <= writes'
    BY <2>2, <2>4 DEF ReloadInv
  <2> QED  BY <2>10, <2>11, <2>12 DEF ReloadInv
<1>7. CASE Respond(w)
  <2>1. Return(w) /\ UNCHANGED << files, config >>
    BY <1>7 DEF Respond
  <2>2. \/ confirmed' = confirmed
        \/ worker[w].outcome = "applied" /\ confirmed' = worker[w].promise
    BY <1>7 DEF Respond
  <2>3. CASE confirmed' = confirmed
    BY <1>r, <2>1, <2>3
  <2>4. CASE worker[w].outcome = "applied" /\ confirmed' = worker[w].promise
    <3>1. \A v \in Workers : worker'[v] = IF v = w THEN Idle ELSE worker[v]
      BY <2>1 DEF TypeInv, TypeOK, Become, Return
    <3>2. Idle.pc = "idle" /\ writes' = writes /\ config' = config
      BY <2>1 DEF Idle, files
    <3>3. Holding' \subseteq Holding /\ \A v \in Holding' : worker'[v] = worker[v]
      BY <3>1, <3>2 DEF Holding
    <3>4. ASSUME NEW n, Floor(n) PROVE Floor(n)'
      BY <3>2, <3>3, <3>4 DEF Floor
    <3>5. Floor(worker[w].promise)
      BY <1>7, <2>4 DEF Respond, ReloadInv
    <3>6. Floor(confirmed)'
      BY <2>4, <3>4, <3>5 DEF Floor
    <3>7. ASSUME NEW v \in Workers, worker'[v].pc = "respond",
                 worker'[v].outcome = "applied"
          PROVE  Floor(worker[v].promise)'
      <4>1. worker'[v] = worker[v]
        BY <3>1, <3>2, <3>7
      <4>2. Floor(worker[v].promise)
        BY <3>7, <4>1 DEF ReloadInv
      <4> QED  BY <3>4, <4>1, <4>2 DEF Floor
    <3>8. \A v \in Holding' : worker'[v].config.version <= writes'
      BY <3>2, <3>3 DEF ReloadInv
    <3> QED  BY <3>6, <3>7, <3>8 DEF ReloadInv
  <2> QED  BY <2>2, <2>3, <2>4
<1>8. CASE BeginUse(w)
  <2>1. PICK h \in Hashes, k \in Kids, p \in Profiles :
            Become(w, [Idle EXCEPT !.pc = "ensure", !.op = "use", !.config = config,
                         !.hash = h, !.kid = k, !.profile = p])
    BY <1>8, Zenon DEF BeginUse
  <2>2. [Idle EXCEPT !.pc = "ensure", !.op = "use", !.config = config,
           !.hash = h, !.kid = k, !.profile = p].pc = "ensure"
    BY DEF Idle
  <2> QED  BY <1>8, <1>b, <2>1, <2>2 DEF BeginUse
<1>9. CASE EnsureKey(w)
  <2>1. [worker[w] EXCEPT !.pc = "prepare"].pc = "prepare"
    BY <1>0 DEF Contexts
  <2> QED  BY <1>9, <1>b, <2>1 DEF EnsureKey
<1>10. CASE PrepareUse(w)
  <2>1. [worker[w] EXCEPT !.pc = "served"].pc = "served"
    BY <1>0 DEF Contexts
  <2> QED  BY <1>10, <1>b, <1>r, <2>1 DEF PrepareUse
<1>11. CASE Serve(w)
  BY <1>11, <1>r DEF Serve
<1>12. CASE Fail(w)
  BY <1>12, <1>r DEF Fail
<1> QED
  BY <1>1, <1>2, <1>3, <1>4, <1>5, <1>6, <1>7, <1>8, <1>9, <1>10, <1>11, <1>12 DEF Step

\* Every step keeps the promises: a write only makes the disk newer, and a crash
\* forgets them all.
LEMMA NextOrdered ==
    ASSUME TypeInv, ReloadInv, [Next]_vars
    PROVE  ReloadInv'
<1>1. ASSUME NEW w \in Workers, Step(w) PROVE ReloadInv'
  BY <1>1, StepOrdered
<1>2. ASSUME NEW f \in Files \cup {Missing}, Write(f) PROVE ReloadInv'
  <2>1. writes' = writes + 1 /\ UNCHANGED << config, worker, confirmed >>
    BY <1>2 DEF Write
  <2>2. Holding' = Holding /\ Holding \subseteq Workers
    BY <2>1 DEF Holding
  <2>3. ASSUME NEW n \in Nat, n <= writes PROVE n <= writes'
    BY <2>1, <2>3, Numbers
  <2>4. ASSUME NEW n \in Nat, Floor(n) PROVE Floor(n)'
    BY <2>1, <2>2, <2>3, <2>4 DEF Floor
  <2>5. Floor(confirmed)'
    BY <2>1, <2>4, Numbers DEF ReloadInv, Floor
  <2>6. ASSUME NEW v \in Workers, worker[v].pc = "respond", worker[v].outcome = "applied"
        PROVE  Floor(worker[v].promise)'
    <3>1. Floor(worker[v].promise) /\ worker[v].promise \in Nat
      BY <2>6, Numbers DEF ReloadInv
    <3> QED  BY <2>1, <2>4, <3>1 DEF Floor
  <2>7. \A v \in Holding : worker[v].config.version <= writes'
    BY <2>2, <2>3, Numbers DEF ReloadInv
  <2> QED  BY <2>1, <2>2, <2>5, <2>6, <2>7 DEF ReloadInv
<1>3. CASE UNCHANGED << writes, config, worker, confirmed >>
  BY <1>3 DEF ReloadInv, Floor, Holding
<1>4. CASE Crash
  <2>1. config'.version = 0 /\ confirmed' = 0 /\ writes' = writes /\ writes \in Nat
    BY <1>4, EmptyParts, VersionFacts, Numbers DEF Crash, files
  <2>2. \A v \in Workers : worker'[v].pc = "idle"
    BY <1>4 DEF Crash, Idle
  <2>3. Holding' = {}
    BY <2>2 DEF Holding
  <2> QED  BY <2>1, <2>2, <2>3 DEF ReloadInv, Floor
<1> QED
  BY <1>1, <1>2, <1>3, <1>4 DEF Next, WriteConfig, RemoveConfig, DamageSignature,
     BeginSign, WriteSignature, ReloadKeys, vars, files

\* No load is in progress at first, and nothing is promised.
LEMMA InitOrdered == Init => ReloadInv
<1> SUFFICES ASSUME Init PROVE ReloadInv
  OBVIOUS
<1>1. config.version = 0 /\ confirmed = 0 /\ writes = 0
  BY EmptyParts, VersionFacts DEF Init
<1>2. \A v \in Workers : worker[v].pc = "idle"
  BY DEF Init, Idle
<1>3. Holding = {}
  BY <1>2 DEF Holding
<1> QED
  BY <1>1, <1>2, <1>3 DEF ReloadInv, Floor
-----------------------------------------------------------------------------
\* The three invariants together, in every reachable state.
LEMMA Inductive == Spec => []IInv
<1>1. Init => IInv
  BY InitTyped, InitSigned, InitOrdered DEF IInv
<1>2. IInv /\ [Next]_vars => IInv'
  BY NextTyped, NextSigned, NextOrdered DEF IInv
<1> QED
  BY <1>1, <1>2, PTL DEF Spec

(***************************************************************************)
(* Every variable stays in its type (all handlers, operator and crash).    *)
(***************************************************************************)
THEOREM ConfigTypeCorrect == Spec => []TypeOK
<1>1. IInv => TypeOK
  BY DEF IInv, TypeInv
<1> QED
  BY <1>1, Inductive, PTL

(***************************************************************************)
(* Only a content the operator signed and that validates comes into force, *)
(* for any files, any number of loads and any writes between the reads of  *)
(* the configuration and of its signature (load_config_file).              *)
(***************************************************************************)
THEOREM OnlySignedInForceHolds == Spec => []OnlySignedInForce
<1>1. IInv => OnlySignedInForce
  BY DEF IInv, SignedInv, OnlySignedInForce
<1> QED
  BY <1>1, Inductive, PTL

(***************************************************************************)
(* Once a reload has answered "applied", nothing older comes into force    *)
(* than the oldest content a load held when it installed, for any number   *)
(* of overlapping and later loads and of writes (reload_endpoint,          *)
(* reload_config_state).                                                   *)
(***************************************************************************)
THEOREM AnsweredReloadInForceHolds == Spec => []AnsweredReloadInForce
<1>1. IInv => AnsweredReloadInForce
  <2> SUFFICES ASSUME IInv PROVE AnsweredReloadInForce
    OBVIOUS
  <2>1. confirmed \in Nat /\ config.version \in Nat
    BY Numbers DEF IInv
  <2> QED  BY <2>1 DEF IInv, ReloadInv, Floor, AnsweredReloadInForce
<1> QED
  BY <1>1, Inductive, PTL
=============================================================================
