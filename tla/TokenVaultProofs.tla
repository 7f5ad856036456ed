-------------------------- MODULE TokenVaultProofs --------------------------
(***************************************************************************)
(* Proofs about TokenVault, for any number of handlers, profiles, subjects,*)
(* tokens and seeds.                                                       *)
(***************************************************************************)
EXTENDS TokenVault, FiniteSetTheorems, TLAPS

USE VaultAssumption

\* What a handler's locals guarantee at each await: a subject where one is
\* looked up, a request's items, and the seed a stored subject was opened with.
HandlerOK(c) ==
    /\ c.pc \in {"seed", "exists", "insert", "purge"} => c.subject \in Subject
    /\ c.pc = "prepare" /\ c.profile \in Stored => c.subject \in Subject
    /\ c.op \in EncodeOps => c.size \in 1 .. MaxBatch
    /\ c.op \in DecodeOps => c.items \in BatchOf(Token)
    /\ c.pc \in {"ready", "save"} /\ c.subject # NoSubject => c.seed # NoSeed
    /\ c.pc \in {"seed", "ready", "save"} => ValidSubjectMode(c)

HandlersOK == \A w \in Workers : HandlerOK(worker[w])

TypeInv == TypeOK /\ HandlersOK
-----------------------------------------------------------------------------
\* A function on 1 .. n with n within the bound is a batch.
LEMMA BatchOfIntro ==
    ASSUME NEW S, NEW n \in 1 .. MaxBatch, NEW f \in [1 .. n -> S]
    PROVE  f \in BatchOf(S)
  BY DEF BatchOf

\* A request for one token is a batch of one.
LEMMA OneInBatch == ASSUME NEW S, NEW t \in S PROVE << t >> \in BatchOf(S)
<1>1. << t >> \in [1 .. 1 -> S]
  OBVIOUS
<1>2. 1 \in 1 .. MaxBatch
  OBVIOUS
<1> QED  BY <1>1, <1>2, BatchOfIntro

\* Every batch has a length within the bound.
LEMMA BatchOfElim ==
    ASSUME NEW S, NEW f \in BatchOf(S)
    PROVE  \E n \in 1 .. MaxBatch : f \in [1 .. n -> S]
  BY DEF BatchOf

\* The locals a handler starts with and returns to.
LEMMA IdleOK == Idle \in Contexts /\ HandlerOK(Idle)
<1>1. (CHOOSE p \in Profiles : TRUE) \in Profiles
  OBVIOUS
<1>2. Idle \in Contexts
  BY <1>1 DEF Idle, Contexts, PCs, Ops, EncodeOps, DecodeOps, Seed, NoSeed
<1>3. HandlerOK(Idle)
  BY DEF Idle, HandlerOK, EncodeOps, DecodeOps
<1> QED  BY <1>2, <1>3

\* One handler's locals change, the others' stay.
LEMMA OneHandler ==
    ASSUME TypeInv, NEW w \in Workers, NEW d \in Contexts, HandlerOK(d),
           worker' = [worker EXCEPT ![w] = d]
    PROVE  worker' \in [Workers -> Contexts] /\ HandlersOK'
<1> USE DEF TypeInv, TypeOK, HandlersOK
<1>1. worker' \in [Workers -> Contexts]
  OBVIOUS
<1>2. \A v \in Workers : worker'[v] = IF v = w THEN d ELSE worker[v]
  OBVIOUS
<1>3. HandlersOK'
  BY <1>1, <1>2 DEF HandlerOK
<1> QED  BY <1>1, <1>3

\* A handler that returns is in its initial state again.
LEMMA ReturnOK ==
    ASSUME TypeInv, NEW w \in Workers, Return(w)
    PROVE  worker' \in [Workers -> Contexts] /\ HandlersOK'
  BY IdleOK, OneHandler DEF Return

\* A handler that moves on without new locals.
LEMMA GotoOK ==
    ASSUME TypeInv, NEW w \in Workers, NEW l \in PCs, Goto(w, l),
           HandlerOK([worker[w] EXCEPT !.pc = l])
    PROVE  worker' \in [Workers -> Contexts] /\ HandlersOK'
<1>1. worker[w] \in Contexts
  BY DEF TypeInv, TypeOK
<1>2. [worker[w] EXCEPT !.pc = l] \in Contexts
  BY <1>1 DEF Contexts
<1>3. worker' = [worker EXCEPT ![w] = [worker[w] EXCEPT !.pc = l]]
  BY DEF Goto
<1> QED  BY <1>2, <1>3, OneHandler
-----------------------------------------------------------------------------
\* The start of a handler: its locals are well formed.
LEMMA StartOK ==
    ASSUME TypeInv, NEW w \in Workers, Start(w)
    PROVE  worker' \in [Workers -> Contexts] /\ HandlersOK'
<1> DEFINE Given(c) == c \in Contexts /\ HandlerOK(c)
<1>a. Idle \in Contexts
  BY IdleOK
<1>b. \A n \in 1 .. MaxBatch : n \in 0 .. MaxBatch
  OBVIOUS
<1>c. 1 \in 1 .. MaxBatch
  OBVIOUS
<1>0. ASSUME NEW c, Given(c), Begin(w, c)
      PROVE  worker' \in [Workers -> Contexts] /\ HandlersOK'
  BY <1>0, OneHandler DEF Begin
<1>2. CASE BeginEncode(w)
  <2>1. PICK p \in Profiles, s \in Subject \cup {NoSubject} :
          Begin(w, [Idle EXCEPT !.pc = "context", !.op = "encode",
                       !.profile = p, !.subject = s, !.size = 1])
    BY <1>2 DEF BeginEncode
  <2>2. Given([Idle EXCEPT !.pc = "context", !.op = "encode",
                       !.profile = p, !.subject = s, !.size = 1])
    <3> DEFINE d == [Idle EXCEPT !.pc = "context", !.op = "encode",
                       !.profile = p, !.subject = s, !.size = 1]
    <3>1. d \in Contexts
      BY <1>a, <1>b, <1>c DEF Contexts, PCs, Ops, EncodeOps, DecodeOps
    <3>2. HandlerOK(d)
      BY <1>c DEF Idle, HandlerOK, EncodeOps, DecodeOps
    <3> QED  BY <3>1, <3>2
  <2> QED  BY <2>1, <2>2, <1>0
<1>3. CASE BeginEncodeBatch(w)
  <2>1. PICK p \in Profiles, s \in Subject \cup {NoSubject}, n \in 1 .. MaxBatch :
          Begin(w, [Idle EXCEPT !.pc = "context", !.op = "encode_batch",
                       !.profile = p, !.subject = s, !.size = n])
    BY <1>3 DEF BeginEncodeBatch
  <2>2. Given([Idle EXCEPT !.pc = "context", !.op = "encode_batch",
                       !.profile = p, !.subject = s, !.size = n])
    <3> DEFINE d == [Idle EXCEPT !.pc = "context", !.op = "encode_batch",
                       !.profile = p, !.subject = s, !.size = n]
    <3>1. d \in Contexts
      BY <1>a, <1>b, <1>c DEF Contexts, PCs, Ops, EncodeOps, DecodeOps
    <3>2. HandlerOK(d)
      BY <1>c DEF Idle, HandlerOK, EncodeOps, DecodeOps
    <3> QED  BY <3>1, <3>2
  <2> QED  BY <2>1, <2>2, <1>0
<1>4. CASE BeginDecode(w)
  <2>1. PICK p \in Profiles, s \in Subject \cup {NoSubject}, t \in 1 .. tokensDrawn :
          Begin(w, [Idle EXCEPT !.pc = "context", !.op = "decode",
                       !.profile = p, !.subject = s, !.items = << t >>,
                       !.stale = t \in revoked])
    BY <1>4 DEF BeginDecode
  <2>2. t \in Token
    BY DEF TypeInv, TypeOK, Token
  <2>3. << t >> \in BatchOf(Token)
    BY <2>2, OneInBatch
  <2>4. Given([Idle EXCEPT !.pc = "context", !.op = "decode",
                       !.profile = p, !.subject = s, !.items = << t >>,
                       !.stale = t \in revoked])
    <3> DEFINE d == [Idle EXCEPT !.pc = "context", !.op = "decode",
                       !.profile = p, !.subject = s, !.items = << t >>,
                       !.stale = t \in revoked]
    <3>0. \A b \in BOOLEAN : [Idle EXCEPT !.pc = "context", !.op = "decode",
                       !.profile = p, !.subject = s, !.items = << t >>,
                       !.stale = b] \in Contexts
      BY <2>3, <1>a DEF Contexts, PCs, Ops, DecodeOps
    <3>1. d \in Contexts
      <4>1. (t \in revoked) \in BOOLEAN
        OBVIOUS
      <4> QED  BY <3>0, <4>1, Zenon
    <3>2. HandlerOK(d)
      BY <2>3, <1>c DEF Idle, HandlerOK, EncodeOps, DecodeOps
    <3> QED  BY <3>1, <3>2
  <2> QED  BY <2>1, <2>4, <1>0
<1>5. CASE BeginDecodeBatch(w)
  <2>1. PICK p \in Profiles, s \in Subject \cup {NoSubject}, ts \in BatchOf(1 .. tokensDrawn) :
          Begin(w, [Idle EXCEPT !.pc = "authorize", !.op = "decode_batch",
                       !.profile = p, !.subject = s, !.items = ts,
                       !.stale = \E i \in DOMAIN ts : ts[i] \in revoked])
    BY <1>5 DEF BeginDecodeBatch
  <2>2. 1 .. tokensDrawn \subseteq Token
    BY DEF TypeInv, TypeOK, Token
  <2>3. ts \in BatchOf(Token)
    <3>1. PICK n \in 1 .. MaxBatch : ts \in [1 .. n -> 1 .. tokensDrawn]
      BY BatchOfElim
    <3>2. ts \in [1 .. n -> Token]
      BY <2>2, <3>1
    <3> QED  BY <3>2, BatchOfIntro
  <2>4. Given([Idle EXCEPT !.pc = "authorize", !.op = "decode_batch",
                       !.profile = p, !.subject = s, !.items = ts,
                       !.stale = \E i \in DOMAIN ts : ts[i] \in revoked])
    <3> DEFINE d == [Idle EXCEPT !.pc = "authorize", !.op = "decode_batch",
                       !.profile = p, !.subject = s, !.items = ts,
                       !.stale = \E i \in DOMAIN ts : ts[i] \in revoked]
    <3>0. \A b \in BOOLEAN : [Idle EXCEPT !.pc = "authorize", !.op = "decode_batch",
                       !.profile = p, !.subject = s, !.items = ts,
                       !.stale = b] \in Contexts
      BY <2>3, <1>a DEF Contexts, PCs, Ops, DecodeOps
    <3>1. d \in Contexts
      BY <3>0
    <3>2. HandlerOK(d)
      BY <2>3, <1>c DEF Idle, HandlerOK, EncodeOps, DecodeOps
    <3> QED  BY <3>1, <3>2
  <2> QED  BY <2>1, <2>4, <1>0
<1>6. CASE BeginDelete(w)
  <2>1. PICK p \in Profiles, s \in Subject \cup {NoSubject}, t \in 1 .. tokensDrawn :
          Begin(w, [Idle EXCEPT !.pc = "context", !.op = "delete",
                       !.profile = p, !.subject = s, !.items = << t >>])
    BY <1>6 DEF BeginDelete
  <2>2. t \in Token
    BY DEF TypeInv, TypeOK, Token
  <2>3. << t >> \in BatchOf(Token)
    BY <2>2, OneInBatch
  <2>4. Given([Idle EXCEPT !.pc = "context", !.op = "delete",
                       !.profile = p, !.subject = s, !.items = << t >>])
    <3> DEFINE d == [Idle EXCEPT !.pc = "context", !.op = "delete",
                       !.profile = p, !.subject = s, !.items = << t >>]
    <3>1. d \in Contexts
      BY <2>3, <1>a, <1>b, <1>c DEF Contexts, PCs, Ops, EncodeOps, DecodeOps
    <3>2. HandlerOK(d)
      BY <2>3, <1>c DEF Idle, HandlerOK, EncodeOps, DecodeOps
    <3> QED  BY <3>1, <3>2
  <2> QED  BY <2>1, <2>4, <1>0
<1>7. CASE BeginSubjectCreate(w)
  <2>1. PICK p \in Profiles, n \in Names :
          Begin(w, [Idle EXCEPT !.pc = "prepare", !.op = "subject_create",
                       !.profile = p,
                       !.subject = IF p \in Stored THEN SubjectId(p, n)
                                                   ELSE NoSubject])
    BY <1>7 DEF BeginSubjectCreate
  <2> DEFINE s == IF p \in Stored THEN SubjectId(p, n) ELSE NoSubject
  <2>2. s \in Subject \cup {NoSubject} /\ (p \in Stored => s \in Subject)
    BY DEF Subject, SubjectId
  <2> HIDE DEF s
  <2>3. Given([Idle EXCEPT !.pc = "prepare", !.op = "subject_create",
                       !.profile = p, !.subject = s])
    <3> DEFINE d == [Idle EXCEPT !.pc = "prepare", !.op = "subject_create",
                       !.profile = p, !.subject = s]
    <3>1. d \in Contexts
      BY <2>2, <1>a, <1>b, <1>c DEF Contexts, PCs, Ops, EncodeOps, DecodeOps
    <3>2. HandlerOK(d)
      BY <2>2, <1>c DEF Idle, HandlerOK, EncodeOps, DecodeOps
    <3> QED  BY <3>1, <3>2
  <2> QED  BY <2>1, <2>3, <1>0 DEF s
<1>8. CASE BeginSubjectDelete(w)
  <2>1. PICK s \in Subject :
          Begin(w, [Idle EXCEPT !.pc = "purge", !.op = "subject_delete",
                       !.subject = s])
    BY <1>8 DEF BeginSubjectDelete
  <2>2. Given([Idle EXCEPT !.pc = "purge", !.op = "subject_delete",
                       !.subject = s])
    <3> DEFINE d == [Idle EXCEPT !.pc = "purge", !.op = "subject_delete",
                       !.subject = s]
    <3>1. d \in Contexts
      BY <1>a, <1>b, <1>c DEF Contexts, PCs, Ops, EncodeOps, DecodeOps
    <3>2. HandlerOK(d)
      BY <1>c DEF Idle, HandlerOK, EncodeOps, DecodeOps
    <3> QED  BY <3>1, <3>2
  <2> QED  BY <2>1, <2>2, <1>0
<1> QED
  BY <1>2, <1>3, <1>4, <1>5, <1>6, <1>7, <1>8 DEF Start
-----------------------------------------------------------------------------
\* Each later step of a handler leaves well-formed locals.
LEMMA StepOK ==
    ASSUME TypeInv, NEW w \in Workers, Step(w)
    PROVE  worker' \in [Workers -> Contexts] /\ HandlersOK'
<1> DEFINE c == worker[w]
           OK == worker' \in [Workers -> Contexts] /\ HandlersOK'
<1>a. c \in Contexts /\ HandlerOK(c)
  BY DEF TypeInv, TypeOK, HandlersOK
<1>b. Return(w) => OK
  BY ReturnOK
<1>c. ASSUME NEW l \in PCs, Goto(w, l), HandlerOK([c EXCEPT !.pc = l])
      PROVE  OK
  BY <1>c, GotoOK
<1>d. ASSUME NEW d \in Contexts, HandlerOK(d), worker' = [worker EXCEPT ![w] = d]
      PROVE  OK
  BY <1>d, OneHandler
<1>1. CASE AuthorizeDecodeBatch(w)
  <2>1. c.pc = "authorize" /\ (Goto(w, "context") \/ Return(w))
    BY <1>1 DEF AuthorizeDecodeBatch
  <2>2. HandlerOK([c EXCEPT !.pc = "context"])
    BY <1>a DEF HandlerOK, Contexts
  <2> QED  BY <2>1, <2>2, <1>b, <1>c DEF PCs
<1>2. CASE TokenContext(w)
  <2>1. \/ ValidSubjectMode(c) /\ c.subject = NoSubject /\ Goto(w, "ready")
        \/ ValidSubjectMode(c) /\ c.subject # NoSubject /\ Goto(w, "seed")
        \/ Return(w)
    BY <1>2 DEF TokenContext
  <2>2. ValidSubjectMode(c) /\ c.subject = NoSubject => HandlerOK([c EXCEPT !.pc = "ready"])
    BY <1>a DEF HandlerOK, Contexts, ValidSubjectMode
  <2>3. ValidSubjectMode(c) /\ c.subject # NoSubject => HandlerOK([c EXCEPT !.pc = "seed"])
    BY <1>a DEF HandlerOK, Contexts, ValidSubjectMode
  <2> QED  BY <2>1, <2>2, <2>3, <1>b, <1>c DEF PCs
<1>3. CASE OpenSubject(w)
  <2> DEFINE seed == subjects[c.subject]
             d == [c EXCEPT !.pc = "ready", !.seed = seed]
  <2>1. \/ Return(w)
        \/ seed # NoSeed /\ worker' = [worker EXCEPT ![w] = d]
    BY <1>3 DEF OpenSubject
  <2>2. c.subject \in Subject
    BY <1>3, <1>a DEF OpenSubject, HandlerOK
  <2>3. seed \in Seed \cup {NoSeed}
    BY <2>2 DEF TypeInv, TypeOK
  <2> HIDE DEF seed
  <2>4. d \in Contexts
    BY <1>a, <2>3 DEF Contexts, PCs
  <2>5. seed # NoSeed => HandlerOK(d)
    BY <1>a, <1>3 DEF HandlerOK, Contexts, ValidSubjectMode, OpenSubject
  <2> QED  BY <2>1, <2>4, <2>5, <1>b, <1>d
<1>4. CASE EncodeItems(w)
  <2> DEFINE ts == NewTokens(c)
             d == [c EXCEPT !.pc = "save", !.items = ts]
  <2>1. \/ Return(w)
        \/ tokensDrawn + c.size <= MaxTokens /\ worker' = [worker EXCEPT ![w] = d]
    BY <1>4 DEF EncodeItems
  <2>2. c.size \in 1 .. MaxBatch /\ c.op \notin DecodeOps /\ c.pc = "ready"
    BY <1>4, <1>a DEF EncodeItems, HandlerOK, EncodeOps, DecodeOps
  <2>3. ASSUME tokensDrawn + c.size <= MaxTokens
        PROVE  ts \in BatchOf(Token)
    <3>1. tokensDrawn \in Nat
      BY DEF TypeInv, TypeOK
    <3>2. ts \in [1 .. c.size -> Token]
      BY <2>2, <2>3, <3>1 DEF NewTokens, Token
    <3> QED  BY <2>2, <3>2, BatchOfIntro
  <2> HIDE DEF ts
  <2>4. ts \in BatchOf(Token) => d \in Contexts
    BY <1>a DEF Contexts, PCs
  <2>5. HandlerOK(d)
    BY <1>a, <2>2 DEF HandlerOK, Contexts, ValidSubjectMode
  <2> QED  BY <2>1, <2>3, <2>4, <2>5, <1>b, <1>d
<1>5. CASE SaveTokens(w)
  <2>1. Goto(w, "respond") \/ Return(w)
    BY <1>5 DEF SaveTokens
  <2>2. HandlerOK([c EXCEPT !.pc = "respond"])
    BY <1>a DEF HandlerOK, Contexts
  <2> QED  BY <2>1, <2>2, <1>b, <1>c DEF PCs
<1>6. CASE ReadTokens(w)
  <2> DEFINE found == [i \in DOMAIN c.items |-> CHOOSE r \in RowsFor(c, i) : TRUE]
             d == [c EXCEPT !.pc = "decrypt", !.found = found]
  <2>1. \/ Return(w)
        \/ /\ \A i \in DOMAIN c.items : RowsFor(c, i) # {}
           /\ worker' = [worker EXCEPT ![w] = d]
    BY <1>6 DEF ReadTokens
  <2>2. ASSUME \A i \in DOMAIN c.items : RowsFor(c, i) # {}
        PROVE  found \in BatchOf(Rows)
    <3>1. PICK n \in 1 .. MaxBatch : c.items \in [1 .. n -> Token]
      BY <1>6, <1>a, BatchOfElim DEF ReadTokens, HandlerOK
    <3>2. \A i \in 1 .. n : (CHOOSE r \in RowsFor(c, i) : TRUE) \in Rows
      BY <2>2, <3>1 DEF RowsFor, TypeInv, TypeOK
    <3>3. found \in [1 .. n -> Rows]
      BY <3>1, <3>2
    <3> QED  BY <3>3, BatchOfIntro
  <2> HIDE DEF found
  <2>3. found \in BatchOf(Rows) => d \in Contexts
    BY <1>a DEF Contexts, PCs
  <2>4. HandlerOK(d)
    BY <1>a DEF HandlerOK, Contexts
  <2> QED  BY <2>1, <2>2, <2>3, <2>4, <1>b, <1>d
<1>7. CASE DecryptTokens(w)
  <2>1. Goto(w, "consume") \/ Goto(w, "respond") \/ Return(w)
    BY <1>7 DEF DecryptTokens
  <2>2. HandlerOK([c EXCEPT !.pc = "consume"]) /\ HandlerOK([c EXCEPT !.pc = "respond"])
    BY <1>a DEF HandlerOK, Contexts
  <2> QED  BY <2>1, <2>2, <1>b, <1>c DEF PCs
<1>8. ASSUME DeleteRows(w)
      PROVE  OK
  <2> DEFINE d == [c EXCEPT !.pc = "respond", !.gone = ItemsOf(c)]
  <2>1. Return(w) \/ worker' = [worker EXCEPT ![w] = d]
    BY <1>8 DEF DeleteRows
  <2>2. ItemsOf(c) \subseteq Token
    <3>1. CASE c.items = << >>
      BY <3>1 DEF ItemsOf
    <3>2. CASE c.items \in BatchOf(Token)
      BY <3>2, BatchOfElim DEF ItemsOf
    <3> QED  BY <3>1, <3>2, <1>a DEF Contexts
  <2>3. d \in Contexts
    BY <1>a, <2>2 DEF Contexts, PCs
  <2>4. HandlerOK(d)
    BY <1>a DEF HandlerOK, Contexts
  <2> QED  BY <2>1, <2>3, <2>4, <1>b, <1>d
<1>9. CASE PrepareSubject(w)
  <2>1. c.pc = "prepare" /\ ((c.profile \in Stored /\ Goto(w, "exists")) \/ Return(w))
    BY <1>9 DEF PrepareSubject
  <2>2. c.pc = "prepare" /\ c.profile \in Stored => HandlerOK([c EXCEPT !.pc = "exists"])
    BY <1>a DEF HandlerOK, Contexts
  <2> QED  BY <2>1, <2>2, <1>b, <1>c DEF PCs
<1>10. CASE SubjectExists(w)
  <2> DEFINE d == [c EXCEPT !.pc = "insert", !.seed = seedsDrawn + 1]
  <2>1. \/ Return(w)
        \/ seedsDrawn < MaxSeeds /\ worker' = [worker EXCEPT ![w] = d]
    BY <1>10 DEF SubjectExists
  <2>2. c.subject \in Subject
    BY <1>10, <1>a DEF SubjectExists, HandlerOK
  <2>3. seedsDrawn < MaxSeeds => seedsDrawn + 1 \in Seed
    BY DEF TypeInv, TypeOK, Seed
  <2>4. seedsDrawn < MaxSeeds => d \in Contexts
    BY <1>a, <2>3 DEF Contexts, PCs
  <2>5. HandlerOK(d)
    BY <1>a, <2>2 DEF HandlerOK, Contexts
  <2> QED  BY <2>1, <2>4, <2>5, <1>b, <1>d
<1>11. CASE PurgeSubject(w)
  <2> DEFINE d == [c EXCEPT !.pc = "respond",
                            !.gone = {r.hashid.token : r \in RowsOf(c.subject)}]
  <2>1. Return(w) \/ worker' = [worker EXCEPT ![w] = d]
    BY <1>11 DEF PurgeSubject
  <2>2. {r.hashid.token : r \in RowsOf(c.subject)} \subseteq Token
    BY DEF RowsOf, TypeInv, TypeOK, Rows, HashIds
  <2>3. d \in Contexts
    BY <1>a, <2>2 DEF Contexts, PCs
  <2>4. HandlerOK(d)
    BY <1>a DEF HandlerOK, Contexts
  <2> QED  BY <2>1, <2>3, <2>4, <1>b, <1>d
<1>12. CASE ConsumeTokens(w) \/ DeleteToken(w)
  BY <1>12, <1>8 DEF ConsumeTokens, DeleteToken
<1>13. CASE SaveSubject(w) \/ Respond(w) \/ Fail(w)
  BY <1>13, <1>b DEF SaveSubject, Respond, Fail
<1> QED
  BY <1>1, <1>2, <1>3, <1>4, <1>5, <1>6, <1>7, <1>9, <1>10, <1>11, <1>12, <1>13
  DEF Step
-----------------------------------------------------------------------------
\* The items of a request are tokens, and each occurs finitely often in it.
LEMMA ItemsOK ==
    ASSUME NEW c \in Contexts
    PROVE  /\ ItemsOf(c) \subseteq Token
           /\ \A t \in Token : Occurrences(c, t) \in Nat
<1>1. PICK n \in 0 .. MaxBatch : DOMAIN c.items = 1 .. n /\ \A i \in 1 .. n : c.items[i] \in Token
  <2>1. CASE c.items = << >>
    <3>1. DOMAIN c.items = 1 .. 0
      BY <2>1
    <3> QED  BY <3>1
  <2>2. CASE c.items \in BatchOf(Token)
    BY <2>2, BatchOfElim
  <2> QED  BY <2>1, <2>2 DEF Contexts
<1>2. ItemsOf(c) \subseteq Token
  BY <1>1 DEF ItemsOf
<1>3. ASSUME NEW t \in Token
      PROVE  Occurrences(c, t) \in Nat
  <2>1. IsFiniteSet(1 .. n)
    BY FS_Interval
  <2>2. IsFiniteSet({i \in DOMAIN c.items : c.items[i] = t})
    BY <1>1, <2>1, FS_Subset
  <2> QED  BY <2>2, FS_CardinalityType DEF Occurrences
<1> QED  BY <1>2, <1>3

\* The row an encode stores for one of its tokens has the type of a row.
LEMMA RowOK ==
    ASSUME NEW c \in Contexts, NEW t \in Token
    PROVE  HashId(c, t) \in HashIds /\ Row(c, t) \in Rows
<1>1. HashId(c, t) \in HashIds
  BY DEF HashId, HashIds, Contexts
<1>2. Encrypt(c, t) \in [aad : HashIds, profile : Profiles, plaintext : Token]
  BY <1>1 DEF Encrypt, Contexts
<1>3. Row(c, t) \in Rows
  BY <1>1, <1>2 DEF Row, Rows, Contexts
<1> QED  BY <1>1, <1>3

\* Every step of every handler keeps types and HandlerOK: locals first (StartOK,
\* StepOK), then the tables, counters and history a step may change.
LEMMA TypeInvStep == TypeInv /\ [Next]_vars => TypeInv'
<1> SUFFICES ASSUME TypeInv, [Next]_vars PROVE TypeInv'
  OBVIOUS
<1> DEFINE Rest == /\ keyStatus' \in KeyStatuses
                   /\ subjects' \in [Subject -> Seed \cup {NoSeed}]
                   /\ rows' \subseteq Rows
                   /\ \A r \in rows' : r.hashid.profile \in Stored <=> r.subject # NoSubject
                   /\ tokensDrawn' \in 0 .. MaxTokens
                   /\ seedsDrawn' \in 0 .. MaxSeeds
                   /\ delivered' \in [Token -> 0 .. 2]
                   /\ revoked' \subseteq Token
<1>a. UNCHANGED << keyStatus, storage, drawn, history >> => Rest
  BY DEF TypeInv, TypeOK, storage, drawn, history
<1>1. CASE UNCHANGED vars
  BY <1>1 DEF vars, TypeInv, TypeOK, HandlersOK, HandlerOK
<1>2. CASE ReplaceKey
  <2>1. worker' = worker /\ Rest
    BY <1>2 DEF ReplaceKey, TypeInv, TypeOK, storage, drawn, history
  <2> QED  BY <2>1 DEF TypeInv, TypeOK, HandlersOK, HandlerOK
<1>3. ASSUME NEW w \in Workers, Start(w)
      PROVE  TypeInv'
  <2>1. Rest
    BY <1>3, <1>a DEF Start, BeginEncode, BeginEncodeBatch, BeginDecode,
       BeginDecodeBatch, BeginDelete, BeginSubjectCreate, BeginSubjectDelete, Begin
  <2> QED  BY <1>3, <2>1, StartOK DEF TypeInv, TypeOK
<1>4. ASSUME NEW w \in Workers, Step(w)
      PROVE  TypeInv'
  <2> SUFFICES Rest
    BY <1>4, StepOK DEF TypeInv, TypeOK
  <2> DEFINE c == worker[w]
  <2>0. c \in Contexts /\ HandlerOK(c)
    BY DEF TypeInv, TypeOK, HandlersOK
  <2>1. CASE \/ AuthorizeDecodeBatch(w) \/ TokenContext(w) \/ OpenSubject(w)
             \/ ReadTokens(w) \/ DecryptTokens(w) \/ PrepareSubject(w) \/ Fail(w)
    BY <2>1, <1>a DEF AuthorizeDecodeBatch, TokenContext, OpenSubject,
       ReadTokens, DecryptTokens, PrepareSubject, Fail
  <2>2. CASE EncodeItems(w)
    <3>1. tokensDrawn' \in 0 .. MaxTokens
      BY <2>2, <2>0 DEF EncodeItems, TypeInv, TypeOK, Contexts
    <3> QED  BY <2>2, <3>1 DEF EncodeItems, TypeInv, TypeOK, storage, history
  <2>3. CASE SaveTokens(w)
    <3>1. rows' \subseteq Rows
      BY <2>3, <2>0, ItemsOK, RowOK DEF SaveTokens, TypeInv, TypeOK
    <3>2. ValidSubjectMode(c)
      BY <2>3, <2>0 DEF SaveTokens, HandlerOK
    <3>3. ASSUME NEW r \in rows'
          PROVE  r.hashid.profile \in Stored <=> r.subject # NoSubject
      <4>1. r \in rows \/ \E t \in ItemsOf(c) : r = Row(c, t)
        BY <2>3 DEF SaveTokens
      <4>2. ASSUME NEW t \in ItemsOf(c), r = Row(c, t)
            PROVE  r.hashid.profile = c.profile /\ r.subject = c.subject
        BY <4>2 DEF Row, HashId
      <4> QED  BY <3>2, <4>1, <4>2 DEF ValidSubjectMode, TypeInv, TypeOK
    <3> QED  BY <2>3, <3>1, <3>3 DEF SaveTokens, TypeInv, TypeOK, drawn, history
  <2>4. CASE ConsumeTokens(w) \/ DeleteToken(w)
    BY <2>4 DEF ConsumeTokens, DeleteToken, DeleteRows, TypeInv, TypeOK, drawn, history
  <2>5. CASE SubjectExists(w)
    <3>1. seedsDrawn' \in 0 .. MaxSeeds
      BY <2>5 DEF SubjectExists, TypeInv, TypeOK
    <3> QED  BY <2>5, <3>1 DEF SubjectExists, TypeInv, TypeOK, storage, history
  <2>6. CASE SaveSubject(w)
    <3>1. subjects' \in [Subject -> Seed \cup {NoSeed}]
      BY <2>6, <2>0 DEF SaveSubject, TypeInv, TypeOK, Contexts
    <3> QED  BY <2>6, <3>1 DEF SaveSubject, TypeInv, TypeOK, drawn, history
  <2>7. CASE PurgeSubject(w)
    <3>1. subjects' \in [Subject -> Seed \cup {NoSeed}]
      BY <2>7 DEF PurgeSubject, TypeInv, TypeOK
    <3> QED  BY <2>7, <3>1 DEF PurgeSubject, TypeInv, TypeOK, drawn, history
  <2>8. CASE Respond(w)
    <3>1. \A n \in Nat : UpToTwo(n) \in 0 .. 2
      BY DEF UpToTwo
    <3>2. delivered' \in [Token -> 0 .. 2]
      BY <2>8, <2>0, <3>1, ItemsOK DEF Respond, TypeInv, TypeOK
    <3>3. revoked' \subseteq Token
      BY <2>8, <2>0 DEF Respond, TypeInv, TypeOK, Contexts
    <3> QED  BY <2>8, <3>2, <3>3 DEF Respond, TypeInv, TypeOK, storage, drawn
  <2> QED
    BY <1>4, <2>1, <2>2, <2>3, <2>4, <2>5, <2>6, <2>7, <2>8 DEF Step
<1> QED  BY <1>1, <1>2, <1>3, <1>4 DEF Next

\* The initial state satisfies the invariant.
LEMMA TypeInvInit == Init => TypeInv
<1> SUFFICES ASSUME Init PROVE TypeInv
  OBVIOUS
<1>1. worker \in [Workers -> Contexts] /\ HandlersOK
  BY IdleOK DEF Init, HandlersOK, HandlerOK
<1>2. tokensDrawn \in 0 .. MaxTokens /\ seedsDrawn \in 0 .. MaxSeeds
  BY DEF Init
<1> QED  BY <1>1, <1>2 DEF Init, TypeInv, TypeOK

\* Types are respected in every reachable state, whatever the number of
\* handlers, profiles, subjects and items.
THEOREM TypeCorrect == Spec => []TypeOK
<1>1. TypeInv => TypeOK
  BY DEF TypeInv
<1> QED  BY <1>1, TypeInvInit, TypeInvStep, PTL DEF Spec
-----------------------------------------------------------------------------
\* RowsUnderCurrentSeed is inductive relative to TypeInv.
LEMMA RowsStep ==
    TypeInv /\ TypeInv' /\ RowsUnderCurrentSeed /\ [Next]_vars => RowsUnderCurrentSeed'
<1> SUFFICES ASSUME TypeInv, TypeInv', RowsUnderCurrentSeed, [Next]_vars
             PROVE  RowsUnderCurrentSeed'
  OBVIOUS
<1>a. ASSUME rows' \subseteq rows, subjects' = subjects
      PROVE  RowsUnderCurrentSeed'
  BY <1>a DEF RowsUnderCurrentSeed
<1>1. CASE UNCHANGED vars \/ ReplaceKey
  BY <1>1, <1>a DEF vars, ReplaceKey, storage
<1>2. ASSUME NEW w \in Workers, Start(w)
      PROVE  RowsUnderCurrentSeed'
  BY <1>2, <1>a DEF Start, BeginEncode, BeginEncodeBatch, BeginDecode,
     BeginDecodeBatch, BeginDelete, BeginSubjectCreate, BeginSubjectDelete, Begin, storage
<1>3. ASSUME NEW w \in Workers, Step(w)
      PROVE  RowsUnderCurrentSeed'
  <2> DEFINE c == worker[w]
  <2>0. c \in Contexts /\ HandlerOK(c)
    BY DEF TypeInv, TypeOK, HandlersOK
  <2>1. CASE \/ AuthorizeDecodeBatch(w) \/ TokenContext(w) \/ OpenSubject(w)
             \/ ReadTokens(w) \/ DecryptTokens(w) \/ PrepareSubject(w) \/ Fail(w)
             \/ EncodeItems(w) \/ SubjectExists(w) \/ Respond(w)
    BY <2>1, <1>a DEF AuthorizeDecodeBatch, TokenContext, OpenSubject, EncodeItems,
       ReadTokens, DecryptTokens, PrepareSubject, Fail, SubjectExists, Respond, storage
  <2>2. CASE ConsumeTokens(w) \/ DeleteToken(w)
    BY <2>2, <1>a DEF ConsumeTokens, DeleteToken, DeleteRows
  <2>3. CASE SaveTokens(w)
    <3>1. CASE ~GuardHolds(c)
      BY <2>3, <3>1, <1>a DEF SaveTokens
    <3>2. CASE GuardHolds(c)
      <4> SUFFICES ASSUME NEW r \in rows', r.subject # NoSubject
                   PROVE  subjects[r.subject] # NoSeed /\ subjects[r.subject] = r.hashid.seed
        BY <2>3 DEF RowsUnderCurrentSeed, SaveTokens
      <4>1. CASE r \in rows
        BY <4>1 DEF RowsUnderCurrentSeed
      <4>2. CASE r \notin rows
        <5>1. PICK t \in ItemsOf(c) : r = Row(c, t)
          BY <2>3, <3>2, <4>2 DEF SaveTokens
        <5>2. r.subject = c.subject /\ r.hashid.seed = c.seed
          BY <5>1 DEF Row, HashId
        <5>3. c.seed # NoSeed
          BY <2>3, <2>0, <5>2 DEF SaveTokens, HandlerOK
        <5> QED  BY <3>2, <5>2, <5>3 DEF GuardHolds
      <4> QED  BY <4>1, <4>2
    <3> QED  BY <3>1, <3>2
  <2>4. CASE SaveSubject(w)
    <3> SUFFICES ASSUME NEW r \in rows, r.subject # NoSubject
                 PROVE  subjects'[r.subject] # NoSeed /\ subjects'[r.subject] = r.hashid.seed
      BY <2>4 DEF RowsUnderCurrentSeed, SaveSubject
    <3>1. subjects[r.subject] # NoSeed /\ subjects[r.subject] = r.hashid.seed
      BY DEF RowsUnderCurrentSeed
    <3>2. r.subject \in Subject
      BY DEF TypeInv, TypeOK, Rows
    <3>3. subjects'[r.subject] = subjects[r.subject]
      BY <2>4, <3>1, <3>2 DEF SaveSubject, Inserts, TypeInv, TypeOK
    <3> QED  BY <3>1, <3>3
  <2>5. CASE PurgeSubject(w)
    <3> SUFFICES ASSUME NEW r \in rows', r.subject # NoSubject
                 PROVE  subjects'[r.subject] # NoSeed /\ subjects'[r.subject] = r.hashid.seed
      BY DEF RowsUnderCurrentSeed
    <3>1. r \in rows /\ r.subject # c.subject
      BY <2>5 DEF PurgeSubject, RowsOf
    <3>2. r.subject \in Subject
      BY <3>1 DEF TypeInv, TypeOK, Rows
    <3>3. subjects'[r.subject] = subjects[r.subject]
      BY <2>5, <3>1, <3>2 DEF PurgeSubject, TypeInv, TypeOK
    <3> QED  BY <3>1, <3>3 DEF RowsUnderCurrentSeed
  <2> QED  BY <1>3, <2>1, <2>2, <2>3, <2>4, <2>5 DEF Step
<1> QED  BY <1>1, <1>2, <1>3 DEF Next

\* A stored row of a subject always belongs to the subject's current seed:
\* the generation guard of save_tokens_batch_guarded and the purge of
\* delete_subject leave no row of an earlier generation behind.
THEOREM RowsUnderCurrentSeedHolds == Spec => []RowsUnderCurrentSeed
<1>1. Init => TypeInv /\ RowsUnderCurrentSeed
  BY TypeInvInit DEF Init, RowsUnderCurrentSeed
<1>2. TypeInv /\ RowsUnderCurrentSeed /\ [Next]_vars => (TypeInv /\ RowsUnderCurrentSeed)'
  BY TypeInvStep, RowsStep
<1> QED  BY <1>1, <1>2, PTL DEF Spec
=============================================================================
