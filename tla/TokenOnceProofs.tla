--------------------------- MODULE TokenOnceProofs ---------------------------
(***************************************************************************)
(* Proof that the plaintext of a one-time token leaves the service at most *)
(* once, for any number of handlers.                                       *)
(*                                                                         *)
(* A token is always in at most one place: about to be saved by the handler*)
(* that drew it, in one row, in the hands of the one handler that has      *)
(* removed its row and is about to answer, or delivered.                   *)
(***************************************************************************)
EXTENDS TokenVaultProofs

USE VaultAssumption

\* The handler has drawn token t and not saved it yet.
Saving(c, t) == c.pc = "save" /\ t \in ItemsOf(c)

\* The handler is about to answer with the plaintext of a one-time token.
ReleasesOneTime(c) == c.pc = "respond" /\ c.op \in DecodeOps /\ c.profile \in OneTime
Releasing(c, t) == ReleasesOneTime(c) /\ t \in ItemsOf(c)

Busy(c, t) == Saving(c, t) \/ Releasing(c, t)

HasRow(t) == \E r \in rows : r.hashid.token = t

Distinct(c) == \A i, j \in DOMAIN c.items : c.items[i] = c.items[j] => i = j

OpsOK(c) ==
    /\ c.pc = "save" => c.op \in EncodeOps
    /\ c.pc = "purge" => c.op = "subject_delete"
    /\ ReleasesOneTime(c) => Distinct(c)

RowsOnce ==
    \A r \in rows :
        /\ r.hashid.token <= tokensDrawn
        /\ delivered[r.hashid.token] = 0
        /\ \A q \in rows : q.hashid.token = r.hashid.token => q = r

WorkersOnce ==
    \A w \in Workers, t \in Token :
        Busy(worker[w], t) =>
            /\ t <= tokensDrawn
            /\ ~HasRow(t)
            /\ delivered[t] = 0
            /\ \A v \in Workers : Busy(worker[v], t) => v = w

DeliveredOnce ==
    \A t \in Token : delivered[t] <= 1 /\ (delivered[t] # 0 => t <= tokensDrawn)

\* The inductive invariant.
OnceInv ==
    /\ TypeInv
    /\ \A w \in Workers : OpsOK(worker[w])
    /\ RowsOnce
    /\ WorkersOnce
    /\ DeliveredOnce
-----------------------------------------------------------------------------
\* A step that saves, draws and delivers nothing, and whose handler does not
\* become busy with a token, may still remove rows.
LEMMA QuietStep ==
    ASSUME OnceInv, TypeInv', NEW w \in Workers, NEW d, OpsOK(d),
           worker' = [worker EXCEPT ![w] = d],
           \A t \in Token : ~Busy(d, t),
           rows' \subseteq rows,
           tokensDrawn' = tokensDrawn, delivered' = delivered
    PROVE  OnceInv'
<1>1. \A v \in Workers : worker'[v] = IF v = w THEN d ELSE worker[v]
  BY DEF OnceInv, TypeInv, TypeOK
<1>2. \A v \in Workers : OpsOK(worker'[v])
  BY <1>1 DEF OnceInv
<1>3. RowsOnce'
  BY DEF OnceInv, RowsOnce
<1>4. \A t : HasRow(t)' => HasRow(t)
  BY DEF HasRow
<1>5. \A v \in Workers, t \in Token : Busy(worker'[v], t) => v # w /\ Busy(worker[v], t)
  BY <1>1
<1>6. WorkersOnce'
  <2> SUFFICES ASSUME NEW v \in Workers, NEW t \in Token, Busy(worker'[v], t)
               PROVE  /\ t <= tokensDrawn' /\ ~HasRow(t)' /\ delivered'[t] = 0
                      /\ \A u \in Workers : Busy(worker'[u], t) => u = v
    BY DEF WorkersOnce, Busy, Saving, Releasing, ReleasesOneTime, ItemsOf
  <2>1. /\ t <= tokensDrawn /\ ~HasRow(t) /\ delivered[t] = 0
        /\ \A u \in Workers : Busy(worker[u], t) => u = v
    BY <1>5 DEF OnceInv, WorkersOnce
  <2> QED  BY <2>1, <1>4, <1>5
<1>7. DeliveredOnce'
  BY DEF OnceInv, DeliveredOnce
<1> QED  BY <1>2, <1>3, <1>6, <1>7 DEF OnceInv, OpsOK, ReleasesOneTime, Distinct

\* A handler that has returned holds no token.
LEMMA IdleQuiet == OpsOK(Idle) /\ \A t \in Token : ~Busy(Idle, t)
  BY DEF Idle, OpsOK, ReleasesOneTime, Busy, Saving, Releasing

\* A handler that returns without its response lets go of its tokens.
LEMMA ReturnQuiet ==
    ASSUME OnceInv, TypeInv', NEW w \in Workers, Return(w),
           rows' \subseteq rows, tokensDrawn' = tokensDrawn, delivered' = delivered
    PROVE  OnceInv'
  BY IdleQuiet, QuietStep DEF Return

\* Moving on to an await where nothing is saved or answered.
LEMMA GotoQuiet ==
    ASSUME OnceInv, TypeInv', NEW w \in Workers, NEW d,
           worker' = [worker EXCEPT ![w] = d],
           d.pc \notin {"save", "respond", "purge"},
           rows' \subseteq rows, tokensDrawn' = tokensDrawn, delivered' = delivered
    PROVE  OnceInv'
<1>1. OpsOK(d) /\ \A t \in Token : ~Busy(d, t)
  BY DEF OpsOK, ReleasesOneTime, Busy, Saving, Releasing
<1> QED  BY <1>1, QuietStep

\* Moving on to an answer that releases no one-time plaintext.
LEMMA AnswerQuiet ==
    ASSUME OnceInv, TypeInv', NEW w \in Workers, NEW d,
           worker' = [worker EXCEPT ![w] = d],
           d.pc = "respond", d.op \notin DecodeOps \/ d.profile \notin OneTime,
           rows' \subseteq rows, tokensDrawn' = tokensDrawn, delivered' = delivered
    PROVE  OnceInv'
<1>1. OpsOK(d) /\ \A t \in Token : ~Busy(d, t)
  BY DEF OpsOK, ReleasesOneTime, Busy, Saving, Releasing
<1> QED  BY <1>1, QuietStep
-----------------------------------------------------------------------------
\* The start of a handler.
LEMMA OnceStart ==
    ASSUME OnceInv, TypeInv', NEW w \in Workers, Start(w)
    PROVE  OnceInv'
<1>0. ASSUME NEW c, Begin(w, c), OpsOK(c), c.pc \notin {"save", "respond"}
      PROVE  OnceInv'
  <2>1. \A t \in Token : ~Busy(c, t)
    BY <1>0 DEF Busy, Saving, Releasing, ReleasesOneTime
  <2> QED  BY <1>0, <2>1, QuietStep DEF Begin, storage, drawn, history
<1>1. CASE BeginEncode(w) \/ BeginEncodeBatch(w) \/ BeginDelete(w)
  BY <1>1, <1>0 DEF BeginEncode, BeginEncodeBatch, BeginDelete, Idle, OpsOK, ReleasesOneTime
<1>2. CASE BeginDecode(w)
  BY <1>2, <1>0 DEF BeginDecode, Idle, OpsOK, ReleasesOneTime
<1>3. CASE BeginDecodeBatch(w)
  BY <1>3, <1>0 DEF BeginDecodeBatch, Idle, OpsOK, ReleasesOneTime
<1>4. CASE BeginSubjectCreate(w) \/ BeginSubjectDelete(w)
  BY <1>4, <1>0 DEF BeginSubjectCreate, BeginSubjectDelete, Idle, OpsOK, ReleasesOneTime
<1> QED  BY <1>1, <1>2, <1>3, <1>4 DEF Start

\* Encode draws tokens nobody has seen.
LEMMA OnceEncode ==
    ASSUME OnceInv, TypeInv', NEW w \in Workers, EncodeItems(w)
    PROVE  OnceInv'
<1> DEFINE c == worker[w]
           d == [c EXCEPT !.pc = "save", !.items = NewTokens(c)]
<1>0. c \in Contexts /\ worker \in [Workers -> Contexts] /\ tokensDrawn \in Nat
  BY DEF OnceInv, TypeInv, TypeOK
<1>1. CASE Return(w) /\ UNCHANGED tokensDrawn
  BY <1>1, ReturnQuiet DEF EncodeItems, storage, history
<1>2. CASE tokensDrawn' = tokensDrawn + c.size /\ worker' = [worker EXCEPT ![w] = d]
  <2>1. rows' = rows /\ delivered' = delivered /\ c.op \in EncodeOps /\ c.size \in Nat
    BY <1>0 DEF EncodeItems, storage, history, Contexts
  <2>2. d.pc = "save" /\ d.op \in EncodeOps /\ d.items = NewTokens(c)
    BY <1>0, <2>1 DEF Contexts
  <2> HIDE DEF d
  <2>3. \A v \in Workers : worker'[v] = IF v = w THEN d ELSE worker[v]
    BY <1>0, <1>2
  <2>4. \A v \in Workers : OpsOK(worker'[v])
    BY <2>2, <2>3 DEF OnceInv, OpsOK, ReleasesOneTime
  <2>5. \A t \in ItemsOf(d) : t > tokensDrawn /\ t <= tokensDrawn'
    BY <1>0, <1>2, <2>1, <2>2 DEF ItemsOf, NewTokens
  <2>6. RowsOnce'
    BY <1>0, <1>2, <2>1 DEF OnceInv, RowsOnce, TypeInv, TypeOK, Rows, HashIds, Token
  <2>7. \A t \in Token : Busy(d, t) => t \in ItemsOf(d)
    BY DEF Busy, Saving, Releasing
  <2>8. \A t \in Token : HasRow(t)' = HasRow(t) /\ (HasRow(t) => t <= tokensDrawn)
    BY <2>1 DEF HasRow, OnceInv, RowsOnce
  <2>9. WorkersOnce'
    <3> SUFFICES ASSUME NEW v \in Workers, NEW t \in Token, Busy(worker'[v], t)
                 PROVE  /\ t <= tokensDrawn' /\ ~HasRow(t)' /\ delivered'[t] = 0
                        /\ \A u \in Workers : Busy(worker'[u], t) => u = v
      BY DEF WorkersOnce, Busy, Saving, Releasing, ReleasesOneTime, ItemsOf
    <3>0. t \in Nat
      BY DEF Token
    <3>1. CASE v = w
      <4>1. t > tokensDrawn /\ t <= tokensDrawn'
        BY <3>1, <2>3, <2>5, <2>7
      <4>2. \A u \in Workers : Busy(worker[u], t) => t <= tokensDrawn
        BY DEF OnceInv, WorkersOnce
      <4>3. delivered[t] = 0
        BY <4>1, <3>0, <1>0 DEF OnceInv, DeliveredOnce
      <4>4. ~HasRow(t)
        BY <4>1, <3>0, <1>0, <2>8
      <4>5. ASSUME NEW u \in Workers, Busy(worker'[u], t)
            PROVE  u = v
        BY <3>0, <3>1, <4>1, <4>2, <4>5, <1>0, <2>3
      <4> QED  BY <2>1, <2>8, <4>1, <4>3, <4>4, <4>5
    <3>2. CASE v # w
      <4>1. Busy(worker[v], t)
        BY <3>2, <2>3
      <4>2. /\ t <= tokensDrawn /\ ~HasRow(t) /\ delivered[t] = 0
            /\ \A u \in Workers : Busy(worker[u], t) => u = v
        BY <4>1 DEF OnceInv, WorkersOnce
      <4>3. ~Busy(d, t)
        BY <4>2, <3>0, <1>0, <2>5, <2>7
      <4>4. t <= tokensDrawn'
        BY <4>2, <3>0, <1>0, <1>2, <2>1
      <4> QED  BY <4>2, <4>3, <4>4, <2>1, <2>3, <2>8
    <3> QED  BY <3>1, <3>2
  <2>10. DeliveredOnce'
    BY <1>0, <1>2, <2>1 DEF OnceInv, DeliveredOnce, Token
  <2> QED  BY <2>4, <2>6, <2>9, <2>10 DEF OnceInv, OpsOK, ReleasesOneTime, Distinct
<1> QED  BY <1>1, <1>2 DEF EncodeItems

\* Saving turns the tokens a handler holds into rows.
LEMMA OnceSave ==
    ASSUME OnceInv, TypeInv', NEW w \in Workers, SaveTokens(w)
    PROVE  OnceInv'
<1> DEFINE c == worker[w]
           d == [c EXCEPT !.pc = "respond"]
<1>0. c \in Contexts /\ worker \in [Workers -> Contexts] /\ OpsOK(c) /\ ItemsOf(c) \subseteq Token
  BY ItemsOK DEF OnceInv, TypeInv, TypeOK
<1>a. c.pc = "save" /\ c.op \in EncodeOps /\ tokensDrawn' = tokensDrawn /\ delivered' = delivered
  BY <1>0 DEF SaveTokens, OpsOK, drawn, history
<1>1. CASE Return(w) /\ UNCHANGED rows
  BY <1>1, <1>a, ReturnQuiet
<1>2. CASE rows' = rows \cup {Row(c, t) : t \in ItemsOf(c)} /\ Goto(w, "respond")
  <2>1. d.pc = "respond" /\ d.op \notin DecodeOps
    BY <1>0, <1>a DEF Contexts, EncodeOps, DecodeOps
  <2>2. \A v \in Workers : worker'[v] = IF v = w THEN d ELSE worker[v]
    BY <1>0, <1>2 DEF Goto
  <2> HIDE DEF d
  <2>3. \A t \in Token : ~Busy(d, t)
    BY <2>1 DEF Busy, Saving, Releasing, ReleasesOneTime
  <2>4. \A v \in Workers : OpsOK(worker'[v])
    BY <2>1, <2>2 DEF OnceInv, OpsOK, ReleasesOneTime
  <2>5. \A t \in ItemsOf(c) :
          /\ t <= tokensDrawn /\ ~HasRow(t) /\ delivered[t] = 0
          /\ \A v \in Workers : Busy(worker[v], t) => v = w
    BY <1>0, <1>a DEF OnceInv, WorkersOnce, Busy, Saving
  <2>6. \A t \in ItemsOf(c) : Row(c, t).hashid.token = t
    BY DEF Row, HashId
  <2>7. RowsOnce'
    <3> SUFFICES ASSUME NEW r \in rows'
                 PROVE  /\ r.hashid.token <= tokensDrawn
                        /\ delivered[r.hashid.token] = 0
                        /\ \A q \in rows' : q.hashid.token = r.hashid.token => q = r
      BY <1>a DEF RowsOnce
    <3>1. CASE r \in rows
      <4>1. \A t \in ItemsOf(c) : t # r.hashid.token
        BY <3>1, <2>5 DEF HasRow
      <4> QED  BY <3>1, <4>1, <1>2, <2>6 DEF OnceInv, RowsOnce
    <3>2. CASE r \notin rows
      <4>1. PICK t \in ItemsOf(c) : r = Row(c, t)
        BY <3>2, <1>2
      <4>2. r.hashid.token = t
        BY <4>1, <2>6
      <4>3. ASSUME NEW q \in rows', q.hashid.token = t
            PROVE  q = r
        <5>1. q \notin rows
          BY <4>3, <2>5 DEF HasRow
        <5>2. PICK u \in ItemsOf(c) : q = Row(c, u)
          BY <5>1, <1>2
        <5>3. u = t
          BY <5>2, <4>3, <2>6
        <5> QED  BY <5>2, <5>3, <4>1
      <4> QED  BY <4>2, <4>3, <2>5
    <3> QED  BY <3>1, <3>2
  <2>8. \A t \in Token : HasRow(t)' => HasRow(t) \/ t \in ItemsOf(c)
    BY <1>2, <2>6 DEF HasRow
  <2>9. WorkersOnce'
    <3> SUFFICES ASSUME NEW v \in Workers, NEW t \in Token, Busy(worker'[v], t)
                 PROVE  /\ t <= tokensDrawn' /\ ~HasRow(t)' /\ delivered'[t] = 0
                        /\ \A u \in Workers : Busy(worker'[u], t) => u = v
      BY DEF WorkersOnce, Busy, Saving, Releasing, ReleasesOneTime, ItemsOf
    <3>1. v # w /\ Busy(worker[v], t)
      BY <2>2, <2>3
    <3>2. /\ t <= tokensDrawn /\ ~HasRow(t) /\ delivered[t] = 0
          /\ \A u \in Workers : Busy(worker[u], t) => u = v
      BY <3>1 DEF OnceInv, WorkersOnce
    <3>3. t \notin ItemsOf(c)
      BY <3>1, <2>5
    <3> QED  BY <3>2, <3>3, <2>2, <2>3, <2>8, <1>a
  <2>10. DeliveredOnce'
    BY <1>a DEF OnceInv, DeliveredOnce
  <2> QED  BY <2>4, <2>7, <2>9, <2>10 DEF OnceInv, OpsOK, ReleasesOneTime, Distinct
<1> QED  BY <1>1, <1>2 DEF SaveTokens

\* Removing rows makes the handler the only holder of their tokens.
LEMMA OnceDelete ==
    ASSUME OnceInv, TypeInv', NEW w \in Workers, DeleteRows(w),
           tokensDrawn' = tokensDrawn, delivered' = delivered
    PROVE  OnceInv'
<1> DEFINE c == worker[w]
           d == [c EXCEPT !.pc = "respond", !.gone = ItemsOf(c)]
<1>0. c \in Contexts /\ worker \in [Workers -> Contexts] /\ ItemsOf(c) \subseteq Token
  BY ItemsOK DEF OnceInv, TypeInv, TypeOK
<1>1. CASE Return(w) /\ UNCHANGED rows
  BY <1>1, ReturnQuiet
<1>2. CASE DeletesAll(c) /\ rows' = rows \ Deletable(c) /\ worker' = [worker EXCEPT ![w] = d]
  <2>1. d.pc = "respond" /\ d.items = c.items
    BY <1>0 DEF Contexts
  <2>2. \A v \in Workers : worker'[v] = IF v = w THEN d ELSE worker[v]
    BY <1>0, <1>2
  <2> HIDE DEF d
  <2>3. ItemsOf(d) = ItemsOf(c) /\ Distinct(d)
    BY <1>2, <2>1 DEF ItemsOf, Distinct, DeletesAll
  <2>4. \A t \in Token : Busy(d, t) => t \in ItemsOf(c)
    BY <2>3 DEF Busy, Saving, Releasing
  <2>5. \A v \in Workers : OpsOK(worker'[v])
    BY <2>1, <2>2, <2>3 DEF OnceInv, OpsOK
  <2>6. \A t \in ItemsOf(c) : \E r \in rows : r \in Deletable(c) /\ r.hashid.token = t
    <3> TAKE t \in ItemsOf(c)
    <3>1. PICK r \in Deletable(c) : r.hashid = HashId(c, t)
      BY <1>2 DEF DeletesAll
    <3>2. r \in rows
      BY <3>1, Zenon DEF Deletable
    <3>3. HashId(c, t).token = t
      BY DEF HashId
    <3> QED  BY <3>1, <3>2, <3>3
  <2>7. \A t \in ItemsOf(c) :
          /\ t <= tokensDrawn /\ HasRow(t) /\ delivered[t] = 0 /\ ~HasRow(t)'
    <3> TAKE t \in ItemsOf(c)
    <3>1. PICK r \in rows : r \in Deletable(c) /\ r.hashid.token = t
      BY <2>6
    <3>2. /\ t <= tokensDrawn /\ delivered[t] = 0
          /\ \A q \in rows : q.hashid.token = t => q = r
      BY <3>1 DEF OnceInv, RowsOnce
    <3> QED  BY <3>1, <3>2, <1>2 DEF HasRow
  <2>8. RowsOnce'
    BY <1>2 DEF OnceInv, RowsOnce
  <2>9. \A t : HasRow(t)' => HasRow(t)
    BY <1>2 DEF HasRow
  <2>10. WorkersOnce'
    <3> SUFFICES ASSUME NEW v \in Workers, NEW t \in Token, Busy(worker'[v], t)
                 PROVE  /\ t <= tokensDrawn' /\ ~HasRow(t)' /\ delivered'[t] = 0
                        /\ \A u \in Workers : Busy(worker'[u], t) => u = v
      BY DEF WorkersOnce, Busy, Saving, Releasing, ReleasesOneTime, ItemsOf
    <3>1. CASE v = w
      <4>1. t \in ItemsOf(c)
        BY <3>1, <2>2, <2>4
      <4>2. \A u \in Workers : ~Busy(worker[u], t)
        BY <4>1, <2>7 DEF OnceInv, WorkersOnce
      <4> QED  BY <3>1, <4>1, <4>2, <2>2, <2>7
    <3>2. CASE v # w
      <4>1. Busy(worker[v], t)
        BY <3>2, <2>2
      <4>2. /\ t <= tokensDrawn /\ ~HasRow(t) /\ delivered[t] = 0
            /\ \A u \in Workers : Busy(worker[u], t) => u = v
        BY <4>1 DEF OnceInv, WorkersOnce
      <4>3. ~Busy(d, t)
        BY <4>2, <2>4, <2>7
      <4> QED  BY <4>2, <4>3, <2>2, <2>9
    <3> QED  BY <3>1, <3>2
  <2>11. DeliveredOnce'
    BY DEF OnceInv, DeliveredOnce
  <2> QED  BY <2>5, <2>8, <2>10, <2>11 DEF OnceInv, OpsOK, ReleasesOneTime, Distinct
<1> QED  BY <1>1, <1>2 DEF DeleteRows

\* A request whose items are distinct holds each of them once.
LEMMA OccurrencesDistinct ==
    ASSUME NEW c, Distinct(c), NEW t
    PROVE  Occurrences(c, t) = IF t \in ItemsOf(c) THEN 1 ELSE 0
<1> DEFINE S == {i \in DOMAIN c.items : c.items[i] = t}
<1>1. CASE t \in ItemsOf(c)
  <2>1. PICK i \in DOMAIN c.items : c.items[i] = t
    BY <1>1 DEF ItemsOf
  <2>2. S = {i}
    BY <2>1 DEF Distinct
  <2>3. Cardinality({i}) = 1
    BY FS_Singleton
  <2> QED  BY <1>1, <2>2, <2>3 DEF Occurrences
<1>2. CASE t \notin ItemsOf(c)
  <2>1. S = {}
    BY <1>2 DEF ItemsOf
  <2>2. Cardinality({}) = 0
    BY FS_EmptySet
  <2> QED  BY <1>2, <2>1, <2>2 DEF Occurrences
<1> QED  BY <1>1, <1>2

\* The answer delivers what its handler alone held.
LEMMA OnceRespond ==
    ASSUME OnceInv, TypeInv', NEW w \in Workers, Respond(w)
    PROVE  OnceInv'
<1> DEFINE c == worker[w]
<1>0. /\ c \in Contexts /\ worker \in [Workers -> Contexts] /\ OpsOK(c)
      /\ c.pc = "respond" /\ Return(w) /\ rows' = rows /\ tokensDrawn' = tokensDrawn
  BY DEF OnceInv, TypeInv, TypeOK, Respond, storage, drawn
<1>1. CASE ~(c.op \in DecodeOps /\ c.profile \in OneTime)
  <2>1. delivered' = delivered
    BY <1>1 DEF Respond
  <2> QED  BY <2>1, <1>0, ReturnQuiet
<1>2. CASE c.op \in DecodeOps /\ c.profile \in OneTime
  <2>1. Distinct(c) /\ ReleasesOneTime(c)
    BY <1>0, <1>2 DEF OpsOK, ReleasesOneTime
  <2>2. \A t \in Token : delivered'[t] = UpToTwo(delivered[t] + Occurrences(c, t))
    BY <1>2 DEF Respond
  <2>3. \A t \in ItemsOf(c) \cap Token :
          /\ t <= tokensDrawn /\ ~HasRow(t) /\ delivered[t] = 0
          /\ \A v \in Workers : Busy(worker[v], t) => v = w
    BY <2>1 DEF OnceInv, WorkersOnce, Busy, Releasing
  <2>4. \A t \in Token : delivered'[t] = IF t \in ItemsOf(c) THEN 1 ELSE delivered[t]
    <3> TAKE t \in Token
    <3>1. delivered[t] \in {0, 1}
      BY DEF OnceInv, DeliveredOnce, TypeInv, TypeOK
    <3>2. CASE t \in ItemsOf(c)
      BY <3>2, <2>1, <2>2, <2>3, OccurrencesDistinct DEF UpToTwo
    <3>3. CASE t \notin ItemsOf(c)
      BY <3>1, <3>3, <2>1, <2>2, OccurrencesDistinct DEF UpToTwo
    <3> QED  BY <3>2, <3>3
  <2>5. \A v \in Workers : worker'[v] = IF v = w THEN Idle ELSE worker[v]
    BY <1>0 DEF Return
  <2>6. \A v \in Workers : OpsOK(worker'[v])
    BY <2>5, IdleQuiet DEF OnceInv
  <2>7. RowsOnce'
    <3>1. \A r \in rows : r.hashid.token \in Token
      BY DEF OnceInv, TypeInv, TypeOK, Rows, HashIds
    <3>2. \A r \in rows : r.hashid.token \notin ItemsOf(c)
      BY <3>1, <2>3 DEF HasRow
    <3> QED  BY <3>1, <3>2, <1>0, <2>4 DEF OnceInv, RowsOnce
  <2>8. WorkersOnce'
    <3> SUFFICES ASSUME NEW v \in Workers, NEW t \in Token, Busy(worker'[v], t)
                 PROVE  /\ t <= tokensDrawn' /\ ~HasRow(t)' /\ delivered'[t] = 0
                        /\ \A u \in Workers : Busy(worker'[u], t) => u = v
      BY DEF WorkersOnce, Busy, Saving, Releasing, ReleasesOneTime, ItemsOf
    <3>1. v # w /\ Busy(worker[v], t)
      BY <2>5, IdleQuiet
    <3>2. /\ t <= tokensDrawn /\ ~HasRow(t) /\ delivered[t] = 0
          /\ \A u \in Workers : Busy(worker[u], t) => u = v
      BY <3>1 DEF OnceInv, WorkersOnce
    <3>3. t \notin ItemsOf(c)
      BY <3>1, <2>3
    <3>4. ~HasRow(t)'
      BY <3>2, <1>0 DEF HasRow
    <3> QED  BY <3>2, <3>3, <3>4, <2>4, <2>5, IdleQuiet, <1>0
  <2>9. DeliveredOnce'
    BY <2>3, <2>4, <1>0 DEF OnceInv, DeliveredOnce
  <2> QED  BY <2>6, <2>7, <2>8, <2>9 DEF OnceInv, OpsOK, ReleasesOneTime, Distinct
<1> QED  BY <1>1, <1>2
-----------------------------------------------------------------------------
\* One step of one handler keeps the invariant.
LEMMA OnceStep ==
    ASSUME OnceInv, TypeInv', NEW w \in Workers, Step(w)
    PROVE  OnceInv'
<1> DEFINE c == worker[w]
<1>0. c \in Contexts /\ OpsOK(c)
  BY DEF OnceInv, TypeInv, TypeOK
<1>a. ASSUME NEW l \in PCs, Goto(w, l), l \notin {"save", "respond", "purge"},
             rows' = rows, tokensDrawn' = tokensDrawn, delivered' = delivered
      PROVE  OnceInv'
  <2>1. [c EXCEPT !.pc = l].pc = l
    BY <1>0 DEF Contexts
  <2> QED  BY <1>a, <2>1, GotoQuiet DEF Goto
<1>1. CASE AuthorizeDecodeBatch(w) \/ TokenContext(w) \/ PrepareSubject(w) \/ Fail(w)
  BY <1>1, <1>a, ReturnQuiet DEF AuthorizeDecodeBatch, TokenContext, PrepareSubject, Fail,
     storage, drawn, history, PCs
<1>2. CASE OpenSubject(w)
  <2> DEFINE d == [c EXCEPT !.pc = "ready", !.seed = subjects[c.subject]]
  <2>1. d.pc = "ready"
    BY <1>0 DEF Contexts
  <2>2. Return(w) \/ worker' = [worker EXCEPT ![w] = d]
    BY <1>2 DEF OpenSubject
  <2> QED  BY <1>2, <2>1, <2>2, GotoQuiet, ReturnQuiet DEF OpenSubject, storage, drawn, history
<1>3. CASE ReadTokens(w)
  <2> DEFINE found == [i \in DOMAIN c.items |-> CHOOSE r \in RowsFor(c, i) : TRUE]
             d == [c EXCEPT !.pc = "decrypt", !.found = found]
  <2>1. d.pc = "decrypt"
    BY <1>0 DEF Contexts
  <2>2. Return(w) \/ worker' = [worker EXCEPT ![w] = d]
    BY <1>3 DEF ReadTokens
  <2> QED  BY <1>3, <2>1, <2>2, GotoQuiet, ReturnQuiet DEF ReadTokens, storage, drawn, history
<1>4. CASE DecryptTokens(w)
  <2> DEFINE d == [c EXCEPT !.pc = "respond"]
  <2>1. d.pc = "respond" /\ d.profile = c.profile
    BY <1>0 DEF Contexts
  <2>2. \/ Return(w)
        \/ Goto(w, "consume")
        \/ c.profile \notin OneTime /\ worker' = [worker EXCEPT ![w] = d]
    BY <1>4 DEF DecryptTokens, Goto
  <2>3. rows' = rows /\ tokensDrawn' = tokensDrawn /\ delivered' = delivered
    BY <1>4 DEF DecryptTokens, storage, drawn, history
  <2> HIDE DEF d
  <2> QED  BY <2>1, <2>2, <2>3, <1>a, AnswerQuiet, ReturnQuiet DEF PCs
<1>5. CASE SubjectExists(w)
  <2> DEFINE d == [c EXCEPT !.pc = "insert", !.seed = seedsDrawn + 1]
  <2>1. d.pc = "insert"
    BY <1>0 DEF Contexts
  <2>2. Return(w) \/ worker' = [worker EXCEPT ![w] = d]
    BY <1>5 DEF SubjectExists
  <2> QED  BY <1>5, <2>1, <2>2, GotoQuiet, ReturnQuiet DEF SubjectExists, storage, history
<1>6. CASE SaveSubject(w)
  BY <1>6, ReturnQuiet DEF SaveSubject, drawn, history
<1>7. CASE PurgeSubject(w)
  <2> DEFINE d == [c EXCEPT !.pc = "respond",
                            !.gone = {r.hashid.token : r \in RowsOf(c.subject)}]
  <2>1. d.pc = "respond" /\ d.op \notin DecodeOps
    BY <1>0, <1>7 DEF Contexts, PurgeSubject, OpsOK, DecodeOps
  <2>2. Return(w) \/ worker' = [worker EXCEPT ![w] = d]
    BY <1>7 DEF PurgeSubject
  <2>3. rows' \subseteq rows /\ tokensDrawn' = tokensDrawn /\ delivered' = delivered
    BY <1>7 DEF PurgeSubject, drawn, history
  <2> HIDE DEF d
  <2> QED  BY <2>1, <2>2, <2>3, AnswerQuiet, ReturnQuiet
<1>8. CASE ConsumeTokens(w) \/ DeleteToken(w)
  BY <1>8, OnceDelete DEF ConsumeTokens, DeleteToken, drawn, history
<1> QED
  BY <1>1, <1>2, <1>3, <1>4, <1>5, <1>6, <1>7, <1>8, OnceEncode, OnceSave, OnceRespond
  DEF Step

\* With nothing encoded yet the invariant holds.
LEMMA OnceInvInit == Init => OnceInv
<1> SUFFICES ASSUME Init PROVE OnceInv
  OBVIOUS
<1>1. \A w \in Workers : worker[w] = Idle
  BY DEF Init
<1>2. rows = {} /\ \A t \in Token : delivered[t] = 0
  BY DEF Init
<1> QED
  BY <1>1, <1>2, TypeInvInit, IdleQuiet DEF OnceInv, RowsOnce, WorkersOnce, DeliveredOnce

\* Every step of the vault keeps the invariant.
LEMMA OnceInvStep == OnceInv /\ [Next]_vars => OnceInv'
<1> SUFFICES ASSUME OnceInv, [Next]_vars PROVE OnceInv'
  OBVIOUS
<1>0. TypeInv'
  BY TypeInvStep DEF OnceInv
<1>1. CASE UNCHANGED vars \/ ReplaceKey
  <2>1. rows' = rows /\ worker' = worker /\ tokensDrawn' = tokensDrawn /\ delivered' = delivered
    BY <1>1 DEF vars, ReplaceKey, storage, drawn, history
  <2>2. \A w \in Workers : OpsOK(worker'[w])
    BY <2>1 DEF OnceInv
  <2>3. RowsOnce'
    BY <2>1 DEF OnceInv, RowsOnce
  <2>4. \A t \in Token : HasRow(t)' <=> HasRow(t)
    BY <2>1 DEF HasRow
  <2>5. WorkersOnce'
    BY <2>1, <2>4 DEF OnceInv, WorkersOnce
  <2>6. DeliveredOnce'
    BY <2>1, <2>4 DEF OnceInv, DeliveredOnce
  <2> QED  BY <1>0, <2>2, <2>3, <2>5, <2>6 DEF OnceInv
<1> QED  BY <1>0, <1>1, OnceStart, OnceStep DEF Next

\* The plaintext of a one-time token is delivered at most once, however many
\* decodes, batch decodes, deletes and subject deletions of it race: the row is
\* removed, and the removal confirmed by the storage, before the answer.
THEOREM OneTimeDeliveredOnceHolds == Spec => []OneTimeDeliveredOnce
<1>1. OnceInv => OneTimeDeliveredOnce
  BY DEF OnceInv, DeliveredOnce, OneTimeDeliveredOnce
<1> QED  BY <1>1, OnceInvInit, OnceInvStep, PTL DEF Spec
=============================================================================
