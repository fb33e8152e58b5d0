---------------------------- MODULE RbfDB_proofs ----------------------------
(***************************************************************************)
(* Theorems about RbfDB, for every set of transactions, every file size,   *)
(* every configuration and any number of commits, crashes and I/O errors.  *)
(***************************************************************************)
EXTENDS RbfDB, TLAPS, FiniteSetTheorems, NaturalsInduction, WellFoundedInduction

-----------------------------------------------------------------------------
(* The order of pages in the WAL *)

\* A set of numbers has a least element.
LEMMA LeastElement ==
    ASSUME NEW S \in SUBSET Nat, S # {}
    PROVE  \E m \in S : \A n \in S : m <= n
<1>1. \E m \in S : \A n \in S : ~(<<n, m>> \in OpToRel(<, Nat))
  BY NatLessThanWellFounded, WFMin
<1>2. PICK m \in S : \A n \in S : ~(<<n, m>> \in OpToRel(<, Nat))
  BY <1>1
<1>3. ASSUME NEW n \in S PROVE m <= n
  <2>1. ~(n < m)
    BY <1>2 DEF OpToRel
  <2> QED BY <2>1
<1> QED BY <1>3

\* Every position below the size of a finite set of pages is taken by one.
LEMMA NthExists ==
    ASSUME NEW S \in SUBSET Nat, IsFiniteSet(S), NEW i \in 1..Cardinality(S)
    PROVE  \E p \in S : Cardinality({q \in S : q < p}) = i - 1
<1> DEFINE Below(p) == {q \in S : q < p}
           Bad == {k \in 1..Cardinality(S) : \A p \in S : Cardinality(Below(p)) # k - 1}
<1>1. SUFFICES ASSUME Bad # {} PROVE FALSE
  OBVIOUS
<1>2. Cardinality(S) \in Nat
  BY FS_CardinalityType
<1>3. Bad \in SUBSET Nat
  BY <1>2
<1>4. PICK k \in Bad : \A n \in Bad : k <= n
  <2> HIDE DEF Bad
  <2> QED BY <1>1, <1>3, LeastElement
<1>5. ASSUME NEW p \in S PROVE IsFiniteSet(Below(p)) /\ Cardinality(Below(p)) \in Nat
  <2>1. Below(p) \subseteq S
    OBVIOUS
  <2> QED BY <2>1, FS_Subset, FS_CardinalityType
<1>6. CASE k = 1
  <2>1. S # {}
    <3>1. S = {} => Cardinality(S) = 0
      BY FS_EmptySet
    <3> QED BY <3>1, <1>4, <1>2
  <2>2. PICK p \in S : \A n \in S : p <= n
    BY <2>1, LeastElement
  <2>3. Below(p) = {}
    <3>1. ASSUME NEW q \in Below(p) PROVE FALSE
      <4>1. q \in S /\ q < p
        BY <3>1
      <4>2. p <= q /\ p \in Nat /\ q \in Nat
        BY <2>2, <4>1
      <4> QED BY <4>1, <4>2
    <3> QED BY <3>1
  <2>4. Cardinality(Below(p)) = 0
    BY <2>3, FS_EmptySet
  <2> QED BY <2>4, <1>6, <1>4
<1>7. CASE k # 1
  <2>1. k - 1 \in 1..Cardinality(S) /\ k - 1 \notin Bad
    BY <1>2, <1>4, <1>7
  <2>2. PICK p \in S : Cardinality(Below(p)) = k - 2
    <3>1. \E p \in S : Cardinality(Below(p)) = (k - 1) - 1
      BY <2>1
    <3>2. (k - 1) - 1 = k - 2
      BY <1>4, <1>2
    <3> QED BY <3>1, <3>2
  <2> DEFINE Above == {q \in S : q > p}
  <2>3. Cardinality(Below(p) \cup {p}) = k - 1
    <3>1. p \notin Below(p) /\ IsFiniteSet(Below(p))
      BY <1>5
    <3>2. Cardinality(Below(p) \cup {p}) = Cardinality(Below(p)) + 1
      <4> HIDE DEF Below
      <4> QED BY <3>1, FS_AddElement
    <3> QED BY <1>2, <1>4, <2>2, <3>2
  <2>4. Above # {}
    <3>1. SUFFICES ASSUME Above = {} PROVE FALSE
      OBVIOUS
    <3>2. S = Below(p) \cup {p}
      <4>1. ASSUME NEW q \in S PROVE q \in Below(p) \cup {p}
        <5>1. q \in Nat /\ p \in Nat /\ ~(q > p)
          BY <3>1
        <5> QED BY <5>1
      <4> QED BY <4>1
    <3> QED BY <3>2, <2>3, <1>4, <1>2
  <2>5. PICK r \in Above : \A n \in Above : r <= n
    BY <2>4, LeastElement
  <2>6. Below(r) = Below(p) \cup {p}
    <3>1. r \in S /\ r \in Nat /\ p \in Nat /\ p < r
      BY <2>5
    <3>2. ASSUME NEW q \in S PROVE q < r <=> (q < p \/ q = p)
      <4>1. q \in Nat
        OBVIOUS
      <4>2. q > p => r <= q
        BY <2>5, <4>1
      <4> QED BY <3>1, <4>1, <4>2
    <3> QED BY <3>1, <3>2
  <2> QED BY <2>6, <2>3, <1>4, <2>5
<1> QED BY <1>6, <1>7
-----------------------------------------------------------------------------
(* The writer lock: types of what matters for it, whatever was read or written *)

TxField == {"st", "writable", "pageMap", "walPageN", "meta", "dirty", "rootRecords", "ver"}
CkptField == {"phase", "waitingOn", "pages", "pageN", "offset"}

IsTx(r) ==
    /\ r = [f \in TxField |-> r[f]]
    /\ r.st \in TxState
    /\ r.writable \in BOOLEAN
    /\ r.walPageN \in Nat
    /\ IsFiniteSet(r.dirty)

IsCkpt(c) == c = [f \in CkptField |-> c[f]] /\ c.phase \in CkptPhase

LockTypeOK ==
    /\ tx = [t \in TX |-> tx[t]]
    /\ \A t \in TX : IsTx(tx[t])
    /\ IsCkpt(ckpt)
    /\ status \in {"down", "opening", "open", "closing"}
    /\ isDead \in BOOLEAN
    /\ status = "opening" \/ walPageN \in Nat
    /\ rwmu \in TX \cup {Free, Checkpointer}

\* A finite set of dirty pages takes a number of WAL pages.
LEMMA WALPagesOfType ==
    ASSUME NEW d, IsFiniteSet(d)
    PROVE  WALPagesOf(d) \in Nat
<1>1. IsFiniteSet(d \ BitmapPage) /\ IsFiniteSet(d \cap BitmapPage)
  BY FS_Subset
<1>2. Cardinality(d \ BitmapPage) \in Nat /\ Cardinality(d \cap BitmapPage) \in Nat
  BY <1>1, FS_CardinalityType
<1> QED BY <1>2 DEF WALPagesOf

\* The record of no transaction has the type of one.
LEMMA NoTxIsTx == IsTx(NoTx)
<1>1. IsFiniteSet({})
  BY FS_EmptySet
<1> QED BY <1>1 DEF IsTx, NoTx, TxField, TxState

\* What Begin returns is an open transaction.
LEMMA NewTxIsTx ==
    ASSUME LockTypeOK, status # "opening", NEW w \in BOOLEAN
    PROVE  IsTx(NewTx(w)) /\ NewTx(w).st = "open" /\ NewTx(w).writable = w
<1>1. IsFiniteSet({})
  BY FS_EmptySet
<1> QED BY <1>1 DEF IsTx, NewTx, TxField, TxState, LockTypeOK

\* A record with another state of the transaction.
LEMMA IsTxWith ==
    ASSUME NEW r, IsTx(r), NEW s \in TxState
    PROVE  /\ IsTx([r EXCEPT !.st = s])
           /\ [r EXCEPT !.st = s].st = s
           /\ [r EXCEPT !.st = s].writable = r.writable
BY DEF IsTx, TxField

\* A checkpoint in another phase, or with others to wait for.
LEMMA IsCkptWith ==
    ASSUME NEW c, IsCkpt(c), NEW ph \in CkptPhase, NEW W
    PROVE  /\ IsCkpt([c EXCEPT !.phase = ph])
           /\ [c EXCEPT !.phase = ph].phase = ph
           /\ IsCkpt([c EXCEPT !.waitingOn = W])
           /\ [c EXCEPT !.waitingOn = W].phase = c.phase
BY DEF IsCkpt, CkptField

\* A checkpoint with another phase and a field that is not the phase, or with two such.
LEMMA IsCkptWithTwo ==
    ASSUME NEW c, IsCkpt(c), NEW ph \in CkptPhase, NEW x, NEW y
    PROVE  /\ \A f \in CkptField \ {"phase"} : IsCkpt([c EXCEPT !["phase"] = ph, ![f] = x])
           /\ \A f, g \in CkptField \ {"phase"} : IsCkpt([c EXCEPT ![f] = x, ![g] = y])
<1>1. c = [f \in CkptField |-> c[f]] /\ c.phase \in CkptPhase /\ "phase" \in CkptField
  BY DEF IsCkpt, CkptField
<1>2. ASSUME NEW f \in CkptField \ {"phase"} PROVE IsCkpt([c EXCEPT !["phase"] = ph, ![f] = x])
  <2> DEFINE d == [c EXCEPT !["phase"] = ph, ![f] = x]
  <2>1. d = [h \in CkptField |-> IF h = f THEN x ELSE IF h = "phase" THEN ph ELSE c[h]]
    BY <1>1
  <2>2. d = [h \in CkptField |-> d[h]] /\ d.phase = ph
    BY <1>1, <2>1
  <2> QED BY <2>2 DEF IsCkpt
<1>3. ASSUME NEW f \in CkptField \ {"phase"}, NEW g \in CkptField \ {"phase"}
      PROVE  IsCkpt([c EXCEPT ![f] = x, ![g] = y])
  <2> DEFINE d == [c EXCEPT ![f] = x, ![g] = y]
  <2>1. d = [h \in CkptField |-> IF h = g THEN y ELSE IF h = f THEN x ELSE c[h]]
    BY <1>1
  <2>2. d = [h \in CkptField |-> d[h]] /\ d.phase = c.phase
    BY <1>1, <2>1
  <2> QED BY <1>1, <2>2 DEF IsCkpt
<1> QED BY <1>2, <1>3

\* The step replaces transaction t by r.
TxReplaced(t, r) == tx' = [tx EXCEPT ![t] = r]

\* What a step does to transaction t and to no other, as far as the lock goes.
TxBecomes(t, s, w) ==
    /\ tx'[t].st = s
    /\ tx'[t].writable = w
    /\ \A u \in TX \ {t} : tx'[u] = tx[u]

\* Replacing one transaction keeps the types of all.
LEMMA TxReplacedType ==
    ASSUME LockTypeOK, NEW t \in TX, NEW r, IsTx(r), TxReplaced(t, r)
    PROVE  /\ tx' = [u \in TX |-> tx'[u]]
           /\ \A u \in TX : IsTx(tx'[u])
           /\ TxBecomes(t, r.st, r.writable)
<1>1. tx = [u \in TX |-> tx[u]] /\ \A u \in TX : IsTx(tx[u])
  BY DEF LockTypeOK
<1>2. tx' = [u \in TX |-> IF u = t THEN r ELSE tx[u]]
  BY <1>1 DEF TxReplaced
<1>3. tx'[t] = r /\ \A u \in TX \ {t} : tx'[u] = tx[u]
  BY <1>2
<1>4. tx' = [u \in TX |-> tx'[u]]
  BY <1>2
<1> QED BY <1>1, <1>3, <1>4 DEF TxBecomes

\* The part of LockTypeOK that is not about transactions.
RestTypeOK ==
    /\ IsCkpt(ckpt)
    /\ status \in {"down", "opening", "open", "closing"}
    /\ isDead \in BOOLEAN
    /\ status = "opening" \/ walPageN \in Nat
    /\ rwmu \in TX \cup {Free, Checkpointer}

\* ... and of the state, when the rest of it has its types.
LEMMA ReplaceType ==
    ASSUME LockTypeOK, NEW t \in TX, NEW r, IsTx(r), TxReplaced(t, r), RestTypeOK'
    PROVE  LockTypeOK' /\ TxBecomes(t, r.st, r.writable)
BY TxReplacedType DEF LockTypeOK, RestTypeOK

\* What Begin(false) does, as far as the writer lock goes; below, the same for the other
\* operations of a transaction.
LEMMA BeginReadEffect ==
    ASSUME LockTypeOK, NEW t \in TX, BeginRead(t)
    PROVE  LockTypeOK' /\ TxBecomes(t, "open", FALSE)
<1>1. IsTx(NewTx(FALSE)) /\ NewTx(FALSE).st = "open" /\ NewTx(FALSE).writable = FALSE
  BY NewTxIsTx DEF BeginRead
<1>2. TxReplaced(t, NewTx(FALSE))
  BY DEF BeginRead, TxReplaced
<1>3. RestTypeOK'
  BY DEF BeginRead, RestTypeOK, LockTypeOK
<1> QED BY <1>1, <1>2, <1>3, ReplaceType

\* Begin(true) before rwmu.Lock.
LEMMA BeginWriteEffect ==
    ASSUME LockTypeOK, NEW t \in TX, BeginWrite(t)
    PROVE  LockTypeOK' /\ TxBecomes(t, "want", TRUE)
<1> DEFINE r == [tx[t] EXCEPT !.st = "want", !.writable = TRUE]
<1>1. IsTx(r) /\ r.st = "want" /\ r.writable = TRUE
  BY DEF LockTypeOK, IsTx, TxField, TxState
<1>2. TxReplaced(t, r)
  BY DEF BeginWrite, TxReplaced
<1>3. RestTypeOK'
  BY DEF BeginWrite, dbVars, RestTypeOK, LockTypeOK
<1> HIDE DEF r
<1> QED BY <1>1, <1>2, <1>3, ReplaceType

\* rwmu.Lock.
LEMMA LockWriterEffect ==
    ASSUME LockTypeOK, NEW t \in TX, LockWriter(t)
    PROVE  LockTypeOK' /\ TxBecomes(t, "locked", tx[t].writable)
<1> DEFINE r == [tx[t] EXCEPT !.st = "locked"]
<1>1. IsTx(r) /\ r.st = "locked" /\ r.writable = tx[t].writable
  BY IsTxWith DEF LockTypeOK, TxState
<1>2. TxReplaced(t, r)
  BY DEF LockWriter, TxReplaced
<1>3. RestTypeOK'
  BY DEF LockWriter, RestTypeOK, LockTypeOK
<1> HIDE DEF r
<1> QED BY <1>1, <1>2, <1>3, ReplaceType

\* Begin(true) of a database that is closed or dead.
LEMMA BeginFailsEffect ==
    ASSUME LockTypeOK, NEW t \in TX, BeginFails(t)
    PROVE  LockTypeOK' /\ TxBecomes(t, "none", FALSE)
<1>1. IsTx(NoTx) /\ NoTx.st = "none" /\ NoTx.writable = FALSE
  BY NoTxIsTx DEF NoTx
<1>2. TxReplaced(t, NoTx)
  BY DEF BeginFails, TxReplaced
<1>3. RestTypeOK'
  BY DEF BeginFails, RestTypeOK, LockTypeOK
<1> QED BY <1>1, <1>2, <1>3, ReplaceType

\* Begin(true) after rwmu.Lock.
LEMMA EnterWriterEffect ==
    ASSUME LockTypeOK, NEW t \in TX, EnterWriter(t), status # "opening"
    PROVE  LockTypeOK' /\ TxBecomes(t, "open", TRUE)
<1>1. IsTx(NewTx(TRUE)) /\ NewTx(TRUE).st = "open" /\ NewTx(TRUE).writable = TRUE
  BY NewTxIsTx
<1>2. TxReplaced(t, NewTx(TRUE))
  BY DEF EnterWriter, TxReplaced
<1>3. RestTypeOK'
  BY DEF EnterWriter, RestTypeOK, LockTypeOK
<1> QED BY <1>1, <1>2, <1>3, ReplaceType

\* Writing a page or allocating one.
LEMMA DirtyEffect ==
    ASSUME LockTypeOK, NEW t \in TX, NEW p, NEW n, Dirty(t, p, n)
    PROVE  LockTypeOK' /\ \E s \in {"open", "failed"} : TxBecomes(t, s, TRUE)
<1> DEFINE d == tx[t].dirty \cup {p}
           s == IF TxTooLarge(t, d) THEN "failed" ELSE "open"
           r == [tx[t] EXCEPT !.dirty = d, !.meta.pageN = n,
                    !.rootRecords = IF p = RootRecordPage THEN Len(hist) + 1 ELSE @,
                    !.st = s]
<1>1. IsFiniteSet(d)
  BY FS_AddElement DEF LockTypeOK, IsTx
<1>2. IsTx(tx[t]) /\ tx[t].writable = TRUE
  BY DEF LockTypeOK, Dirty, IsTx
<1>3. s \in {"open", "failed"}
  OBVIOUS
<1>4. TxReplaced(t, r)
  BY DEF Dirty, TxReplaced
<1>5. IsTx(r) /\ r.st = s /\ r.writable = TRUE
  <2> HIDE DEF d, s
  <2> QED BY <1>1, <1>2, <1>3 DEF IsTx, TxField, TxState
<1>6. RestTypeOK'
  BY DEF Dirty, dbVars, RestTypeOK, LockTypeOK
<1> HIDE DEF r, s
<1> QED BY <1>3, <1>4, <1>5, <1>6, ReplaceType

\* The flush of dirty pages to the WAL.
LEMMA FlushEffect ==
    ASSUME LockTypeOK, NEW t \in TX, Flush(t)
    PROVE  LockTypeOK' /\ \E s \in {"flushed", "aborted"} : TxBecomes(t, s, TRUE)
<1>1. IsTx(tx[t]) /\ tx[t].writable = TRUE
  BY DEF LockTypeOK, Flush, IsTx
<1>2. RestTypeOK'
  BY DEF Flush, dbVars, RestTypeOK, LockTypeOK
<1>3. PICK pageN \in 3..tx[t].meta.pageN :
        LET v == Len(hist) + 1
            d == {p \in tx[t].dirty : p < pageN}
                 \cup (IF pageN < tx[t].meta.pageN THEN {FreelistPage} ELSE {})
            meta == [ver |-> v, walID |-> tx[t].meta.walID + WALPagesOf(d) + 1,
                     pageN |-> pageN]
            pages == Append(DirtyPages(d, v), [kind |-> "page", pgno |-> Meta, c |-> meta])
        IN  \/ tx' = [tx EXCEPT ![t].st = "flushed", ![t].dirty = d, ![t].meta = meta,
                         ![t].walPageN = @ + WALPagesOf(d) + 1,
                         ![t].pageMap = MapPages(@, tx[t].meta.walID, pages)]
            \/ tx' = [tx EXCEPT ![t].st = "aborted"]
  BY DEF Flush
<1> DEFINE v == Len(hist) + 1
           d == {p \in tx[t].dirty : p < pageN}
                \cup (IF pageN < tx[t].meta.pageN THEN {FreelistPage} ELSE {})
           meta == [ver |-> v, walID |-> tx[t].meta.walID + WALPagesOf(d) + 1,
                    pageN |-> pageN]
           pages == Append(DirtyPages(d, v), [kind |-> "page", pgno |-> Meta, c |-> meta])
           n == tx[t].walPageN + WALPagesOf(d) + 1
           pm == MapPages(tx[t].pageMap, tx[t].meta.walID, pages)
           r == [tx[t] EXCEPT !.st = "flushed", !.dirty = d, !.meta = meta,
                    !.walPageN = n, !.pageMap = pm]
           q == [tx[t] EXCEPT !.st = "aborted"]
<1>4. TxReplaced(t, r) \/ TxReplaced(t, q)
  BY <1>3 DEF TxReplaced
<1>5. IsFiniteSet(d)
  <2>1. IsFiniteSet({p \in tx[t].dirty : p < pageN})
    BY <1>1, FS_Subset DEF IsTx
  <2>2. IsFiniteSet(IF pageN < tx[t].meta.pageN THEN {FreelistPage} ELSE {})
    BY FS_EmptySet, FS_Singleton
  <2> QED BY <2>1, <2>2, FS_Union
<1>6. WALPagesOf(d) \in Nat
  BY <1>5, WALPagesOfType
<1>7. IsTx(r) /\ r.st = "flushed" /\ r.writable = TRUE
  <2>1. n \in Nat
    BY <1>1, <1>6 DEF IsTx
  <2> HIDE DEF d, meta, pages, n, pm
  <2>2. IsTx(r) /\ r.st = "flushed" /\ r.writable = tx[t].writable
    BY <1>1, <1>5, <2>1 DEF IsTx, TxField, TxState
  <2> QED BY <1>1, <2>2
<1>8. IsTx(q) /\ q.st = "aborted" /\ q.writable = TRUE
  BY <1>1, IsTxWith DEF TxState
<1> HIDE DEF r, q
<1> QED BY <1>2, <1>4, <1>7, <1>8, ReplaceType

\* The sync of the WAL.
LEMMA FlushSyncEffect ==
    ASSUME LockTypeOK, NEW t \in TX, FlushSync(t)
    PROVE  LockTypeOK' /\ \E s \in {"synced", "aborted"} : TxBecomes(t, s, tx[t].writable)
<1>1. PICK s \in {"synced", "aborted"} : TxReplaced(t, [tx[t] EXCEPT !.st = s])
  BY DEF FlushSync, TxReplaced
<1> DEFINE r == [tx[t] EXCEPT !.st = s]
<1>2. IsTx(r) /\ r.st = s /\ r.writable = tx[t].writable
  <2>1. IsTx(tx[t]) /\ s \in TxState
    BY DEF LockTypeOK, TxState
  <2> QED BY <2>1, IsTxWith
<1>3. RestTypeOK'
  BY DEF FlushSync, dbVars, RestTypeOK, LockTypeOK
<1>4. TxReplaced(t, r)
  BY <1>1
<1> HIDE DEF r
<1> QED BY <1>2, <1>3, <1>4, ReplaceType

\* Commit hands page map and WAL length to the database.
LEMMA PublishEffect ==
    ASSUME LockTypeOK, NEW t \in TX, Publish(t)
    PROVE  LockTypeOK' /\ TxBecomes(t, "published", tx[t].writable)
<1> DEFINE r == [tx[t] EXCEPT !.st = "published"]
<1>1. IsTx(r) /\ r.st = "published" /\ r.writable = tx[t].writable
  BY IsTxWith DEF LockTypeOK, TxState
<1>2. TxReplaced(t, r)
  BY DEF Publish, TxReplaced
<1>3. tx[t].walPageN \in Nat
  BY DEF LockTypeOK, IsTx
<1>4. RestTypeOK'
  BY <1>3 DEF Publish, RestTypeOK, LockTypeOK
<1> HIDE DEF r
<1> QED BY <1>1, <1>2, <1>4, ReplaceType

\* removeTx: the transaction is gone.
LEMMA RemoveTxEffect ==
    ASSUME LockTypeOK, NEW t \in TX, RemoveTx(t)
    PROVE  /\ LockTypeOK'
           /\ TxBecomes(t, "none", FALSE)
           /\ ckpt'.phase = IF NeedsCheckpoint(t) THEN "wait" ELSE ckpt.phase
<1>1. IsTx(NoTx) /\ NoTx.st = "none" /\ NoTx.writable = FALSE
  BY NoTxIsTx DEF NoTx
<1>2. TxReplaced(t, NoTx)
  BY DEF RemoveTx, TxReplaced
<1>3. IsCkpt(ckpt') /\ ckpt'.phase = IF NeedsCheckpoint(t) THEN "wait" ELSE ckpt.phase
  <2>1. CASE NeedsCheckpoint(t)
    <3>1. ckpt' = [NoCkpt EXCEPT !.phase = "wait", !.waitingOn = txs \ {t}]
      BY <2>1 DEF RemoveTx
    <3> QED BY <2>1, <3>1 DEF IsCkpt, NoCkpt, CkptField, CkptPhase
  <2>2. CASE ~NeedsCheckpoint(t)
    <3>1. ckpt' = [ckpt EXCEPT !.waitingOn = ckpt.waitingOn \ {t}]
      BY <2>2 DEF RemoveTx
    <3>2. IsCkpt(ckpt) /\ "wait" \in CkptPhase
      BY DEF LockTypeOK, CkptPhase
    <3> QED BY <2>2, <3>1, <3>2, IsCkptWith
  <2> QED BY <2>1, <2>2
<1>4. RestTypeOK'
  BY <1>3 DEF RemoveTx, RestTypeOK, LockTypeOK
<1> QED BY <1>1, <1>2, <1>3, <1>4, ReplaceType

\* A step of the checkpoint moves it from one phase to another.
LEMMA CkptEffect ==
    ASSUME LockTypeOK, CkptStep, ckpt.phase = "shrink" => walPageN = 0
    PROVE  LockTypeOK' /\ tx' = tx /\ closeWait' = closeWait
<1>1. IsCkpt(ckpt) /\ \A ph \in CkptPhase : IsCkpt([ckpt EXCEPT !.phase = ph])
  BY IsCkptWith DEF LockTypeOK
<1>2. IsCkpt(NoCkpt)
  BY DEF IsCkpt, NoCkpt, CkptField, CkptPhase
<1>3. SUFFICES RestTypeOK' /\ tx' = tx /\ closeWait' = closeWait
  BY DEF LockTypeOK, RestTypeOK
<1>4. CASE CheckpointSkips
  BY <1>2, <1>4 DEF CheckpointSkips, Opened, opened, RestTypeOK, LockTypeOK
<1>5. CASE CheckpointStart
  <2>1. IsCkpt(ckpt')
    <3> DEFINE pgs == [p \in Page |->
                         IF \A q \in Page : pageMap[q] = 0 THEN ScanWAL(walPageN, p)
                         ELSE IF pageMap[p] = 0 THEN 0 ELSE pageMap[p] - baseWALID]
    <3>1. ckpt' = [ckpt EXCEPT !.phase = "copy", !.pages = pgs]
      BY <1>5 DEF CheckpointStart
    <3> HIDE DEF pgs
    <3> QED BY <1>1, <3>1, IsCkptWithTwo DEF CkptField, CkptPhase
  <2> QED BY <2>1, <1>5 DEF CheckpointStart, dbVars, RestTypeOK, LockTypeOK
<1>6. ASSUME NEW p \in Page, CheckpointCopy(p) PROVE RestTypeOK' /\ tx' = tx /\ closeWait' = closeWait
  <2> DEFINE c == wal[ckpt.pages[p]].c
             pgs == [ckpt.pages EXCEPT ![p] = 0]
             n == IF p = Meta THEN c.pageN ELSE ckpt.pageN
  <2>0. ckpt' = [ckpt EXCEPT !.pages = pgs, !.pageN = n]
    BY <1>6 DEF CheckpointCopy
  <2>1. IsCkpt(ckpt')
    <3> HIDE DEF pgs, n
    <3> QED BY <1>1, <2>0, IsCkptWithTwo DEF CkptField, CkptPhase
  <2> QED BY <2>1, <1>6 DEF CheckpointCopy, dbVars, RestTypeOK, LockTypeOK
<1>7. CASE CheckpointSync
  <2>1. IsCkpt(ckpt')
    BY <1>1, <1>7 DEF CheckpointSync, CkptPhase
  <2> QED BY <2>1, <1>7 DEF CheckpointSync, dbVars, RestTypeOK, LockTypeOK
<1>8. CASE CheckpointFails
  BY <1>2, <1>8 DEF CheckpointFails, RestTypeOK, LockTypeOK
<1>9. CASE CheckpointReset
  <2>1. IsCkpt(ckpt')
    BY <1>1, <1>9, IsCkptWithTwo DEF CheckpointReset, CkptField, CkptPhase
  <2> QED BY <2>1, <1>9 DEF CheckpointReset, RestTypeOK, LockTypeOK
<1>10. CASE CheckpointRebase
  <2>1. IsCkpt(ckpt')
    BY <1>1, <1>10 DEF CheckpointRebase, CkptPhase
  <2> QED BY <2>1, <1>10 DEF CheckpointRebase, RestTypeOK, LockTypeOK
<1>11. CASE TruncateWAL
  <2>1. IsCkpt(ckpt')
    <3>1. \/ ckpt' = [ckpt EXCEPT !.phase = "sync", !.offset = Len(wal)]
          \/ ckpt' = [ckpt EXCEPT !.phase = "shrink"]
      BY <1>11 DEF TruncateWAL
    <3>2. IsCkpt([ckpt EXCEPT !.phase = "sync", !.offset = Len(wal)])
      BY <1>1, IsCkptWithTwo DEF CkptField, CkptPhase
    <3>3. IsCkpt([ckpt EXCEPT !.phase = "shrink"])
      BY <1>1 DEF CkptPhase
    <3> QED BY <3>1, <3>2, <3>3
  <2> QED BY <2>1, <1>11 DEF TruncateWAL, dbVars, RestTypeOK, LockTypeOK
<1>12. CASE SyncWAL
  <2>1. IsCkpt(ckpt')
    BY <1>1, <1>12 DEF SyncWAL, CkptPhase
  <2> QED BY <2>1, <1>12 DEF SyncWAL, dbVars, RestTypeOK, LockTypeOK
<1>13. CASE ShrinkData
  BY <1>2, <1>13 DEF ShrinkData, Opened, RestTypeOK, LockTypeOK
<1> QED BY <1>4, <1>5, <1>6, <1>7, <1>8, <1>9, <1>10, <1>11, <1>12, <1>13 DEF CkptStep

\* The fields of a new DB.
LEMMA NewDBEffect ==
    ASSUME LockTypeOK, NewDB, status' = "down"
    PROVE  LockTypeOK' /\ \A t \in TX : tx'[t] = NoTx
<1>1. IsCkpt(NoCkpt)
  BY DEF IsCkpt, NoCkpt, CkptField, CkptPhase
<1>2. tx' = [t \in TX |-> tx'[t]] /\ \A t \in TX : tx'[t] = NoTx
  BY DEF NewDB
<1>3. \A t \in TX : IsTx(tx'[t])
  BY <1>2, NoTxIsTx
<1> QED BY <1>1, <1>2, <1>3 DEF NewDB, LockTypeOK

-----------------------------------------------------------------------------
(* The inductive invariant of the writer lock *)

\* Only writers wait for the lock, commit or fail.
WritersOnly ==
    \A t \in TX : tx[t].st \in {"want", "locked", "failed", "aborted", "flushed",
                               "synced", "published"} => tx[t].writable

\* Whoever gives the lock back without a checkpoint leaves a WAL below the
\* threshold; only a commit that was just published may be above it.
WALBelowThreshold ==
    /\ opened /\ ~isDead /\ rwmu # Checkpointer /\ (\A t \in TX : tx[t].st # "published")
       => walPageN <= MaxWALCheckpointSize
    /\ ckpt.phase \in {"drain", "truncate", "sync", "shrink"} => walPageN = 0

\* Nobody has a transaction before Open returns, and its checkpoint has the lock.
NoTxBeforeOpen ==
    /\ status \in {"down", "opening"} => \A t \in TX : tx[t].st = "none"
    /\ status = "down" => rwmu = Free
    /\ status = "opening" => rwmu = Checkpointer

CloseWaitsForAll == status = "closing" => txs \subseteq closeWait

LockInv ==
    /\ LockTypeOK
    /\ WriterLockHeld
    /\ WritersOnly
    /\ WALBelowThreshold
    /\ NoTxBeforeOpen
    /\ CloseWaitsForAll

\* A database that was not opened is unlocked.
LEMMA LockInvInit == Init => LockInv
<1> SUFFICES ASSUME Init PROVE LockInv
  OBVIOUS
<1>1. \A t \in TX : tx[t] = NoTx
  BY DEF Init
<1>2. \A t \in TX : tx[t].st = "none"
  BY <1>1 DEF NoTx
<1>3. LockTypeOK
  <2>1. IsCkpt(NoCkpt)
    BY DEF IsCkpt, NoCkpt, CkptField, CkptPhase
  <2>2. tx = [t \in TX |-> tx[t]]
    BY DEF Init
  <2> QED BY <1>1, <2>1, <2>2, NoTxIsTx DEF Init, LockTypeOK
<1>4. WriterLockHeld
  BY <1>2, HolderAssumption DEF Init, WriterLockHeld, NoCkpt
<1>5. WritersOnly
  BY <1>2 DEF WritersOnly
<1>6. WALBelowThreshold
  BY SizeAssumption DEF Init, WALBelowThreshold, NoCkpt
<1>7. NoTxBeforeOpen /\ CloseWaitsForAll
  BY <1>2 DEF Init, NoTxBeforeOpen, CloseWaitsForAll
<1> QED BY <1>3, <1>4, <1>5, <1>6, <1>7 DEF LockInv

\* Readers have nothing to do with the lock.
LEMMA BeginReadKeeps ==
    ASSUME LockInv, NEW t \in TX, BeginRead(t)
    PROVE  LockInv'
<1>1. LockTypeOK' /\ TxBecomes(t, "open", FALSE)
  BY BeginReadEffect DEF LockInv
<1>2. /\ tx[t].st = "none" /\ status = "open"
      /\ UNCHANGED <<status, isDead, walPageN, rwmu, ckpt, closeWait>>
  BY DEF BeginRead
<1>3. WriterLockHeld' /\ WritersOnly' /\ WALBelowThreshold' /\ NoTxBeforeOpen' /\ CloseWaitsForAll'
  BY <1>1, <1>2 DEF LockInv, TxBecomes, WriterLockHeld, WritersOnly, WALBelowThreshold,
       NoTxBeforeOpen, CloseWaitsForAll, opened, txs
<1> QED BY <1>1, <1>3 DEF LockInv

\* Who waits for the lock does not have it.
LEMMA BeginWriteKeeps ==
    ASSUME LockInv, NEW t \in TX, BeginWrite(t)
    PROVE  LockInv'
<1>1. LockTypeOK' /\ TxBecomes(t, "want", TRUE)
  BY BeginWriteEffect DEF LockInv
<1>2. /\ tx[t].st = "none" /\ status = "open"
      /\ UNCHANGED <<status, isDead, walPageN, rwmu, ckpt, closeWait>>
  BY DEF BeginWrite, dbVars
<1>3. WriterLockHeld' /\ WritersOnly' /\ WALBelowThreshold' /\ NoTxBeforeOpen' /\ CloseWaitsForAll'
  BY <1>1, <1>2 DEF LockInv, TxBecomes, WriterLockHeld, WritersOnly, WALBelowThreshold,
       NoTxBeforeOpen, CloseWaitsForAll, opened, txs
<1> QED BY <1>1, <1>3 DEF LockInv

\* The lock is free when it is taken.
LEMMA LockWriterKeeps ==
    ASSUME LockInv, NEW t \in TX, LockWriter(t)
    PROVE  LockInv'
<1>1. LockTypeOK' /\ TxBecomes(t, "locked", tx[t].writable)
  BY LockWriterEffect DEF LockInv
<1>2. /\ tx[t].st = "want" /\ rwmu = Free /\ rwmu' = t
      /\ UNCHANGED <<status, isDead, walPageN, ckpt, closeWait>>
  BY DEF LockWriter
<1>3. WriterLockHeld' /\ WritersOnly' /\ WALBelowThreshold' /\ NoTxBeforeOpen' /\ CloseWaitsForAll'
  BY <1>1, <1>2, HolderAssumption DEF LockInv, TxBecomes, WriterLockHeld, WritersOnly, WALBelowThreshold,
       NoTxBeforeOpen, CloseWaitsForAll, opened, txs
<1> QED BY <1>1, <1>3 DEF LockInv

\* The error path of Begin unlocks.
LEMMA BeginFailsKeeps ==
    ASSUME LockInv, NEW t \in TX, BeginFails(t)
    PROVE  LockInv'
<1>1. LockTypeOK' /\ TxBecomes(t, "none", FALSE)
  BY BeginFailsEffect DEF LockInv
<1>2. /\ tx[t].st = "locked" /\ (~opened \/ isDead) /\ rwmu' = Free
      /\ UNCHANGED <<status, isDead, walPageN, ckpt, closeWait>>
  BY DEF BeginFails
<1>3. WriterLockHeld' /\ WritersOnly' /\ WALBelowThreshold' /\ NoTxBeforeOpen' /\ CloseWaitsForAll'
  BY <1>1, <1>2, HolderAssumption DEF LockInv, TxBecomes, WriterLockHeld, WritersOnly, WALBelowThreshold,
       NoTxBeforeOpen, CloseWaitsForAll, opened, txs
<1> QED BY <1>1, <1>3 DEF LockInv

\* Begin returns with the lock.
LEMMA EnterWriterKeeps ==
    ASSUME LockInv, NEW t \in TX, EnterWriter(t)
    PROVE  LockInv'
<1>1. LockTypeOK' /\ TxBecomes(t, "open", TRUE)
  BY EnterWriterEffect DEF LockInv, NoTxBeforeOpen, EnterWriter
<1>2. /\ tx[t].st = "locked" /\ status \in {"opening", "open"}
      /\ UNCHANGED <<status, isDead, walPageN, rwmu, ckpt, closeWait>>
  BY DEF EnterWriter, opened
<1>3. WriterLockHeld' /\ WritersOnly' /\ WALBelowThreshold' /\ NoTxBeforeOpen' /\ CloseWaitsForAll'
  BY <1>1, <1>2 DEF LockInv, TxBecomes, WriterLockHeld, WritersOnly, WALBelowThreshold,
       NoTxBeforeOpen, CloseWaitsForAll, opened, txs
<1> QED BY <1>1, <1>3 DEF LockInv

\* Writing keeps the lock.
LEMMA DirtyKeeps ==
    ASSUME LockInv, NEW t \in TX, NEW p, NEW n, Dirty(t, p, n)
    PROVE  LockInv'
<1>1. LockTypeOK' /\ \E s \in {"open", "failed"} : TxBecomes(t, s, TRUE)
  BY DirtyEffect DEF LockInv
<1>2. /\ tx[t].st = "open" /\ tx[t].writable
      /\ UNCHANGED <<status, isDead, walPageN, rwmu, ckpt, closeWait>>
  BY DEF Dirty, dbVars
<1>3. WriterLockHeld' /\ WritersOnly' /\ WALBelowThreshold' /\ NoTxBeforeOpen' /\ CloseWaitsForAll'
  BY <1>1, <1>2 DEF LockInv, TxBecomes, WriterLockHeld, WritersOnly, WALBelowThreshold,
       NoTxBeforeOpen, CloseWaitsForAll, opened, txs
<1> QED BY <1>1, <1>3 DEF LockInv

\* So does the flush, if it fails too, ...
LEMMA FlushKeeps ==
    ASSUME LockInv, NEW t \in TX, Flush(t)
    PROVE  LockInv'
<1>1. LockTypeOK' /\ \E s \in {"flushed", "aborted"} : TxBecomes(t, s, TRUE)
  BY FlushEffect DEF LockInv
<1>2. /\ tx[t].st = "open" /\ tx[t].writable
      /\ UNCHANGED <<status, isDead, walPageN, rwmu, ckpt, closeWait>>
  BY DEF Flush, dbVars
<1>3. WriterLockHeld' /\ WritersOnly' /\ WALBelowThreshold' /\ NoTxBeforeOpen' /\ CloseWaitsForAll'
  BY <1>1, <1>2 DEF LockInv, TxBecomes, WriterLockHeld, WritersOnly, WALBelowThreshold,
       NoTxBeforeOpen, CloseWaitsForAll, opened, txs
<1> QED BY <1>1, <1>3 DEF LockInv

\* ... the sync ...
LEMMA FlushSyncKeeps ==
    ASSUME LockInv, NEW t \in TX, FlushSync(t)
    PROVE  LockInv'
<1>1. LockTypeOK' /\ \E s \in {"synced", "aborted"} : TxBecomes(t, s, tx[t].writable)
  BY FlushSyncEffect DEF LockInv
<1>2. /\ tx[t].st = "flushed"
      /\ UNCHANGED <<status, isDead, walPageN, rwmu, ckpt, closeWait>>
  BY DEF FlushSync, dbVars
<1>3. WriterLockHeld' /\ WritersOnly' /\ WALBelowThreshold' /\ NoTxBeforeOpen' /\ CloseWaitsForAll'
  BY <1>1, <1>2 DEF LockInv, TxBecomes, WriterLockHeld, WritersOnly, WALBelowThreshold,
       NoTxBeforeOpen, CloseWaitsForAll, opened, txs
<1> QED BY <1>1, <1>3 DEF LockInv

\* ... and the publication, after which the WAL may be over the threshold.
LEMMA PublishKeeps ==
    ASSUME LockInv, NEW t \in TX, Publish(t)
    PROVE  LockInv'
<1>1. LockTypeOK' /\ TxBecomes(t, "published", tx[t].writable)
  BY PublishEffect DEF LockInv
<1>2. /\ tx[t].st = "synced"
      /\ UNCHANGED <<status, isDead, rwmu, ckpt, closeWait>>
  BY DEF Publish
<1>3. WriterLockHeld' /\ WritersOnly' /\ WALBelowThreshold' /\ NoTxBeforeOpen' /\ CloseWaitsForAll'
  BY <1>1, <1>2, HolderAssumption DEF LockInv, TxBecomes, WriterLockHeld, WritersOnly, WALBelowThreshold,
       NoTxBeforeOpen, CloseWaitsForAll, opened, txs
<1> QED BY <1>1, <1>3 DEF LockInv

\* removeTx unlocks, or gives the lock to the checkpoint that the WAL needs.
LEMMA RemoveTxKeeps ==
    ASSUME LockInv, NEW t \in TX, RemoveTx(t)
    PROVE  LockInv'
<1>1. /\ LockTypeOK' /\ TxBecomes(t, "none", FALSE)
      /\ ckpt'.phase = IF NeedsCheckpoint(t) THEN "wait" ELSE ckpt.phase
  BY RemoveTxEffect DEF LockInv
<1>2. /\ tx[t].st \in {"open", "failed", "aborted", "published"}
      /\ closeWait' = closeWait \ {t}
      /\ UNCHANGED <<status, isDead, walPageN>>
  BY DEF RemoveTx
<1>3. CASE tx[t].writable
  <2>1. rwmu = t
    BY <1>2, <1>3 DEF LockInv, WriterLockHeld
  <2>2. ckpt.phase = "none" /\ \A u \in TX \ {t} : tx[u].st # "published"
    BY <2>1, HolderAssumption DEF LockInv, WriterLockHeld, WritersOnly
  <2>3. CASE NeedsCheckpoint(t)
    <3>1. rwmu' = Checkpointer /\ ckpt'.phase = "wait"
      BY <1>1, <2>3 DEF RemoveTx
    <3> QED BY <1>1, <1>2, <2>1, <2>2, <3>1, HolderAssumption DEF LockInv, TxBecomes, WriterLockHeld, WritersOnly, WALBelowThreshold,
       NoTxBeforeOpen, CloseWaitsForAll, opened, txs
  <2>4. CASE ~NeedsCheckpoint(t)
    <3>1. rwmu' = Free /\ ckpt'.phase = "none"
      BY <1>1, <1>3, <2>2, <2>4 DEF RemoveTx
    <3>2. walPageN <= MaxWALCheckpointSize
      <4>1. walPageN \in Nat
        BY <1>2 DEF LockInv, LockTypeOK, NoTxBeforeOpen
      <4> QED BY <1>3, <2>4, <4>1, SizeAssumption DEF NeedsCheckpoint
    <3> QED BY <1>1, <1>2, <2>1, <2>2, <3>1, <3>2, HolderAssumption DEF LockInv, TxBecomes, WriterLockHeld, WritersOnly, WALBelowThreshold,
       NoTxBeforeOpen, CloseWaitsForAll, opened, txs
  <2> QED BY <2>3, <2>4
<1>4. CASE ~tx[t].writable
  <2>1. rwmu' = rwmu /\ ckpt'.phase = ckpt.phase
    BY <1>1, <1>4 DEF RemoveTx, NeedsCheckpoint
  <2>2. tx[t].st = "open"
    BY <1>2, <1>4 DEF LockInv, WritersOnly
  <2> QED BY <1>1, <1>2, <1>4, <2>1, <2>2 DEF LockInv, TxBecomes, WriterLockHeld, WritersOnly, WALBelowThreshold,
       NoTxBeforeOpen, CloseWaitsForAll, opened, txs
<1> QED BY <1>3, <1>4

\* The checkpoint has the lock up to its last step, an error included.
LEMMA CkptKeeps ==
    ASSUME LockInv, CkptStep
    PROVE  LockInv'
<1>1. LockTypeOK' /\ tx' = tx /\ closeWait' = closeWait
  BY CkptEffect DEF LockInv, WALBelowThreshold
<1>2. IsCkpt(ckpt) /\ \A ph \in CkptPhase : [ckpt EXCEPT !.phase = ph].phase = ph
  BY IsCkptWith DEF LockInv, LockTypeOK
<1>3. SUFFICES WriterLockHeld' /\ WritersOnly' /\ WALBelowThreshold' /\ NoTxBeforeOpen' /\ CloseWaitsForAll'
  BY <1>1 DEF LockInv
<1>4. ckpt.phase # "none" => rwmu = Checkpointer
  BY DEF LockInv, WriterLockHeld
<1> USE HolderAssumption, SizeAssumption
<1>5. CASE CheckpointSkips
  <2>1. /\ ckpt.phase = "wait" /\ (~opened \/ walPageN = 0) /\ ckpt'.phase = "none" /\ rwmu' = Free
        /\ status' = (IF status = "opening" THEN "open" ELSE status)
        /\ UNCHANGED <<isDead, walPageN>>
    BY <1>5 DEF CheckpointSkips, Opened, NoCkpt
  <2> QED BY <1>1, <1>4, <2>1 DEF LockInv, TxBecomes, WriterLockHeld, WritersOnly, WALBelowThreshold,
       NoTxBeforeOpen, CloseWaitsForAll, opened, txs
<1>6. CASE CheckpointStart \/ (\E p \in Page : CheckpointCopy(p)) \/ CheckpointSync
  <2>1. /\ ckpt.phase \in {"wait", "copy"} /\ ckpt'.phase \in {"copy", "synced"}
        /\ UNCHANGED <<rwmu, status, isDead, walPageN>>
    BY <1>2, <1>6 DEF CheckpointStart, CheckpointCopy, CheckpointSync, dbVars, IsCkpt, CkptField, CkptPhase
  <2> QED BY <1>1, <1>4, <2>1 DEF LockInv, TxBecomes, WriterLockHeld, WritersOnly, WALBelowThreshold,
       NoTxBeforeOpen, CloseWaitsForAll, opened, txs
<1>7. CASE CheckpointFails
  <2>1. /\ ckpt.phase = "copy" /\ status # "opening" /\ ckpt'.phase = "none" /\ rwmu' = Free
        /\ isDead' = TRUE
        /\ UNCHANGED <<status, walPageN>>
    BY <1>7 DEF CheckpointFails, NoCkpt
  <2> QED BY <1>1, <1>4, <2>1 DEF LockInv, TxBecomes, WriterLockHeld, WritersOnly, WALBelowThreshold,
       NoTxBeforeOpen, CloseWaitsForAll, opened, txs
<1>8. CASE CheckpointReset
  <2>1. /\ ckpt.phase = "synced" /\ ckpt'.phase = "drain" /\ walPageN' = 0
        /\ UNCHANGED <<rwmu, status, isDead>>
    BY <1>2, <1>8 DEF CheckpointReset, IsCkpt, CkptField, CkptPhase
  <2> QED BY <1>1, <1>4, <2>1 DEF LockInv, TxBecomes, WriterLockHeld, WritersOnly, WALBelowThreshold,
       NoTxBeforeOpen, CloseWaitsForAll, opened, txs
<1>9. CASE CheckpointRebase \/ TruncateWAL \/ SyncWAL
  <2>1. /\ ckpt.phase \in {"drain", "truncate", "sync"}
        /\ ckpt'.phase \in {"truncate", "sync", "shrink"}
        /\ UNCHANGED <<rwmu, status, isDead, walPageN>>
    BY <1>2, <1>9 DEF CheckpointRebase, TruncateWAL, SyncWAL, dbVars, IsCkpt, CkptField, CkptPhase
  <2> QED BY <1>1, <1>4, <2>1 DEF LockInv, TxBecomes, WriterLockHeld, WritersOnly, WALBelowThreshold,
       NoTxBeforeOpen, CloseWaitsForAll, opened, txs
<1>10. CASE ShrinkData
  <2>1. /\ ckpt.phase = "shrink" /\ ckpt'.phase = "none" /\ rwmu' = Free
        /\ status' = (IF status = "opening" THEN "open" ELSE status)
        /\ UNCHANGED <<isDead, walPageN>>
    BY <1>10 DEF ShrinkData, Opened, NoCkpt
  <2> QED BY <1>1, <1>4, <2>1 DEF LockInv, TxBecomes, WriterLockHeld, WritersOnly, WALBelowThreshold,
       NoTxBeforeOpen, CloseWaitsForAll, opened, txs
<1> QED BY <1>5, <1>6, <1>7, <1>8, <1>9, <1>10 DEF CkptStep

\* Nothing is left of a database that went down.
LEMMA NewDBKeeps ==
    ASSUME LockInv, NewDB, status' = "down"
    PROVE  LockInv'
<1>1. LockTypeOK' /\ \A t \in TX : tx'[t] = NoTx
  BY NewDBEffect DEF LockInv
<1>2. \A t \in TX : tx'[t].st = "none"
  BY <1>1 DEF NoTx
<1>3. ckpt'.phase = "none" /\ rwmu' = Free /\ walPageN' = 0
  BY DEF NewDB, NoCkpt
<1> QED BY <1>1, <1>2, <1>3, HolderAssumption DEF LockInv, TxBecomes, WriterLockHeld, WritersOnly, WALBelowThreshold,
       NoTxBeforeOpen, CloseWaitsForAll, opened, txs

\* Open checkpoints what it finds in the WAL.
LEMMA OpenKeeps ==
    ASSUME LockInv, Open
    PROVE  LockInv'
<1>1. /\ status = "down" /\ status' = "opening" /\ rwmu' = Checkpointer
      /\ ckpt' = [NoCkpt EXCEPT !.phase = "wait"]
      /\ UNCHANGED <<isDead, tx, closeWait>>
  BY DEF Open
<1>2. IsCkpt(ckpt') /\ ckpt'.phase = "wait"
  BY <1>1 DEF IsCkpt, NoCkpt, CkptField, CkptPhase
<1>3. LockTypeOK'
  BY <1>1, <1>2 DEF LockTypeOK, LockInv
<1> QED BY <1>1, <1>2, <1>3, HolderAssumption DEF LockInv, TxBecomes, WriterLockHeld, WritersOnly, WALBelowThreshold,
       NoTxBeforeOpen, CloseWaitsForAll, opened, txs

\* Close waits for the transactions there are.
LEMMA CloseKeeps ==
    ASSUME LockInv, Close
    PROVE  LockInv'
BY DEF Close, LockTypeOK, LockInv, WriterLockHeld, WritersOnly, WALBelowThreshold,
       NoTxBeforeOpen, CloseWaitsForAll, opened, txs

\* The invariant is one of states.
LEMMA StutterKeeps ==
    ASSUME LockInv, UNCHANGED vars
    PROVE  LockInv'
BY DEF vars, LockTypeOK, LockInv, WriterLockHeld, WritersOnly, WALBelowThreshold,
       NoTxBeforeOpen, CloseWaitsForAll, opened, txs

\* Every step keeps the lock invariant, ...
LEMMA LockInvNext == LockInv /\ [Next]_vars => LockInv'
<1> SUFFICES ASSUME LockInv, [Next]_vars PROVE LockInv'
  OBVIOUS
<1>1. ASSUME NEW t \in TX, TxStep(t) PROVE LockInv'
  BY <1>1, LockWriterKeeps, BeginFailsKeeps, EnterWriterKeeps, FlushKeeps, FlushSyncKeeps,
     PublishKeeps DEF TxStep
<1>2. ASSUME NEW t \in TX, ClientStep(t) PROVE LockInv'
  <2>1. CASE Allocate(t)
    BY <2>1, DirtyKeeps DEF Allocate
  <2>2. CASE \E p \in Page \ {Meta} : Write(t, p)
    BY <2>2, DirtyKeeps DEF Write
  <2> QED BY <1>2, <2>1, <2>2, BeginReadKeeps, BeginWriteKeeps DEF ClientStep
<1>3. ASSUME NEW t \in TX, RemoveTx(t) PROVE LockInv'
  BY <1>3, RemoveTxKeeps
<1>4. CASE OpenFails \/ CloseFiles \/ Crash
  <2>1. NewDB /\ status' = "down"
    BY <1>4 DEF OpenFails, CloseFiles, Crash
  <2> QED BY <2>1, NewDBKeeps
<1> QED BY <1>1, <1>2, <1>3, <1>4, CkptKeeps, OpenKeeps, CloseKeeps, StutterKeeps DEF Next

\* ... so it holds throughout.
LEMMA LockInvHolds == Spec => []LockInv
BY LockInvInit, LockInvNext, PTL DEF Spec

-----------------------------------------------------------------------------
\* The writer lock is held by whoever is between rwmu.Lock in Begin and the
\* unlock in removeTx, checkpoint or its drain callback, and by nobody else:
\* through commits, rollbacks, failed flushes and checkpoints, Close and crashes.
THEOREM WriterLockIsHeld == Spec => []WriterLockHeld
<1>1. LockInv => WriterLockHeld
  BY DEF LockInv
<1> QED BY <1>1, LockInvHolds, PTL

\* A writer that got the lock never has to wait on haltCond, where it would wait
\* for a checkpoint that needs its lock, whatever the three WAL sizes are, as long
\* as a checkpoint is forced no earlier than it is allowed.
THEOREM WritersNeverHalt == Spec => []WriterNeverHalts
<1>1. LockInv => WriterNeverHalts
  <2> SUFFICES ASSUME LockInv, NEW t \in TX, tx[t].st = "locked", opened, ~isDead
               PROVE  walPageN <= MaxWALCheckpointSize
    BY DEF WriterNeverHalts
  <2>1. rwmu = t
    BY DEF LockInv, WriterLockHeld, WritersOnly
  <2>2. \A u \in TX : tx[u].st # "published"
    BY <2>1 DEF LockInv, WriterLockHeld, WritersOnly
  <2> QED BY <2>1, <2>2, HolderAssumption DEF LockInv, WALBelowThreshold
<1> QED BY <1>1, LockInvHolds, PTL

\* When Close has waited for its transactions there are none: no Begin slips in
\* while it waits, and the files can be unmapped.
THEOREM CloseDrainsAll == Spec => []CloseDrains
<1>1. LockInv => CloseDrains
  BY DEF LockInv, CloseWaitsForAll, CloseDrains
<1> QED BY <1>1, LockInvHolds, PTL

-----------------------------------------------------------------------------
(* The files.  From here on: what transactions read and what is left of a  *)
(* commit after a crash.  Errors in the flush of a commit and in the       *)
(* truncation of the WAL are excluded: with them the theorems are false    *)
(* (see Flush and SyncWAL).                                                *)

-----------------------------------------------------------------------------
(* Files and views *)

WALPage == [kind : {"page", "hdr"}, pgno : Page, c : Content]

IsPage(x, p) == x.kind = "page" /\ x.pgno = p

PageN(view) == view[Meta].pageN

\* What attempt v can have made of the database.
IsView(view, v) ==
    /\ view \in [Page -> Content]
    /\ view[Meta].ver = v /\ PageN(view) \in 3..MaxPageN
    /\ \A p \in Page : p >= PageN(view) => view[p] = NoPage

\* n pages of the WAL w are left when it is cut after its last meta page.
Ends(w, n) ==
    /\ n \in 0..Len(w)
    /\ n > 0 => IsMetaPage(w[n])
    /\ \A j \in (n + 1)..Len(w) : ~IsMetaPage(w[j])

\* The last of the first n pages of the WAL w that is page p has content c.
LastIs(w, n, p, c) ==
    \E i \in 1..n : IsPage(w[i], p) /\ w[i].c = c /\ \A j \in (i + 1)..n : ~IsPage(w[j], p)

\* The first n pages of the WAL w over the data file, as it is (d) and as it was
\* last synced (ds), are a view.
Kept(w, n, d, ds, view) ==
    \A p \in Page : p < PageN(view) =>
        \/ LastIs(w, n, p, view[p])
        \/ (\A j \in 1..n : ~IsPage(w[j], p)) /\ d[p] = view[p] /\ ds[p] = view[p]

\* Open finds the view in the WAL w and the data file.
Holds(w, d, ds, view) == \E n \in 0..Len(w) : Ends(w, n) /\ Kept(w, n, d, ds, view)

\* The data file alone is the view.
DataHolds(d, ds, view) == \A p \in Page : p < PageN(view) => d[p] = view[p] /\ ds[p] = view[p]

\* Two WAL files agree on their first n pages.
Agree(w, ws, n) == n <= Len(w) /\ n <= Len(ws) /\ \A i \in 1..n : ws[i] = w[i]

\* Reading through the page map pm gives the view.
MapOK(pm, base, w, d, view) ==
    /\ pm \in [Page -> Nat]
    /\ \A p \in Page : pm[p] # 0 => pm[p] - base \in 1..Len(w)
    /\ \A p \in Page : p < PageN(view) =>
           view[p] = IF pm[p] # 0 THEN w[pm[p] - base].c ELSE d[p]

Zero(pm) == \A p \in Page : pm[p] = 0

-----------------------------------------------------------------------------
(* The invariant *)

Reads(t) == tx[t].st \in {"open", "failed"}
Pends(t) == tx[t].st \in {"flushed", "synced"}
NonePending == \A t \in TX : ~Pends(t)
NoneSynced == \A t \in TX : tx[t].st # "synced"

Current == hist[committed]
Newest == hist[Len(hist)]

HistOK ==
    /\ hist \in Seq([Page -> Content]) /\ committed \in 1..Len(hist)
    /\ \A v \in 1..Len(hist) : IsView(hist[v], v)

FileTypes ==
    /\ wal \in Seq(WALPage) /\ walSync \in Seq(WALPage)
    /\ Len(wal) <= MaxWALSize /\ Len(walSync) <= MaxWALSize
    /\ data \in [Page -> Content] /\ dataSync \in [Page -> Content]
    /\ pageMap \in [Page -> Nat] /\ baseWALID \in Nat

\* The length of the WAL without a commit that is not published.
CommittedN == IF NonePending THEN Len(wal) ELSE walPageN

Draining == ckpt.phase \in {"drain", "truncate", "sync", "shrink"}

\* The files of a database that is down hold some view.
DownOK ==
    /\ Agree(wal, walSync, Len(wal))
    /\ \E v \in 1..Len(hist) : /\ Holds(wal, data, dataSync, hist[v])
                               /\ Holds(walSync, data, dataSync, hist[v])

\* Those of one that is up hold the current view, and after it, once a transaction
\* has flushed, the view that it commits.
UpOK ==
    /\ CommittedN \in 0..Len(wal) /\ (CommittedN > 0 => IsMetaPage(wal[CommittedN]))
    /\ Kept(wal, CommittedN, data, dataSync, Current)
    /\ Draining \/ walPageN = CommittedN
    /\ NoneSynced => /\ Holds(walSync, data, dataSync, Current)
                     /\ Agree(wal, walSync, CommittedN)

PendingOK ==
    ~NonePending =>
        /\ walPageN < Len(wal) /\ IsMetaPage(wal[Len(wal)])
        /\ \A j \in (walPageN + 1)..(Len(wal) - 1) : ~IsMetaPage(wal[j])
        /\ Kept(wal, Len(wal), data, dataSync, Newest)
        /\ ~NoneSynced => walSync = wal

WALOK == IF status = "down" THEN DownOK ELSE UpOK /\ PendingOK

\* Memory: the page map leads to the current view, and WAL IDs count on from the
\* base.
MapInv ==
    /\ status \in {"down", "opening"} => Zero(pageMap)
    /\ status \in {"open", "closing"} => MapOK(pageMap, baseWALID, wal, data, Current)
    /\ status = "opening" /\ ckpt.phase = "wait" => baseWALID = data[Meta].walID
    /\ \/ status \in {"open", "closing"} /\ ckpt.phase # "drain"
       \/ ckpt.phase \in {"truncate", "sync", "shrink"}
       => Current[Meta].walID = baseWALID + walPageN
    /\ rootRecords # 0 => /\ status \in {"open", "closing"}
                          /\ rootRecords = Current[RootRecordPage].ver

\* A checkpoint copies the current view.
CkptInv ==
    /\ ckpt.phase = "copy" =>
           /\ ckpt.pages \in [Page -> 0..Len(wal)]
           /\ \A p \in Page : p < PageN(Current) =>
                  Current[p] = IF ckpt.pages[p] = 0 THEN data[p] ELSE wal[ckpt.pages[p]].c
    /\ ckpt.phase = "synced" \/ Draining => DataHolds(data, dataSync, Current)
    /\ Draining => Zero(pageMap)
    /\ ckpt.phase \in {"sync", "shrink"} => wal = <<>>
    /\ ckpt.pageN # 0 => ckpt.phase \notin {"none", "wait"} /\ ckpt.pageN = PageN(Current)

\* A transaction that reads has its view, and a checkpoint waits for it when it must.
ReaderOK(t) ==
    LET r == tx[t] IN
    /\ r.ver \in 1..Len(hist) /\ MapOK(r.pageMap, baseWALID, wal, data, hist[r.ver])
    /\ r.meta \in Content
    /\ r.meta.ver = r.ver /\ r.meta.walID = hist[r.ver][Meta].walID
    /\ r.rootRecords = IF RootRecordPage \in r.dirty THEN Len(hist) + 1
                       ELSE hist[r.ver][RootRecordPage].ver
    /\ ~r.writable => r.dirty = {}

WaitOK(t) ==
    /\ ckpt.phase = "none" \/ (ckpt.phase = "wait" /\ t \in ckpt.waitingOn)
       \/ tx[t].ver = committed
    /\ ckpt.phase = "drain" => t \in ckpt.waitingOn \/ Zero(tx[t].pageMap)
    /\ ckpt.phase \in {"truncate", "sync", "shrink"} => Zero(tx[t].pageMap)

\* What a writer commits is made from the current view.
WriterOK(t) ==
    LET r == tx[t] IN
    /\ r.ver = committed /\ r.walPageN = walPageN
    /\ r.meta.pageN \in PageN(Current)..MaxPageN
    /\ r.dirty \subseteq 1..(r.meta.pageN - 1)
    /\ PageN(Current)..(r.meta.pageN - 1) \subseteq r.dirty

CommitterOK(t) ==
    LET r == tx[t] IN
    /\ MapOK(r.pageMap, baseWALID, wal, data, Newest) /\ r.meta = Newest[Meta]
    /\ r.walPageN = Len(wal) /\ r.meta.walID = baseWALID + Len(wal)
    /\ r.rootRecords = Newest[RootRecordPage].ver

TxOK(t) ==
    /\ tx[t].st # "aborted"
    /\ Reads(t) => ReaderOK(t) /\ WaitOK(t) /\ (tx[t].writable => WriterOK(t))
    /\ Pends(t) => CommitterOK(t)

TxsOK == \A t \in TX : TxOK(t)

FileInv == LockInv /\ HistOK /\ FileTypes /\ WALOK /\ MapInv /\ CkptInv /\ TxsOK

-----------------------------------------------------------------------------
(* Lemmas about files and views *)

\* The pages every database has.
LEMMA PageFacts ==
    /\ Page \subseteq Nat /\ Meta \in Page /\ RootRecordPage \in Page /\ FreelistPage \in Page
    /\ \A n \in 3..MaxPageN : Meta < n /\ RootRecordPage < n /\ FreelistPage < n /\ n \in Nat
BY BoundAssumption DEF Page, Meta, RootRecordPage, FreelistPage

\* A view has them.
LEMMA ViewPageN ==
    ASSUME NEW v, NEW view, IsView(view, v)
    PROVE  PageN(view) \in Nat /\ PageN(view) \in 3..MaxPageN /\ Meta < PageN(view)
           /\ RootRecordPage < PageN(view)
BY PageFacts DEF IsView

\* A page map stays good when the WAL grows, ...
LEMMA MapGrows ==
    ASSUME NEW pm, NEW base \in Nat, NEW w \in Seq(WALPage), NEW x \in Seq(WALPage), NEW d, NEW view,
           MapOK(pm, base, w, d, view)
    PROVE  MapOK(pm, base, w \o x, d, view)
<1>1. Len(w) \in Nat /\ Len(x) \in Nat /\ Len(w \o x) = Len(w) + Len(x)
  OBVIOUS
<1>2. \A i \in 1..Len(w) : (w \o x)[i] = w[i] /\ i \in 1..Len(w \o x)
  BY <1>1
<1>3. \A p \in Page : pm[p] # 0 => pm[p] - base \in 1..Len(w)
  BY DEF MapOK
<1> QED BY <1>2, <1>3 DEF MapOK

\* ... when a page of the view is copied into the data file, ...
LEMMA MapCopied ==
    ASSUME NEW pm, NEW base, NEW w, NEW d \in [Page -> Content], NEW view, NEW q \in Page, NEW c,
           MapOK(pm, base, w, d, view), q < PageN(view) => c = view[q]
    PROVE  MapOK(pm, base, w, [d EXCEPT ![q] = c], view)
BY DEF MapOK

\* ... and when the data file is cut behind the view.
LEMMA MapShrunk ==
    ASSUME NEW pm, NEW base, NEW w, NEW d, NEW e, NEW view,
           MapOK(pm, base, w, d, view), \A p \in Page : p < PageN(view) => e[p] = d[p]
    PROVE  MapOK(pm, base, w, e, view)
BY DEF MapOK

\* Without a page map the data file is read.
LEMMA MapZero ==
    ASSUME NEW pm \in [Page -> Nat], Zero(pm), NEW base, NEW w, NEW d, NEW ds, NEW view,
           DataHolds(d, ds, view)
    PROVE  MapOK(pm, base, w, d, view)
BY DEF MapOK, Zero, DataHolds

\* ... whatever becomes of the WAL.
LEMMA MapZeroAnywhere ==
    ASSUME NEW pm, Zero(pm), NEW base, NEW w, NEW base2, NEW w2, NEW d, NEW view,
           MapOK(pm, base, w, d, view)
    PROVE  MapOK(pm, base2, w2, d, view)
BY DEF MapOK, Zero

\* What files hold does not depend on how they are written: a checkpoint may copy
\* pages of the view, sync them and cut the file, a crash may lose what was not synced.
LEMMA KeptSame ==
    ASSUME NEW w, NEW n, NEW d, NEW ds, NEW e, NEW es, NEW view,
           Kept(w, n, d, ds, view),
           \A p \in Page : p < PageN(view) /\ d[p] = view[p] /\ ds[p] = view[p] =>
               e[p] = view[p] /\ es[p] = view[p]
    PROVE  Kept(w, n, e, es, view)
BY DEF Kept

\* The same for the view that Open finds.
LEMMA HoldsSame ==
    ASSUME NEW w, NEW d, NEW ds, NEW e, NEW es, NEW view,
           Holds(w, d, ds, view),
           \A p \in Page : p < PageN(view) /\ d[p] = view[p] /\ ds[p] = view[p] =>
               e[p] = view[p] /\ es[p] = view[p]
    PROVE  Holds(w, e, es, view)
BY KeptSame DEF Holds

\* The first n pages of a WAL are what counts.
LEMMA KeptPrefix ==
    ASSUME NEW w, NEW x, NEW n, NEW d, NEW ds, NEW view, n \in Nat,
           Kept(w, n, d, ds, view), \A i \in 1..n : x[i] = w[i]
    PROVE  Kept(x, n, d, ds, view)
<1>1. ASSUME NEW p, NEW c, LastIs(w, n, p, c) PROVE LastIs(x, n, p, c)
  <2>1. PICK i \in 1..n : IsPage(w[i], p) /\ w[i].c = c /\ \A j \in (i + 1)..n : ~IsPage(w[j], p)
    BY <1>1 DEF LastIs
  <2>2. \A j \in (i + 1)..n : j \in 1..n
    OBVIOUS
  <2> QED BY <2>1, <2>2 DEF LastIs
<1> QED BY <1>1 DEF Kept

\* An empty WAL adds nothing to the data file.
LEMMA KeptNothing ==
    ASSUME NEW w, NEW d, NEW ds, NEW view
    PROVE  Kept(w, 0, d, ds, view) <=> DataHolds(d, ds, view)
<1>1. 1..0 = {}
  OBVIOUS
<1> QED BY <1>1 DEF Kept, DataHolds, LastIs

\* A WAL has one end.
LEMMA EndsUnique ==
    ASSUME NEW w \in Seq(WALPage), NEW n, NEW m, Ends(w, n), Ends(w, m)
    PROVE  n = m
BY DEF Ends

\* A number of numbers below a bound has a greatest.
LEMMA GreatestElement ==
    ASSUME NEW n \in Nat, NEW S \in SUBSET (1..n), S # {}
    PROVE  \E i \in S : \A j \in S : i >= j
<1> DEFINE T == {n - i : i \in S}
<1>1. T \in SUBSET Nat /\ T # {}
  <2>1. \A i \in S : n - i \in Nat
    OBVIOUS
  <2>2. PICK i \in S : TRUE
    OBVIOUS
  <2> QED BY <2>1, <2>2
<1>2. PICK m \in T : \A k \in T : m <= k
  <2> HIDE DEF T
  <2> QED BY <1>1, LeastElement
<1>3. PICK i \in S : m = n - i
  BY <1>2
<1>4. ASSUME NEW j \in S PROVE i >= j
  <2>1. n - j \in T
    OBVIOUS
  <2>2. n - i <= n - j
    BY <1>2, <1>3, <2>1
  <2> QED BY <2>2
<1> QED BY <1>4

\* Open cuts a WAL at its end.
LEMMA LastMetaEnds ==
    ASSUME NEW w \in Seq(WALPage)
    PROVE  Ends(w, LastMeta(w))
<1> DEFINE I == {i \in 1..Len(w) : IsMetaPage(w[i])}
<1>1. Len(w) \in Nat
  OBVIOUS
<1>2. CASE I = {}
  <2>1. LastMeta(w) = 0
    BY <1>2 DEF LastMeta
  <2> QED BY <1>1, <1>2, <2>1 DEF Ends
<1>3. CASE I # {}
  <2>1. \E i \in I : \A j \in I : i >= j
    <3>1. I \in SUBSET (1..Len(w))
      OBVIOUS
    <3> HIDE DEF I
    <3> QED BY <1>1, <1>3, <3>1, GreatestElement
  <2>2. LastMeta(w) = CHOOSE i \in I : \A j \in I : i >= j
    BY <1>3 DEF LastMeta
  <2>3. LastMeta(w) \in I /\ \A j \in I : LastMeta(w) >= j
    BY <2>1, <2>2
  <2> QED BY <1>1, <2>3 DEF Ends
<1> QED BY <1>2, <1>3

\* The version of the view that files hold is that of the last meta page.
LEMMA EndsMeta ==
    ASSUME NEW w \in Seq(WALPage), NEW n, Ends(w, n), NEW d, NEW ds, NEW v, NEW view,
           IsView(view, v), Kept(w, n, d, ds, view)
    PROVE  IF n > 0 THEN w[n].c = view[Meta] ELSE d[Meta] = view[Meta]
<1>1. n \in Nat /\ Len(w) \in Nat
  BY DEF Ends
<1>2. Meta \in Page /\ Meta < PageN(view)
  BY ViewPageN, PageFacts
<1>3. CASE n > 0
  <2>1. IsPage(w[n], Meta)
    BY <1>3 DEF Ends, IsMetaPage, IsPage
  <2>2. LastIs(w, n, Meta, view[Meta])
    BY <1>1, <1>2, <1>3, <2>1 DEF Kept
  <2>3. PICK i \in 1..n : w[i].c = view[Meta] /\ \A j \in (i + 1)..n : ~IsPage(w[j], Meta)
    BY <2>2 DEF LastIs
  <2>4. i = n
    BY <1>1, <2>1, <2>3
  <2> QED BY <1>3, <2>3, <2>4
<1>4. CASE ~(n > 0)
  <2>1. n = 0
    BY <1>1, <1>4
  <2> QED BY <1>2, <2>1, KeptNothing DEF DataHolds
<1> QED BY <1>3, <1>4

-----------------------------------------------------------------------------
(* Steps that change transactions and nothing on disk *)

\* As far as the files, the page map and the checkpoint go.
LEMMA MemoryStep ==
    ASSUME FileInv, UNCHANGED <<diskVars, histVars, pageMap, walPageN, baseWALID>>,
           status' = status \/ (status = "open" /\ status' = "closing"),
           \/ ckpt' = ckpt
           \/ /\ ckpt'.phase = ckpt.phase /\ ckpt'.pages = ckpt.pages /\ ckpt'.pageN = ckpt.pageN
           \/ /\ ckpt.phase = "none" /\ ckpt'.phase = "wait" /\ ckpt'.pageN = 0
              /\ status \in {"open", "closing"},
           \A u \in TX : /\ (tx'[u].st \in {"flushed", "synced"}) = (tx[u].st \in {"flushed", "synced"})
                         /\ (tx'[u].st = "synced") = (tx[u].st = "synced"),
           \/ rootRecords' = rootRecords
           \/ status \in {"open", "closing"} /\ rootRecords' = Current[RootRecordPage].ver
    PROVE  HistOK' /\ FileTypes' /\ WALOK' /\ MapInv' /\ CkptInv'
<1>1. /\ UNCHANGED <<data, dataSync, wal, walSync, hist, committed>>
      /\ Current' = Current /\ Newest' = Newest
  BY DEF diskVars, histVars, Current, Newest
<1>2. HistOK'
  BY <1>1 DEF FileInv, HistOK
<1>3. FileTypes'
  BY <1>1 DEF FileInv, FileTypes
<1>4. /\ NonePending' = NonePending /\ NoneSynced' = NoneSynced /\ CommittedN' = CommittedN
      /\ Draining' = Draining
  <2>1. NonePending' = NonePending
    BY DEF NonePending, Pends
  <2>2. NoneSynced' = NoneSynced
    BY DEF NoneSynced
  <2>3. CommittedN' = CommittedN
    BY <1>1, <2>1 DEF CommittedN
  <2>4. Draining' = Draining
    BY DEF Draining
  <2> QED BY <2>1, <2>2, <2>3, <2>4
<1>5. WALOK'
  <2>1. DownOK' = DownOK
    BY <1>1 DEF DownOK
  <2>2. UpOK' = UpOK
    BY <1>1, <1>4 DEF UpOK
  <2>3. PendingOK' = PendingOK
    BY <1>1, <1>4 DEF PendingOK
  <2> QED BY <2>1, <2>2, <2>3 DEF FileInv, WALOK
<1>6. MapInv'
  BY <1>1 DEF FileInv, MapInv
<1>7. CkptInv'
  BY <1>1, <1>4 DEF FileInv, CkptInv, Draining
<1> QED BY <1>2, <1>3, <1>5, <1>6, <1>7

\* A transaction that a step does not change, nor what it reads, stays as it should be.
LEMMA OtherTx ==
    ASSUME NEW u \in TX, TxOK(u), tx'[u] = tx[u], Reads(u) => WaitOK(u)',
           UNCHANGED <<wal, data, hist, committed, walPageN, baseWALID>>
    PROVE  TxOK(u)'
<1>1. Current' = Current /\ Newest' = Newest
  BY DEF Current, Newest
<1>2. Reads(u)' = Reads(u) /\ Pends(u)' = Pends(u)
  BY DEF Reads, Pends
<1>3. ReaderOK(u) => ReaderOK(u)'
  BY DEF ReaderOK
<1>4. WriterOK(u) => WriterOK(u)'
  BY <1>1 DEF WriterOK
<1>5. CommitterOK(u) => CommitterOK(u)'
  BY <1>1 DEF CommitterOK
<1> QED BY <1>2, <1>3, <1>4, <1>5 DEF TxOK
\* A step of one transaction that leaves everything else alone.
LEMMA OneTxStep ==
    ASSUME FileInv, LockInv', NEW t \in TX, \A u \in TX \ {t} : tx'[u] = tx[u], TxOK(t)',
           tx[t].st \notin {"flushed", "synced"}, tx'[t].st \notin {"flushed", "synced"},
           UNCHANGED <<diskVars, histVars, status, pageMap, walPageN, baseWALID, ckpt>>,
           \/ rootRecords' = rootRecords
           \/ status \in {"open", "closing"} /\ rootRecords' = Current[RootRecordPage].ver
    PROVE  FileInv'
<1>1. HistOK' /\ FileTypes' /\ WALOK' /\ MapInv' /\ CkptInv'
  <2>1. \A u \in TX :
            /\ (tx'[u].st \in {"flushed", "synced"}) = (tx[u].st \in {"flushed", "synced"})
            /\ (tx'[u].st = "synced") = (tx[u].st = "synced")
    OBVIOUS
  <2> QED BY <2>1, MemoryStep
<1>2. ASSUME NEW u \in TX PROVE TxOK(u)'
  <2>1. CASE u # t
    <3>1. TxOK(u) /\ tx'[u] = tx[u]
      BY <2>1 DEF FileInv, TxsOK
    <3>2. UNCHANGED <<wal, data, hist, committed, walPageN, baseWALID, ckpt>>
      BY DEF diskVars, histVars
    <3>3. Reads(u) => WaitOK(u)'
      BY <3>1, <3>2 DEF TxOK, WaitOK
    <3> QED BY <3>1, <3>2, <3>3, OtherTx
  <2> QED BY <2>1
<1> QED BY <1>1, <1>2 DEF FileInv, TxsOK

\* The record of transaction t after a step.
LEMMA TxAfter ==
    ASSUME LockInv, NEW t \in TX, NEW r, tx' = [tx EXCEPT ![t] = r]
    PROVE  tx'[t] = r /\ \A u \in TX \ {t} : tx'[u] = tx[u]
<1>1. tx = [u \in TX |-> tx[u]]
  BY DEF LockInv, LockTypeOK
<1> QED BY <1>1

\* Begin returns the current view.
LEMMA NewTxOK ==
    ASSUME FileInv, status \in {"open", "closing"}, NEW w
    PROVE  LET r == NewTx(w) IN
           /\ r.st = "open" /\ r.writable = w /\ r.pageMap = pageMap /\ r.walPageN = walPageN
           /\ r.meta = Current[Meta] /\ r.dirty = {} /\ r.ver = committed
           /\ r.rootRecords = Current[RootRecordPage].ver
<1>1. MapOK(pageMap, baseWALID, wal, data, Current)
  BY DEF FileInv, MapInv
<1>2. IsView(Current, committed)
  BY DEF FileInv, HistOK, Current
<1>3. \A p \in Page : p < PageN(Current) => ReadMapped(pageMap, p) = Current[p]
  BY <1>1 DEF MapOK, ReadMapped, readWALPageByID
<1>4. readMetaPage = Current[Meta] /\ ReadMapped(pageMap, RootRecordPage) = Current[RootRecordPage]
  BY <1>2, <1>3, ViewPageN, PageFacts DEF readMetaPage
<1>5. rootRecords # 0 => rootRecords = Current[RootRecordPage].ver
  BY DEF FileInv, MapInv
<1> QED BY <1>4, <1>5 DEF NewTx

\* Begin gives the transaction the current view.
LEMMA NewTxStep ==
    ASSUME FileInv, LockInv', NEW t \in TX, NEW w \in BOOLEAN,
           tx[t].st \in {"none", "locked"}, status \in {"open", "closing"},
           tx' = [tx EXCEPT ![t] = NewTx(w)], rootRecords' = tx'[t].rootRecords,
           UNCHANGED <<diskVars, histVars, status, pageMap, walPageN, baseWALID, ckpt>>
    PROVE  FileInv'
<1> DEFINE r == NewTx(w)
<1>1. /\ r.st = "open" /\ r.writable = w /\ r.pageMap = pageMap /\ r.walPageN = walPageN
      /\ r.meta = Current[Meta] /\ r.dirty = {} /\ r.ver = committed
      /\ r.rootRecords = Current[RootRecordPage].ver
  BY NewTxOK
<1>2. tx'[t] = r /\ \A u \in TX \ {t} : tx'[u] = tx[u]
  BY TxAfter DEF FileInv
<1> HIDE DEF r
<1>3. /\ UNCHANGED <<data, dataSync, wal, walSync, hist, committed>>
      /\ Current' = Current /\ Newest' = Newest
  BY DEF diskVars, histVars, Current, Newest
<1>4. IsView(Current, committed) /\ committed \in 1..Len(hist)
  BY DEF FileInv, HistOK, Current
<1>5. ReaderOK(t)'
  <2>1. MapOK(pageMap, baseWALID, wal, data, hist[committed])
    BY DEF FileInv, MapInv, Current
  <2>2. Current[Meta] \in Content /\ Current[Meta].ver = committed
    BY <1>4, PageFacts DEF IsView
  <2> QED BY <1>1, <1>2, <1>3, <1>4, <2>1, <2>2 DEF ReaderOK, Current
<1>6. WaitOK(t)'
  <2>1. Draining => Zero(pageMap)
    BY DEF FileInv, CkptInv
  <2> QED BY <1>1, <1>2, <1>3, <2>1 DEF WaitOK, Draining
<1>7. WriterOK(t)'
  <2>1. PageN(Current) \in PageN(Current)..MaxPageN
        /\ PageN(Current)..(PageN(Current) - 1) = {}
    BY <1>4, ViewPageN, BoundAssumption
  <2> QED BY <1>1, <1>2, <1>3, <2>1 DEF WriterOK, PageN
<1>8. TxOK(t)'
  BY <1>1, <1>2, <1>5, <1>6, <1>7 DEF TxOK, Reads, Pends
<1> QED BY <1>1, <1>2, <1>8, OneTxStep

\* Writing on a page keeps the file dense: what lies past its old end is dirty.
LEMMA DirtyStep ==
    ASSUME FileInv, LockInv', NEW t \in TX, NEW p \in Page, p # Meta, NEW n \in Nat, Dirty(t, p, n),
           p < n, n = tx[t].meta.pageN \/ (p = tx[t].meta.pageN /\ n = p + 1 /\ p < MaxPageN)
    PROVE  FileInv'
<1> DEFINE old == tx[t]
           d == old.dirty \cup {p}
           s == IF TxTooLarge(t, d) THEN "failed" ELSE "open"
           rr == IF p = RootRecordPage THEN Len(hist) + 1 ELSE old.rootRecords
           m == [old.meta EXCEPT !.pageN = n]
           r == [old EXCEPT !.dirty = d, !.meta = m, !.rootRecords = rr, !.st = s]
<1>1. IsTx(old) /\ old.st = "open" /\ old.writable
  BY DEF FileInv, LockInv, LockTypeOK, Dirty
<1>2. tx' = [tx EXCEPT ![t] = r]
  BY ZenonT(60) DEF Dirty
<1>3. /\ r.dirty = d /\ r.meta = m /\ r.rootRecords = rr /\ r.st = s
      /\ r.ver = old.ver /\ r.pageMap = old.pageMap /\ r.walPageN = old.walPageN
      /\ r.writable = old.writable
  <2> HIDE DEF d, s, rr, m
  <2> QED BY <1>1 DEF IsTx, TxField
<1>4. s \in {"open", "failed"}
  OBVIOUS
<1> HIDE DEF r, s
<1>5. tx'[t] = r /\ \A u \in TX \ {t} : tx'[u] = tx[u]
  BY <1>2, TxAfter DEF FileInv
<1>6. UNCHANGED <<diskVars, dbVars, ckpt, histVars>>
  BY DEF Dirty
<1>7. /\ UNCHANGED <<wal, data, hist, committed, walPageN, baseWALID, ckpt, pageMap, status, rootRecords>>
      /\ Current' = Current
  BY <1>6 DEF diskVars, dbVars, histVars, Current
<1>8. ReaderOK(t) /\ WaitOK(t) /\ WriterOK(t)
  BY <1>1 DEF FileInv, TxsOK, TxOK, Reads
<1>9. m \in Content /\ m.ver = old.meta.ver /\ m.walID = old.meta.walID /\ m.pageN = n
  BY <1>8 DEF ReaderOK, Content
<1> HIDE DEF m
<1>10. RootRecordPage \in d => rr = Len(hist) + 1
  BY <1>8 DEF ReaderOK
<1>11. RootRecordPage \notin d => rr = hist[old.ver][RootRecordPage].ver
  BY <1>8 DEF ReaderOK
<1>12. ReaderOK(t)'
  BY <1>1, <1>3, <1>5, <1>7, <1>8, <1>9, <1>10, <1>11 DEF ReaderOK
<1>13. WaitOK(t)'
  BY <1>3, <1>5, <1>7, <1>8 DEF WaitOK
<1>14. WriterOK(t)'
  <2>1. PageN(Current) \in Nat /\ MaxPageN \in Nat /\ p \in Nat /\ p > 0
    <3>1. IsView(Current, committed)
      BY DEF FileInv, HistOK, Current
    <3> QED BY <3>1, ViewPageN, BoundAssumption DEF Page, Meta
  <2>2. /\ old.meta.pageN \in PageN(Current)..MaxPageN
        /\ old.dirty \subseteq 1..(old.meta.pageN - 1)
        /\ PageN(Current)..(old.meta.pageN - 1) \subseteq old.dirty
    BY <1>8 DEF WriterOK
  <2>3. n \in PageN(Current)..MaxPageN
    BY <2>1, <2>2
  <2>4. d \subseteq 1..(n - 1)
    BY <2>1, <2>2
  <2>5. PageN(Current)..(n - 1) \subseteq d
    <3>1. ASSUME NEW q \in PageN(Current)..(n - 1) PROVE q \in d
      <4>1. q = p \/ q \in PageN(Current)..(old.meta.pageN - 1)
        BY <2>1, <2>2, <3>1
      <4> QED BY <2>2, <4>1
    <3> QED BY <3>1
  <2> HIDE DEF d
  <2> QED BY <1>3, <1>5, <1>7, <1>8, <1>9, <2>3, <2>4, <2>5 DEF WriterOK
<1>15. TxOK(t)'
  BY <1>3, <1>4, <1>5, <1>12, <1>13, <1>14 DEF TxOK, Reads, Pends
<1> QED BY <1>1, <1>3, <1>4, <1>5, <1>6, <1>7, <1>15, OneTxStep

\* The other steps of Begin.
LEMMA LockStep ==
    ASSUME FileInv, LockInv', NEW t \in TX, BeginWrite(t) \/ LockWriter(t) \/ BeginFails(t)
    PROVE  FileInv'
<1>1. /\ tx[t].st \in {"none", "want", "locked"}
      /\ \E r : tx' = [tx EXCEPT ![t] = r] /\ r.st \in {"none", "want", "locked"}
  <2>1. IsTx(tx[t])
    BY DEF FileInv, LockInv, LockTypeOK
  <2>2. CASE BeginWrite(t)
    <3>1. tx' = [tx EXCEPT ![t] = [tx[t] EXCEPT !.st = "want", !.writable = TRUE]]
      BY <2>2 DEF BeginWrite
    <3>2. [tx[t] EXCEPT !.st = "want", !.writable = TRUE].st = "want"
      BY <2>1 DEF IsTx, TxField
    <3>3. tx[t].st = "none"
      BY <2>2 DEF BeginWrite
    <3> QED BY <3>1, <3>2, <3>3
  <2>3. CASE LockWriter(t)
    <3>1. tx' = [tx EXCEPT ![t] = [tx[t] EXCEPT !.st = "locked"]]
      BY <2>3 DEF LockWriter
    <3>2. [tx[t] EXCEPT !.st = "locked"].st = "locked"
      BY <2>1 DEF IsTx, TxField
    <3>3. tx[t].st = "want"
      BY <2>3 DEF LockWriter
    <3> QED BY <3>1, <3>2, <3>3
  <2>4. CASE BeginFails(t)
    <3>1. tx' = [tx EXCEPT ![t] = NoTx] /\ NoTx.st = "none" /\ tx[t].st = "locked"
      BY <2>4 DEF BeginFails, NoTx
    <3> QED BY <3>1
  <2> QED BY <2>2, <2>3, <2>4
<1>2. tx'[t].st \in {"none", "want", "locked"} /\ \A u \in TX \ {t} : tx'[u] = tx[u]
  BY <1>1, TxAfter DEF FileInv
<1>3. TxOK(t)'
  BY <1>2 DEF TxOK, Reads, Pends
<1>4. UNCHANGED <<diskVars, histVars, status, pageMap, walPageN, baseWALID, ckpt, rootRecords>>
  BY DEF BeginWrite, LockWriter, BeginFails, dbVars
<1> QED BY <1>1, <1>2, <1>3, <1>4, OneTxStep

\* The end of a transaction: a checkpoint that begins waits for all the others.
LEMMA RemoveStep ==
    ASSUME FileInv, LockInv', NEW t \in TX, RemoveTx(t)
    PROVE  FileInv'
<1>1. /\ tx[t].st \in {"open", "failed", "aborted", "published"} /\ tx' = [tx EXCEPT ![t] = NoTx]
      /\ UNCHANGED <<diskVars, histVars, status, pageMap, walPageN, baseWALID, rootRecords>>
  BY DEF RemoveTx
<1>2. tx'[t].st = "none" /\ \A u \in TX \ {t} : tx'[u] = tx[u]
  <2>1. tx'[t] = NoTx /\ \A u \in TX \ {t} : tx'[u] = tx[u]
    BY <1>1, TxAfter DEF FileInv
  <2> QED BY <2>1 DEF NoTx
<1>3. status \in {"open", "closing"}
  BY <1>1 DEF FileInv, LockInv, LockTypeOK, NoTxBeforeOpen
<1>4. IsCkpt(ckpt)
  BY DEF FileInv, LockInv, LockTypeOK
<1>5. CASE NeedsCheckpoint(t)
  <2>1. ckpt' = [NoCkpt EXCEPT !.phase = "wait", !.waitingOn = txs \ {t}]
    BY <1>5 DEF RemoveTx
  <2>2. ckpt'.phase = "wait" /\ ckpt'.waitingOn = txs \ {t} /\ ckpt'.pageN = 0
    BY <2>1 DEF NoCkpt
  <2>3. ckpt.phase = "none"
    <3>1. rwmu = t
      BY <1>1, <1>5 DEF NeedsCheckpoint, FileInv, LockInv, WriterLockHeld
    <3> QED BY <3>1, HolderAssumption DEF FileInv, LockInv, WriterLockHeld
  <2>4. HistOK' /\ FileTypes' /\ WALOK' /\ MapInv' /\ CkptInv'
    BY <1>1, <1>2, <1>3, <2>2, <2>3, MemoryStep
  <2>5. ASSUME NEW u \in TX, u # t, Reads(u) PROVE WaitOK(u)'
    <3>1. u \in txs
      BY <2>5 DEF Reads, txs
    <3> QED BY <2>2, <2>5, <3>1 DEF WaitOK
  <2> QED BY <1>1, <1>2, <2>4, <2>5, OtherTx DEF FileInv, TxsOK, TxOK, Reads, Pends, diskVars, histVars
<1>6. CASE ~NeedsCheckpoint(t)
  <2>1. ckpt' = [ckpt EXCEPT !.waitingOn = @ \ {t}]
    BY <1>6 DEF RemoveTx
  <2>2. /\ ckpt'.phase = ckpt.phase /\ ckpt'.pages = ckpt.pages /\ ckpt'.pageN = ckpt.pageN
        /\ ckpt'.waitingOn = ckpt.waitingOn \ {t}
    BY <1>4, <2>1 DEF IsCkpt, CkptField
  <2>3. HistOK' /\ FileTypes' /\ WALOK' /\ MapInv' /\ CkptInv'
    BY <1>1, <1>2, <2>2, MemoryStep
  <2>4. ASSUME NEW u \in TX, u # t, Reads(u) PROVE WaitOK(u)'
    <3>1. WaitOK(u)
      BY <2>4 DEF FileInv, TxsOK, TxOK
    <3>2. committed' = committed
      BY <1>1 DEF histVars
    <3> QED BY <1>2, <2>2, <2>4, <3>1, <3>2 DEF WaitOK
  <2> QED BY <1>1, <1>2, <2>3, <2>4, OtherTx DEF FileInv, TxsOK, TxOK, Reads, Pends, diskVars, histVars
<1> QED BY <1>5, <1>6

\* Close, and a step that does nothing.
LEMMA IdleStep ==
    ASSUME FileInv, LockInv', Close \/ UNCHANGED vars
    PROVE  FileInv'
<1>1. /\ UNCHANGED <<diskVars, histVars, pageMap, walPageN, baseWALID, rootRecords, ckpt, tx>>
      /\ status' = status \/ (status = "open" /\ status' = "closing")
  BY DEF Close, vars, diskVars, histVars
<1>2. HistOK' /\ FileTypes' /\ WALOK' /\ MapInv' /\ CkptInv'
  BY <1>1, MemoryStep
<1>3. ASSUME NEW u \in TX PROVE TxOK(u)'
  <2>1. Reads(u) => WaitOK(u)'
    BY <1>1 DEF FileInv, TxsOK, TxOK, WaitOK, histVars
  <2> QED BY <1>1, <2>1, OtherTx DEF FileInv, TxsOK, diskVars, histVars
<1> QED BY <1>2, <1>3 DEF FileInv, TxsOK

-----------------------------------------------------------------------------
(* The checkpoint *)

\* While there is a checkpoint nobody commits.
LEMMA CkptFacts ==
    ASSUME FileInv, ckpt.phase # "none"
    PROVE  /\ NonePending /\ NoneSynced /\ status # "down"
           /\ \A t \in TX : Reads(t) => ~tx[t].writable
           /\ IsView(Current, committed)
           /\ Len(wal) \in Nat /\ (Len(wal) > 0 => IsMetaPage(wal[Len(wal)]))
           /\ Kept(wal, Len(wal), data, dataSync, Current)
           /\ Draining \/ walPageN = Len(wal)
           /\ Holds(walSync, data, dataSync, Current)
           /\ Agree(wal, walSync, Len(wal))
<1>1. rwmu = Checkpointer
  BY DEF FileInv, LockInv, WriterLockHeld
<1>2. \A t \in TX : tx[t].st \in {"none", "want"} \/ ~tx[t].writable
  BY <1>1, HolderAssumption DEF FileInv, LockInv, WriterLockHeld
<1>3. NonePending /\ NoneSynced /\ \A t \in TX : Reads(t) => ~tx[t].writable
  BY <1>2 DEF FileInv, LockInv, WritersOnly, NonePending, NoneSynced, Pends, Reads
<1>4. status # "down"
  BY <1>1, HolderAssumption DEF FileInv, LockInv, NoTxBeforeOpen
<1>5. CommittedN = Len(wal) /\ Len(wal) \in Nat
  BY <1>3 DEF CommittedN, FileInv, FileTypes
<1>6. IsView(Current, committed)
  BY DEF FileInv, HistOK, Current
<1>7. UpOK
  BY <1>4 DEF FileInv, WALOK
<1> QED BY <1>3, <1>4, <1>5, <1>6, <1>7 DEF UpOK

\* What a step of the checkpoint has to keep.
LEMMA CkptWAL ==
    ASSUME NonePending, NoneSynced, tx' = tx, status' # "down", Len(wal') \in Nat,
           Len(wal') > 0 => IsMetaPage(wal'[Len(wal')]),
           Kept(wal', Len(wal'), data', dataSync', Current'),
           Draining' \/ walPageN' = Len(wal'),
           Holds(walSync', data', dataSync', Current'),
           Agree(wal', walSync', Len(wal'))
    PROVE  WALOK'
<1>1. NonePending' /\ NoneSynced'
  BY DEF NonePending, NoneSynced, Pends
<1>2. CommittedN' = Len(wal')
  BY <1>1 DEF CommittedN
<1>3. UpOK'
  BY <1>1, <1>2 DEF UpOK
<1>4. PendingOK'
  BY <1>1 DEF PendingOK
<1> QED BY <1>3, <1>4 DEF WALOK

\* A checkpoint's step keeps what transactions read if it keeps what page maps lead to.
LEMMA CkptTxs ==
    ASSUME FileInv, ckpt.phase # "none", tx' = tx, UNCHANGED histVars,
           \A u \in TX : Reads(u) =>
               MapOK(tx[u].pageMap, baseWALID', wal', data', hist[tx[u].ver]) /\ WaitOK(u)'
    PROVE  TxsOK'
<1>1. NonePending /\ \A t \in TX : Reads(t) => ~tx[t].writable
  BY CkptFacts
<1>2. ASSUME NEW u \in TX PROVE TxOK(u)'
  <2>1. TxOK(u)
    BY DEF FileInv, TxsOK
  <2>2. Reads(u) => ReaderOK(u)'
    BY <2>1 DEF TxOK, ReaderOK, histVars
  <2> QED BY <1>1, <2>1, <2>2 DEF TxOK, NonePending, Reads, Pends
<1> QED BY <1>2 DEF TxsOK

\* Nothing to do.
LEMMA SkipStep ==
    ASSUME FileInv, LockInv', CheckpointSkips
    PROVE  FileInv'
<1>1. /\ ckpt.phase = "wait" /\ (~opened \/ walPageN = 0) /\ ckpt' = NoCkpt
      /\ status' = (IF status = "opening" THEN "open" ELSE status)
      /\ UNCHANGED <<data, dataSync, wal, walSync, pageMap, walPageN, baseWALID, rootRecords, tx,
                     hist, committed>>
  BY DEF CheckpointSkips, Opened, diskVars, histVars
<1>2. ckpt'.phase = "none" /\ ckpt'.pageN = 0 /\ ~Draining' /\ ~Draining
  BY <1>1 DEF NoCkpt, Draining
<1>3. Current' = Current /\ Newest' = Newest
  BY <1>1 DEF Current, Newest
<1>4. HistOK' /\ FileTypes'
  BY <1>1 DEF FileInv, HistOK, FileTypes
<1>5. WALOK'
  BY <1>1, <1>2, <1>3, CkptFacts, CkptWAL
<1>6. CkptInv'
  BY <1>2 DEF CkptInv
<1>7. MapInv'
  <2>1. CASE status = "opening"
    <3>1. walPageN = 0 /\ Len(wal) = 0
      BY <1>1, <1>2, <2>1, CkptFacts DEF opened
    <3>2. DataHolds(data, dataSync, Current)
      BY <1>1, <3>1, CkptFacts, KeptNothing
    <3>3. Zero(pageMap) /\ pageMap \in [Page -> Nat] /\ rootRecords = 0
      BY <2>1 DEF FileInv, MapInv, FileTypes
    <3>4. MapOK(pageMap, baseWALID, wal, data, Current)
      BY <3>2, <3>3, MapZero
    <3>5. baseWALID = Current[Meta].walID /\ baseWALID \in Nat
      <4>1. Meta \in Page /\ Meta < PageN(Current)
        BY <1>1, CkptFacts, ViewPageN, PageFacts
      <4> QED BY <1>1, <2>1, <3>2, <4>1 DEF FileInv, MapInv, DataHolds, FileTypes
    <3> QED BY <1>1, <1>2, <1>3, <2>1, <3>1, <3>3, <3>4, <3>5 DEF MapInv
  <2>2. CASE status # "opening"
    BY <1>1, <1>2, <1>3, <2>2 DEF FileInv, MapInv
  <2> QED BY <2>1, <2>2
<1>8. TxsOK'
  <2>1. ASSUME NEW u \in TX, Reads(u)
        PROVE  MapOK(tx[u].pageMap, baseWALID', wal', data', hist[tx[u].ver]) /\ WaitOK(u)'
    BY <1>1, <1>2, <2>1 DEF FileInv, TxsOK, TxOK, ReaderOK, WaitOK
  <2> QED BY <1>1, <2>1, CkptTxs DEF histVars
<1> QED BY <1>4, <1>5, <1>6, <1>7, <1>8 DEF FileInv

\* The pages that a checkpoint at startup finds in the WAL are those of the view.
LEMMA ScanKept ==
    ASSUME NEW n \in Nat, NEW view, Kept(wal, n, data, dataSync, view),
           NEW p \in Page
    PROVE  /\ ScanWAL(n, p) \in 0..n
           /\ p < PageN(view) => view[p] = IF ScanWAL(n, p) = 0 THEN data[p] ELSE wal[ScanWAL(n, p)].c
<1> DEFINE I == {i \in 1..n : wal[i].kind = "page" /\ wal[i].pgno = p}
<1>1. CASE I = {}
  <2>1. ScanWAL(n, p) = 0
    BY <1>1 DEF ScanWAL
  <2>2. \A i \in 1..n : ~IsPage(wal[i], p)
    BY <1>1 DEF IsPage
  <2> QED BY <2>1, <2>2 DEF Kept, LastIs
<1>2. CASE I # {}
  <2>1. \E i \in I : \A j \in I : i >= j
    <3>1. I \in SUBSET (1..n)
      OBVIOUS
    <3> HIDE DEF I
    <3> QED BY <1>2, <3>1, GreatestElement
  <2>2. ScanWAL(n, p) = CHOOSE i \in I : \A j \in I : i >= j
    BY <1>2 DEF ScanWAL
  <2>3. PICK s : s = ScanWAL(n, p) /\ s \in I /\ \A j \in I : s >= j
    BY <2>1, <2>2
  <2>4. s \in 1..n /\ IsPage(wal[s], p) /\ \A j \in 1..n : IsPage(wal[j], p) => s >= j
    BY <2>3 DEF IsPage
  <2>5. ASSUME p < PageN(view) PROVE view[p] = wal[s].c
    <3>1. LastIs(wal, n, p, view[p])
      BY <2>4, <2>5 DEF Kept
    <3>2. PICK i \in 1..n : IsPage(wal[i], p) /\ wal[i].c = view[p] /\ \A j \in (i + 1)..n : ~IsPage(wal[j], p)
      BY <3>1 DEF LastIs
    <3>3. i = s
      BY <2>4, <3>2
    <3> QED BY <3>2, <3>3
  <2> QED BY <2>3, <2>4, <2>5
<1> QED BY <1>1, <1>2

\* The checkpoint lists the pages of the current view; all readers have that view now.
LEMMA StartStep ==
    ASSUME FileInv, LockInv', CheckpointStart
    PROVE  FileInv'
<1> DEFINE pgs == [p \in Page |->
                     IF \A q \in Page : pageMap[q] = 0 THEN ScanWAL(walPageN, p)
                     ELSE IF pageMap[p] = 0 THEN 0 ELSE pageMap[p] - baseWALID]
<1>1. /\ ckpt.phase = "wait" /\ ckpt.waitingOn = {}
      /\ ckpt' = [ckpt EXCEPT !.phase = "copy", !.pages = pgs]
      /\ UNCHANGED <<data, dataSync, wal, walSync, status, pageMap, walPageN, baseWALID,
                     rootRecords, tx, hist, committed>>
  BY DEF CheckpointStart, diskVars, dbVars, histVars
<1>2. /\ ckpt'.phase = "copy" /\ ckpt'.pages = pgs /\ ckpt'.pageN = ckpt.pageN
      /\ ckpt'.waitingOn = {}
  <2>1. IsCkpt(ckpt)
    BY DEF FileInv, LockInv, LockTypeOK
  <2> HIDE DEF pgs
  <2> QED BY <1>1, <2>1 DEF IsCkpt, CkptField
<1>3. Current' = Current /\ Newest' = Newest /\ ~Draining /\ ~Draining'
  BY <1>1, <1>2 DEF Current, Newest, Draining
<1>4. HistOK' /\ FileTypes'
  BY <1>1 DEF FileInv, HistOK, FileTypes
<1>5. WALOK'
  BY <1>1, <1>3, CkptFacts, CkptWAL
<1>6. MapInv'
  BY <1>1, <1>2, <1>3 DEF FileInv, MapInv
<1>7. ASSUME NEW p \in Page
      PROVE  /\ pgs[p] \in 0..Len(wal)
             /\ p < PageN(Current) => Current[p] = IF pgs[p] = 0 THEN data[p] ELSE wal[pgs[p]].c
  <2>1. CASE \A q \in Page : pageMap[q] = 0
    <3>1. pgs[p] = ScanWAL(Len(wal), p)
      BY <1>1, <1>3, <2>1, CkptFacts
    <3> QED BY <1>1, <3>1, CkptFacts, ScanKept DEF FileInv
  <2>2. CASE ~\A q \in Page : pageMap[q] = 0
    <3>1. MapOK(pageMap, baseWALID, wal, data, Current)
      BY <1>1, <2>2, CkptFacts DEF FileInv, LockInv, LockTypeOK, MapInv, Zero
    <3>2. pgs[p] = IF pageMap[p] = 0 THEN 0 ELSE pageMap[p] - baseWALID
      BY <2>2
    <3>3. Len(wal) \in Nat
      BY <1>1, CkptFacts
    <3> QED BY <3>1, <3>2, <3>3 DEF MapOK
  <2> QED BY <2>1, <2>2
<1>8. CkptInv'
  <2>1. pgs \in [Page -> 0..Len(wal)]
    <3>1. \A p \in Page : pgs[p] \in 0..Len(wal)
      BY <1>7
    <3>2. pgs = [p \in Page |-> pgs[p]]
      OBVIOUS
    <3> HIDE DEF pgs
    <3> QED BY <3>1, <3>2
  <2>2. ckpt.pageN = 0
    BY <1>1 DEF FileInv, CkptInv
  <2> HIDE DEF pgs
  <2> QED BY <1>1, <1>2, <1>3, <1>7, <2>1, <2>2 DEF CkptInv
<1>9. TxsOK'
  <2>1. ASSUME NEW u \in TX, Reads(u)
        PROVE  MapOK(tx[u].pageMap, baseWALID', wal', data', hist[tx[u].ver]) /\ WaitOK(u)'
    BY <1>1, <1>2, <2>1 DEF FileInv, TxsOK, TxOK, ReaderOK, WaitOK
  <2> QED BY <1>1, <2>1, CkptTxs DEF histVars
<1> QED BY <1>4, <1>5, <1>6, <1>8, <1>9 DEF FileInv

\* A page of the current view goes to the data file, which every reader would read as
\* that page.
LEMMA CopyStep ==
    ASSUME FileInv, LockInv', NEW q \in Page, CheckpointCopy(q)
    PROVE  FileInv'
<1> DEFINE c == wal[ckpt.pages[q]].c
           pgs == [ckpt.pages EXCEPT ![q] = 0]
           m == IF q = Meta THEN c.pageN ELSE ckpt.pageN
<1>1. /\ ckpt.phase = "copy" /\ ckpt.pages[q] # 0
      /\ data' = [data EXCEPT ![q] = c]
      /\ ckpt' = [ckpt EXCEPT !.pages = pgs, !.pageN = m]
      /\ UNCHANGED <<dataSync, wal, walSync, status, pageMap, walPageN, baseWALID,
                     rootRecords, tx, hist, committed>>
  BY DEF CheckpointCopy, dbVars, histVars
<1>2. /\ ckpt'.phase = "copy" /\ ckpt'.pages = pgs /\ ckpt'.pageN = m
      /\ ckpt'.waitingOn = ckpt.waitingOn
  <2>1. IsCkpt(ckpt)
    BY DEF FileInv, LockInv, LockTypeOK
  <2> HIDE DEF pgs, m
  <2> QED BY <1>1, <2>1 DEF IsCkpt, CkptField
<1>3. Current' = Current /\ Newest' = Newest /\ ~Draining /\ ~Draining'
  BY <1>1, <1>2 DEF Current, Newest, Draining
<1>4. /\ ckpt.pages \in [Page -> 0..Len(wal)] /\ Len(wal) \in Nat
      /\ \A p \in Page : p < PageN(Current) =>
             Current[p] = IF ckpt.pages[p] = 0 THEN data[p] ELSE wal[ckpt.pages[p]].c
  BY <1>1, CkptFacts DEF FileInv, CkptInv
<1>5. c \in Content /\ (q < PageN(Current) => c = Current[q])
  <2>1. ckpt.pages[q] \in 1..Len(wal)
    BY <1>1, <1>4
  <2>2. wal[ckpt.pages[q]] \in WALPage
    BY <2>1 DEF FileInv, FileTypes
  <2> QED BY <1>1, <1>4, <2>2 DEF WALPage
<1> HIDE DEF c
<1>6. data \in [Page -> Content] /\ data' \in [Page -> Content]
  BY <1>1, <1>5 DEF FileInv, FileTypes
<1>7. HistOK' /\ FileTypes'
  BY <1>1, <1>6 DEF FileInv, HistOK, FileTypes
<1>8. \A p \in Page : p < PageN(Current) /\ data[p] = Current[p] /\ dataSync[p] = Current[p] =>
          data'[p] = Current[p] /\ dataSync'[p] = Current[p]
  BY <1>1, <1>5, <1>6
<1>9. WALOK'
  <2>1. PICK e : e = data'
    OBVIOUS
  <2>2. Kept(wal, Len(wal), data, dataSync, Current) /\ Holds(walSync, data, dataSync, Current)
    BY <1>1, CkptFacts
  <2>3. \A p \in Page : p < PageN(Current) /\ data[p] = Current[p] /\ dataSync[p] = Current[p] =>
            e[p] = Current[p] /\ dataSync[p] = Current[p]
    BY <1>1, <1>8, <2>1
  <2>4. Kept(wal, Len(wal), e, dataSync, Current)
    BY <2>2, <2>3, KeptSame
  <2>5. Holds(walSync, e, dataSync, Current)
    BY <2>2, <2>3, HoldsSame
  <2> QED BY <1>1, <1>3, <2>1, <2>4, <2>5, CkptFacts, CkptWAL
<1>10. MapInv'
  <2>1. MapOK(pageMap, baseWALID, wal, data, Current) => MapOK(pageMap, baseWALID, wal, data', Current)
    BY <1>1, <1>5, <1>6, MapCopied
  <2> QED BY <1>1, <1>2, <1>3, <2>1 DEF FileInv, MapInv
<1>11. CkptInv'
  <2>1. pgs \in [Page -> 0..Len(wal)]
    BY <1>4
  <2>2. \A p \in Page : p < PageN(Current) =>
             Current[p] = IF pgs[p] = 0 THEN data'[p] ELSE wal[pgs[p]].c
    BY <1>1, <1>4, <1>5, <1>6
  <2>3. m # 0 => m = PageN(Current)
    <3>1. Meta < PageN(Current)
      BY <1>1, CkptFacts, ViewPageN
    <3>2. ckpt.pageN # 0 => ckpt.pageN = PageN(Current)
      BY DEF FileInv, CkptInv
    <3> QED BY <1>5, <3>1, <3>2 DEF PageN
  <2> HIDE DEF pgs, m
  <2> QED BY <1>1, <1>2, <1>3, <2>1, <2>2, <2>3 DEF CkptInv
<1>12. TxsOK'
  <2>1. ASSUME NEW u \in TX, Reads(u)
        PROVE  MapOK(tx[u].pageMap, baseWALID', wal', data', hist[tx[u].ver]) /\ WaitOK(u)'
    <3>1. ReaderOK(u) /\ WaitOK(u)
      BY <2>1 DEF FileInv, TxsOK, TxOK
    <3>2. tx[u].ver = committed
      BY <1>1, <3>1 DEF WaitOK
    <3>3. MapOK(tx[u].pageMap, baseWALID, wal, data, Current)
      BY <3>1, <3>2 DEF ReaderOK, Current
    <3>4. MapOK(tx[u].pageMap, baseWALID, wal, data', Current)
      BY <1>1, <1>5, <1>6, <3>3, MapCopied
    <3> QED BY <1>1, <1>2, <3>1, <3>2, <3>4 DEF WaitOK, Current
  <2> QED BY <1>1, <2>1, CkptTxs DEF histVars
<1> QED BY <1>7, <1>9, <1>10, <1>11, <1>12 DEF FileInv

\* All pages of the current view are in the data file and on disk, or an error leaves
\* the rest to the WAL.
LEMMA SyncStep ==
    ASSUME FileInv, LockInv', CheckpointSync \/ CheckpointFails
    PROVE  FileInv'
<1>1. /\ ckpt.phase = "copy"
      /\ UNCHANGED <<data, wal, walSync, status, pageMap, walPageN, baseWALID,
                     rootRecords, tx, hist, committed>>
  BY DEF CheckpointSync, CheckpointFails, dbVars, histVars, diskVars
<1>2. /\ dataSync' = dataSync /\ ckpt' = NoCkpt /\ status # "opening"
      \/ /\ dataSync' = data /\ ckpt' = [ckpt EXCEPT !.phase = "synced"]
         /\ \A p \in Page : ckpt.pages[p] = 0
  BY DEF CheckpointSync, CheckpointFails, diskVars
<1>3. /\ ckpt'.phase \in {"none", "synced"}
      /\ ckpt'.phase = "none" => ckpt'.pageN = 0 /\ status # "opening"
      /\ ckpt'.phase = "synced" => /\ dataSync' = data /\ ckpt'.pageN = ckpt.pageN
                                   /\ \A p \in Page : ckpt.pages[p] = 0
      /\ dataSync' = dataSync \/ dataSync' = data
  <2>1. IsCkpt(ckpt)
    BY DEF FileInv, LockInv, LockTypeOK
  <2>2. NoCkpt.phase = "none" /\ NoCkpt.pageN = 0
    BY DEF NoCkpt
  <2>3. [ckpt EXCEPT !.phase = "synced"].phase = "synced"
        /\ [ckpt EXCEPT !.phase = "synced"].pageN = ckpt.pageN
    BY <2>1 DEF IsCkpt, CkptField
  <2> QED BY <1>2, <2>2, <2>3
<1>4. Current' = Current /\ Newest' = Newest /\ ~Draining /\ ~Draining'
  BY <1>1, <1>3 DEF Current, Newest, Draining
<1>5. HistOK' /\ FileTypes'
  BY <1>1, <1>3 DEF FileInv, HistOK, FileTypes
<1>6. WALOK'
  <2>1. \A p \in Page : p < PageN(Current) /\ data[p] = Current[p] /\ dataSync[p] = Current[p] =>
            data'[p] = Current[p] /\ dataSync'[p] = Current[p]
    BY <1>1, <1>3
  <2>2. PICK es : es = dataSync'
    OBVIOUS
  <2>3. Kept(wal, Len(wal), data, dataSync, Current) /\ Holds(walSync, data, dataSync, Current)
    BY <1>1, CkptFacts
  <2>4. \A p \in Page : p < PageN(Current) /\ data[p] = Current[p] /\ dataSync[p] = Current[p] =>
            data[p] = Current[p] /\ es[p] = Current[p]
    BY <1>1, <2>1, <2>2
  <2>5. Kept(wal, Len(wal), data, es, Current)
    BY <2>3, <2>4, KeptSame
  <2>6. Holds(walSync, data, es, Current)
    BY <2>3, <2>4, HoldsSame
  <2> QED BY <1>1, <1>4, <2>2, <2>5, <2>6, CkptFacts, CkptWAL
<1>7. MapInv'
  BY <1>1, <1>3, <1>4 DEF FileInv, MapInv
<1>8. CkptInv'
  <2>1. ckpt'.phase = "synced" => DataHolds(data', dataSync', Current)
    BY <1>1, <1>3 DEF FileInv, CkptInv, DataHolds
  <2> QED BY <1>1, <1>3, <1>4, <2>1 DEF FileInv, CkptInv
<1>9. TxsOK'
  <2>1. ASSUME NEW u \in TX, Reads(u)
        PROVE  MapOK(tx[u].pageMap, baseWALID', wal', data', hist[tx[u].ver]) /\ WaitOK(u)'
    BY <1>1, <1>3, <2>1 DEF FileInv, TxsOK, TxOK, ReaderOK, WaitOK
  <2> QED BY <1>1, <2>1, CkptTxs DEF histVars
<1> QED BY <1>5, <1>6, <1>7, <1>8, <1>9 DEF FileInv

\* The page map goes; whoever has one is waited for.
LEMMA ResetStep ==
    ASSUME FileInv, LockInv', CheckpointReset
    PROVE  FileInv'
<1>1. /\ ckpt.phase = "synced" /\ walPageN' = 0 /\ pageMap' = [p \in Page |-> 0]
      /\ ckpt' = [ckpt EXCEPT !.phase = "drain", !.waitingOn = txs]
      /\ UNCHANGED <<data, dataSync, wal, walSync, status, baseWALID, rootRecords, tx, hist, committed>>
  BY DEF CheckpointReset, diskVars, histVars
<1>2. ckpt'.phase = "drain" /\ ckpt'.waitingOn = txs /\ ckpt'.pageN = ckpt.pageN
  <2>1. IsCkpt(ckpt)
    BY DEF FileInv, LockInv, LockTypeOK
  <2> QED BY <1>1, <2>1 DEF IsCkpt, CkptField
<1>3. Current' = Current /\ Newest' = Newest /\ Draining'
  BY <1>1, <1>2 DEF Current, Newest, Draining
<1>4. pageMap' \in [Page -> Nat] /\ Zero(pageMap')
  BY <1>1 DEF Zero
<1>5. DataHolds(data, dataSync, Current)
  BY <1>1 DEF FileInv, CkptInv
<1>6. HistOK' /\ FileTypes'
  BY <1>1, <1>4 DEF FileInv, HistOK, FileTypes
<1>7. WALOK'
  BY <1>1, <1>3, CkptFacts, CkptWAL
<1>8. MapInv'
  <2>1. MapOK(pageMap', baseWALID, wal, data, Current)
    BY <1>4, <1>5, MapZero
  <2> QED BY <1>1, <1>2, <1>3, <1>4, <2>1 DEF FileInv, MapInv
<1>9. CkptInv'
  <2>1. ckpt.pageN # 0 => ckpt.pageN = PageN(Current)
    BY DEF FileInv, CkptInv
  <2> QED BY <1>1, <1>2, <1>3, <1>4, <1>5, <2>1 DEF CkptInv
<1>10. TxsOK'
  <2>1. ASSUME NEW u \in TX, Reads(u)
        PROVE  MapOK(tx[u].pageMap, baseWALID', wal', data', hist[tx[u].ver]) /\ WaitOK(u)'
    <3>1. ReaderOK(u) /\ WaitOK(u)
      BY <2>1 DEF FileInv, TxsOK, TxOK
    <3>2. u \in txs
      BY <2>1 DEF txs, Reads
    <3> QED BY <1>1, <1>2, <3>1, <3>2 DEF ReaderOK, WaitOK
  <2> QED BY <1>1, <2>1, CkptTxs DEF histVars
<1> QED BY <1>6, <1>7, <1>8, <1>9, <1>10 DEF FileInv

\* Nobody reads the WAL any more, so that WAL IDs may start anew.
LEMMA RebaseStep ==
    ASSUME FileInv, LockInv', CheckpointRebase
    PROVE  FileInv'
<1>1. /\ ckpt.phase = "drain" /\ ckpt.waitingOn = {} /\ baseWALID' = data[Meta].walID
      /\ ckpt' = [ckpt EXCEPT !.phase = "truncate"]
      /\ UNCHANGED <<data, dataSync, wal, walSync, status, pageMap, walPageN, rootRecords, tx, hist, committed>>
  BY DEF CheckpointRebase, diskVars, histVars
<1>2. ckpt'.phase = "truncate" /\ ckpt'.pageN = ckpt.pageN
  <2>1. IsCkpt(ckpt)
    BY DEF FileInv, LockInv, LockTypeOK
  <2> QED BY <1>1, <2>1 DEF IsCkpt, CkptField
<1>3. Current' = Current /\ Newest' = Newest /\ Draining /\ Draining'
  BY <1>1, <1>2 DEF Current, Newest, Draining
<1>4. DataHolds(data, dataSync, Current) /\ Zero(pageMap)
  BY <1>1, <1>3 DEF FileInv, CkptInv
<1>5. baseWALID' = Current[Meta].walID /\ baseWALID' \in Nat
  <2>1. Meta \in Page /\ Meta < PageN(Current)
    BY <1>1, CkptFacts, ViewPageN, PageFacts
  <2>2. data[Meta] = Current[Meta] /\ data[Meta] \in Content
    BY <1>4, <2>1 DEF DataHolds, FileInv, FileTypes
  <2> QED BY <1>1, <2>2 DEF Content
<1>6. walPageN = 0
  BY <1>1 DEF FileInv, LockInv, WALBelowThreshold
<1>7. HistOK' /\ FileTypes'
  BY <1>1, <1>5 DEF FileInv, HistOK, FileTypes
<1>8. WALOK'
  BY <1>1, <1>3, CkptFacts, CkptWAL
<1>9. MapInv'
  <2>1. MapOK(pageMap, baseWALID', wal, data, Current)
    BY <1>4, MapZero DEF FileInv, FileTypes
  <2> QED BY <1>1, <1>2, <1>3, <1>4, <1>5, <1>6, <2>1 DEF FileInv, MapInv
<1>10. CkptInv'
  <2>1. ckpt.pageN # 0 => ckpt.pageN = PageN(Current)
    BY DEF FileInv, CkptInv
  <2> QED BY <1>1, <1>2, <1>3, <1>4, <2>1 DEF CkptInv
<1>11. TxsOK'
  <2>1. ASSUME NEW u \in TX, Reads(u)
        PROVE  MapOK(tx[u].pageMap, baseWALID', wal', data', hist[tx[u].ver]) /\ WaitOK(u)'
    <3>1. ReaderOK(u) /\ WaitOK(u)
      BY <2>1 DEF FileInv, TxsOK, TxOK
    <3>2. Zero(tx[u].pageMap) /\ tx[u].ver = committed
      BY <1>1, <3>1 DEF WaitOK
    <3>3. MapOK(tx[u].pageMap, baseWALID, wal, data, hist[tx[u].ver])
      BY <3>1 DEF ReaderOK
    <3>4. MapOK(tx[u].pageMap, baseWALID', wal, data, hist[tx[u].ver])
      BY <3>2, <3>3, MapZeroAnywhere
    <3> QED BY <1>1, <1>2, <3>2, <3>4 DEF WaitOK
  <2> QED BY <1>1, <2>1, CkptTxs DEF histVars
<1> QED BY <1>7, <1>8, <1>9, <1>10, <1>11 DEF FileInv

\* The view is in the data file when the WAL is empty.
LEMMA EmptyWAL ==
    ASSUME NEW d, NEW ds, NEW view, DataHolds(d, ds, view)
    PROVE  /\ <<>> \in Seq(WALPage) /\ Len(<<>>) = 0
           /\ Kept(<<>>, 0, d, ds, view) /\ Holds(<<>>, d, ds, view)
<1>1. <<>> \in Seq(WALPage) /\ Len(<<>>) = 0
  OBVIOUS
<1>2. Ends(<<>>, 0)
  BY <1>1 DEF Ends
<1>3. 0 \in 0..Len(<<>>)
  BY <1>1
<1> QED BY <1>1, <1>2, <1>3, KeptNothing DEF Holds

\* The WAL is cut to nothing, and that is synced.
LEMMA TruncateStep ==
    ASSUME FileInv, LockInv', "truncate" \notin Fault, TruncateWAL \/ SyncWAL
    PROVE  FileInv'
<1>1. /\ ckpt.phase \in {"truncate", "sync"} /\ wal' = <<>> /\ walSync' \in {walSync, <<>>}
      /\ \/ ckpt.phase = "truncate" /\ ckpt' = [ckpt EXCEPT !.phase = "sync", !.offset = Len(wal)]
         \/ ckpt.phase = "sync" /\ ckpt' = [ckpt EXCEPT !.phase = "shrink"]
      /\ UNCHANGED <<data, dataSync, status, pageMap, walPageN, baseWALID, rootRecords, tx, hist, committed>>
  <2>1. ckpt.phase = "sync" => wal = <<>>
    BY DEF FileInv, CkptInv
  <2>2. ~CanFail("truncate")
    BY DEF CanFail
  <2> QED BY <2>1, <2>2 DEF TruncateWAL, SyncWAL, dbVars, histVars
<1>2. ckpt'.phase \in {"sync", "shrink"} /\ ckpt'.pageN = ckpt.pageN
  <2>1. IsCkpt(ckpt)
    BY DEF FileInv, LockInv, LockTypeOK
  <2> QED BY <1>1, <2>1 DEF IsCkpt, CkptField
<1>3. Current' = Current /\ Newest' = Newest /\ Draining /\ Draining'
  BY <1>1, <1>2 DEF Current, Newest, Draining
<1>4. DataHolds(data, dataSync, Current) /\ Zero(pageMap)
  BY <1>1, <1>3 DEF FileInv, CkptInv
<1>5. HistOK' /\ FileTypes'
  <2>1. <<>> \in Seq(WALPage) /\ Len(<<>>) = 0 /\ 0 <= MaxWALSize
    BY <1>4, EmptyWAL, SizeAssumption
  <2>2. HistOK'
    BY <1>1 DEF FileInv, HistOK
  <2>3. walSync' \in Seq(WALPage) /\ Len(walSync') <= MaxWALSize
    BY <1>1, <2>1 DEF FileInv, FileTypes
  <2> QED BY <1>1, <2>1, <2>2, <2>3 DEF FileInv, FileTypes
<1>6. WALOK'
  <2>1. Holds(walSync', data, dataSync, Current)
    BY <1>1, <1>4, CkptFacts, EmptyWAL
  <2>2. Kept(wal', Len(wal'), data, dataSync, Current) /\ Len(wal') = 0
    BY <1>1, <1>4, EmptyWAL
  <2>3. Agree(wal', walSync', 0)
    <3>1. walSync' \in Seq(WALPage) /\ 1..0 = {}
      BY <1>5 DEF FileTypes
    <3>2. Len(walSync') \in Nat
      BY <3>1
    <3> QED BY <2>2, <3>1, <3>2 DEF Agree
  <2>4. NonePending /\ NoneSynced /\ status # "down"
    BY <1>1, CkptFacts
  <2> QED BY <1>1, <1>3, <2>1, <2>2, <2>3, <2>4, CkptWAL
<1>7. MapInv'
  <2>1. MapOK(pageMap, baseWALID, wal', data, Current)
    BY <1>4, MapZero DEF FileInv, FileTypes
  <2>2. Current[Meta].walID = baseWALID + walPageN \/ ckpt.phase = "drain"
    BY <1>1 DEF FileInv, MapInv
  <2> QED BY <1>1, <1>2, <1>3, <1>4, <2>1, <2>2 DEF FileInv, MapInv
<1>8. CkptInv'
  <2>1. ckpt.pageN # 0 => ckpt.pageN = PageN(Current)
    BY DEF FileInv, CkptInv
  <2> QED BY <1>1, <1>2, <1>3, <1>4, <2>1 DEF CkptInv
<1>9. TxsOK'
  <2>1. ASSUME NEW u \in TX, Reads(u)
        PROVE  MapOK(tx[u].pageMap, baseWALID', wal', data', hist[tx[u].ver]) /\ WaitOK(u)'
    <3>1. ReaderOK(u) /\ WaitOK(u)
      BY <2>1 DEF FileInv, TxsOK, TxOK
    <3>2. Zero(tx[u].pageMap) /\ tx[u].ver = committed
      BY <1>1, <3>1 DEF WaitOK
    <3>3. MapOK(tx[u].pageMap, baseWALID, wal, data, hist[tx[u].ver])
      BY <3>1 DEF ReaderOK
    <3>4. MapOK(tx[u].pageMap, baseWALID, wal', data, hist[tx[u].ver])
      BY <3>2, <3>3, MapZeroAnywhere
    <3> QED BY <1>1, <1>2, <3>2, <3>4 DEF WaitOK
  <2> QED BY <1>1, <2>1, CkptTxs DEF histVars
<1> QED BY <1>5, <1>6, <1>7, <1>8, <1>9 DEF FileInv

\* The data file is cut behind the current view, and the checkpoint has ended.
LEMMA ShrinkStep ==
    ASSUME FileInv, LockInv', ShrinkData
    PROVE  FileInv'
<1>1. /\ ckpt.phase = "shrink" /\ ckpt' = NoCkpt
      /\ data' = [p \in Page |-> IF ckpt.pageN > 0 /\ p >= ckpt.pageN THEN NoPage ELSE data[p]]
         \/ data' = data
      /\ status' = (IF status = "opening" THEN "open" ELSE status)
      /\ UNCHANGED <<dataSync, wal, walSync, pageMap, walPageN, baseWALID, rootRecords, tx, hist, committed>>
  BY DEF ShrinkData, Opened, histVars
<1>2. ckpt'.phase = "none" /\ ckpt'.pageN = 0 /\ Draining /\ ~Draining'
  BY <1>1 DEF NoCkpt, Draining
<1>3. Current' = Current /\ Newest' = Newest
  BY <1>1 DEF Current, Newest
<1>4. /\ DataHolds(data, dataSync, Current) /\ Zero(pageMap) /\ wal = <<>> /\ Len(wal) = 0 /\ walPageN = 0
      /\ pageMap \in [Page -> Nat]
  BY <1>1, <1>2 DEF FileInv, CkptInv, LockInv, WALBelowThreshold, FileTypes
<1>5. data' \in [Page -> Content] /\ \A p \in Page : p < PageN(Current) => data'[p] = data[p]
  <2>1. ckpt.pageN # 0 => ckpt.pageN = PageN(Current)
    BY DEF FileInv, CkptInv
  <2>2. PageN(Current) \in Nat /\ \A p \in Page : p \in Nat
    BY <1>1, CkptFacts, ViewPageN, PageFacts
  <2>3. data \in [Page -> Content] /\ NoPage \in Content
    BY DEF FileInv, FileTypes, NoPage, Content
  <2>4. \A p \in Page : p < PageN(Current) => ~(ckpt.pageN > 0 /\ p >= ckpt.pageN)
    BY <2>1, <2>2
  <2> QED BY <1>1, <2>3, <2>4
<1>6. HistOK' /\ FileTypes'
  BY <1>1, <1>5 DEF FileInv, HistOK, FileTypes
<1>7. PICK e : e = data'
  OBVIOUS
<1>8. DataHolds(e, dataSync, Current)
  BY <1>4, <1>5, <1>7 DEF DataHolds
<1>9. WALOK'
  <2>1. Holds(walSync, data, dataSync, Current)
    BY <1>1, CkptFacts
  <2>2. Holds(walSync, e, dataSync, Current)
    BY <2>1, <1>5, <1>7, HoldsSame
  <2>3. Kept(wal, Len(wal), e, dataSync, Current)
    BY <1>4, <1>8, KeptNothing
  <2>4. NonePending /\ NoneSynced /\ status # "down" /\ Agree(wal, walSync, Len(wal))
    BY <1>1, CkptFacts
  <2> QED BY <1>1, <1>3, <1>4, <1>7, <2>2, <2>3, <2>4, CkptWAL
<1>10. MapInv'
  <2>1. MapOK(pageMap, baseWALID, wal, e, Current)
    BY <1>4, <1>8, MapZero
  <2>2. Current[Meta].walID = baseWALID + walPageN
    BY <1>1 DEF FileInv, MapInv
  <2>3. status # "down"
    BY <1>1, CkptFacts
  <2> QED BY <1>1, <1>2, <1>3, <1>7, <2>1, <2>2, <2>3 DEF FileInv, MapInv
<1>11. CkptInv'
  BY <1>2 DEF CkptInv
<1>12. TxsOK'
  <2>1. ASSUME NEW u \in TX, Reads(u)
        PROVE  MapOK(tx[u].pageMap, baseWALID', wal', data', hist[tx[u].ver]) /\ WaitOK(u)'
    <3>1. ReaderOK(u) /\ WaitOK(u)
      BY <2>1 DEF FileInv, TxsOK, TxOK
    <3>2. tx[u].ver = committed
      BY <1>1, <3>1 DEF WaitOK
    <3>3. MapOK(tx[u].pageMap, baseWALID, wal, data, Current)
      BY <3>1, <3>2 DEF ReaderOK, Current
    <3>4. MapOK(tx[u].pageMap, baseWALID, wal, e, Current)
      BY <1>5, <1>7, <3>3, MapShrunk
    <3> QED BY <1>1, <1>2, <1>7, <3>2, <3>4 DEF WaitOK, Current
  <2> QED BY <1>1, <2>1, CkptTxs DEF histVars
<1> QED BY <1>6, <1>9, <1>10, <1>11, <1>12 DEF FileInv

-----------------------------------------------------------------------------
(* Open, Close and crashes *)

\* Open finds, in the WAL or in the data file, the view that the files hold.
LEMMA OpenStep ==
    ASSUME FileInv, LockInv', Open
    PROVE  FileInv'
<1>1. PICK n : n = LastMeta(wal)
  OBVIOUS
<1>2. /\ status = "down" /\ wal' = SubSeq(wal, 1, n) /\ walPageN' = n
      /\ committed' = (IF n > 0 THEN wal[n].c.ver ELSE data[Meta].ver)
      /\ baseWALID' = data[Meta].walID /\ status' = "opening"
      /\ ckpt' = [NoCkpt EXCEPT !.phase = "wait"]
      /\ UNCHANGED <<data, dataSync, walSync, pageMap, rootRecords, tx, hist>>
  BY <1>1 DEF Open
<1>3. ckpt'.phase = "wait" /\ ckpt'.pageN = 0 /\ ~Draining'
  BY <1>2 DEF NoCkpt, Draining
<1>4. wal \in Seq(WALPage) /\ Len(wal) \in Nat /\ Ends(wal, n) /\ n \in Nat /\ n <= Len(wal)
  BY <1>1, LastMetaEnds DEF FileInv, FileTypes, Ends
<1>5. DownOK
  BY <1>2 DEF FileInv, WALOK
<1>6. PICK v \in 1..Len(hist) : Holds(wal, data, dataSync, hist[v]) /\ Holds(walSync, data, dataSync, hist[v])
  BY <1>5 DEF DownOK
<1>7. Kept(wal, n, data, dataSync, hist[v])
  <2>1. PICK m \in 0..Len(wal) : Ends(wal, m) /\ Kept(wal, m, data, dataSync, hist[v])
    BY <1>6 DEF Holds
  <2> QED BY <1>4, <2>1, EndsUnique
<1>8. IsView(hist[v], v)
  BY DEF FileInv, HistOK
<1>9. committed' = v
  <2>1. IF n > 0 THEN wal[n].c = hist[v][Meta] ELSE data[Meta] = hist[v][Meta]
    BY <1>4, <1>7, <1>8, EndsMeta
  <2> QED BY <1>2, <1>8, <2>1 DEF IsView
<1>10. Current' = hist[v]
  BY <1>2, <1>9 DEF Current
<1>11. wal' \in Seq(WALPage) /\ Len(wal') = n /\ \A i \in 1..n : wal'[i] = wal[i]
  BY <1>2, <1>4
<1>12. HistOK'
  BY <1>2, <1>9 DEF FileInv, HistOK
<1>13. FileTypes'
  <2>1. Len(wal') <= MaxWALSize
    BY <1>4, <1>11, SizeAssumption DEF FileInv, FileTypes
  <2>2. baseWALID' \in Nat
    BY <1>2, PageFacts DEF FileInv, FileTypes, Content
  <2> QED BY <1>2, <1>11, <2>1, <2>2 DEF FileInv, FileTypes
<1>14. \A t \in TX : tx[t].st = "none"
  BY <1>2 DEF FileInv, LockInv, NoTxBeforeOpen
<1>15. WALOK'
  <2>1. NonePending /\ NoneSynced
    BY <1>14 DEF NonePending, NoneSynced, Pends
  <2>2. Len(wal') > 0 => IsMetaPage(wal'[Len(wal')])
    BY <1>4, <1>11 DEF Ends
  <2>3. Kept(wal', n, data, dataSync, hist[v])
    BY <1>4, <1>7, <1>11, KeptPrefix
  <2>4. Agree(wal', walSync, n)
    BY <1>4, <1>5, <1>11 DEF DownOK, Agree
  <2> QED BY <1>2, <1>4, <1>6, <1>10, <1>11, <2>1, <2>2, <2>3, <2>4, CkptWAL
<1>16. MapInv'
  BY <1>2, <1>3 DEF FileInv, MapInv
<1>17. CkptInv'
  BY <1>3 DEF CkptInv
<1>18. TxsOK'
  BY <1>2, <1>14 DEF TxsOK, TxOK, Reads, Pends
<1> QED BY <1>12, <1>13, <1>15, <1>16, <1>17, <1>18 DEF FileInv

\* A database that is down, with files that hold a view.
LEMMA DownStep ==
    ASSUME FileInv, LockInv', NewDB, status' = "down", UNCHANGED histVars,
           wal' \in Seq(WALPage), walSync' \in Seq(WALPage),
           Len(wal') <= MaxWALSize, Len(walSync') <= MaxWALSize,
           data' \in [Page -> Content], dataSync' \in [Page -> Content], DownOK'
    PROVE  FileInv'
<1>1. /\ pageMap' = [p \in Page |-> 0] /\ walPageN' = 0 /\ baseWALID' = 0 /\ rootRecords' = 0
      /\ tx' = [t \in TX |-> NoTx] /\ ckpt' = NoCkpt
  BY DEF NewDB
<1>2. ckpt'.phase = "none" /\ ckpt'.pageN = 0 /\ ~Draining'
  BY <1>1 DEF NoCkpt, Draining
<1>3. \A t \in TX : tx'[t].st = "none"
  BY <1>1 DEF NoTx
<1>4. pageMap' \in [Page -> Nat] /\ Zero(pageMap')
  BY <1>1 DEF Zero
<1>5. HistOK'
  BY DEF FileInv, HistOK, histVars
<1>6. FileTypes'
  BY <1>1, <1>4 DEF FileTypes
<1>7. WALOK'
  BY DEF WALOK
<1>8. MapInv'
  BY <1>1, <1>2, <1>4 DEF MapInv
<1>9. CkptInv'
  BY <1>2 DEF CkptInv
<1>10. TxsOK'
  BY <1>3 DEF TxsOK, TxOK, Reads, Pends
<1> QED BY <1>5, <1>6, <1>7, <1>8, <1>9, <1>10 DEF FileInv

\* A WAL that ends with a meta page is not cut.
LEMMA WholeHolds ==
    ASSUME NEW w \in Seq(WALPage), NEW d, NEW ds, NEW view, Kept(w, Len(w), d, ds, view),
           Len(w) > 0 => IsMetaPage(w[Len(w)])
    PROVE  Holds(w, d, ds, view)
<1>1. Len(w) \in Nat
  OBVIOUS
<1>2. Ends(w, Len(w))
  BY <1>1 DEF Ends
<1> QED BY <1>1, <1>2 DEF Holds

\* Close syncs the data file, and leaves the WAL.
LEMMA CloseFilesStep ==
    ASSUME FileInv, LockInv', CloseFiles
    PROVE  FileInv'
<1>1. /\ status = "closing" /\ closeWait = {} /\ rwmu = Free /\ status' = "down" /\ dataSync' = data
      /\ UNCHANGED <<data, wal, walSync, hist, committed>>
  BY DEF CloseFiles, histVars
<1>2. txs = {}
  BY <1>1 DEF FileInv, LockInv, CloseWaitsForAll
<1>3. NonePending /\ NoneSynced
  BY <1>2 DEF NonePending, NoneSynced, Pends, txs
<1>4. UpOK
  BY <1>1 DEF FileInv, WALOK
<1>5. CommittedN = Len(wal)
  BY <1>3 DEF CommittedN
<1>6. /\ Kept(wal, Len(wal), data, dataSync, Current) /\ (Len(wal) > 0 => IsMetaPage(wal[Len(wal)]))
      /\ Holds(walSync, data, dataSync, Current) /\ Agree(wal, walSync, Len(wal))
  BY <1>3, <1>4, <1>5 DEF UpOK
<1>7. FileTypes
  BY DEF FileInv
<1>8. Holds(wal, data, dataSync, Current)
  BY <1>6, <1>7, WholeHolds DEF FileTypes
<1>9. \A p \in Page : p < PageN(Current) /\ data[p] = Current[p] /\ dataSync[p] = Current[p] =>
          data[p] = Current[p] /\ data[p] = Current[p]
  OBVIOUS
<1>10. Holds(wal, data, data, Current) /\ Holds(walSync, data, data, Current)
  BY <1>6, <1>8, <1>9, HoldsSame
<1>11. committed \in 1..Len(hist) /\ Current = hist[committed]
  BY DEF FileInv, HistOK, Current
<1>12. DownOK'
  BY <1>1, <1>6, <1>10, <1>11 DEF DownOK
<1> QED BY <1>1, <1>7, <1>12, DownStep DEF CloseFiles, FileTypes

\* An Open that fails leaves the files to the next one.
LEMMA OpenFailsStep ==
    ASSUME FileInv, LockInv', OpenFails
    PROVE  FileInv'
<1>1. /\ ckpt.phase = "copy" /\ status' = "down"
      /\ UNCHANGED <<data, dataSync, wal, walSync, hist, committed>>
  BY DEF OpenFails, diskVars, histVars
<1>2. FileTypes
  BY DEF FileInv
<1>3. Holds(wal, data, dataSync, Current)
  BY <1>1, <1>2, CkptFacts, WholeHolds DEF FileTypes
<1>4. committed \in 1..Len(hist) /\ Current = hist[committed]
  BY DEF FileInv, HistOK, Current
<1>5. DownOK'
  BY <1>1, <1>3, <1>4, CkptFacts DEF DownOK
<1> QED BY <1>1, <1>2, <1>5, DownStep DEF OpenFails, FileTypes

\* A crash leaves of the WAL no less than its first n pages, if they were synced.
LEMMA CrashedWAL ==
    ASSUME FileTypes, NEW n \in Nat, Agree(wal, walSync, n), NEW w \in CrashedWALs
    PROVE  w = walSync \/ \E m \in n..Len(wal) : w = SubSeq(wal, 1, m)
<1> DEFINE common == {k \in 0..Len(wal) : k <= Len(walSync) /\ SubSeq(wal, 1, k) = SubSeq(walSync, 1, k)}
           keep == CHOOSE k \in common : \A m \in common : k >= m
<1>1. Len(wal) \in Nat /\ Len(walSync) \in Nat /\ wal \in Seq(WALPage) /\ walSync \in Seq(WALPage)
  BY DEF FileTypes
<1>2. n \in common
  <2>1. n \in 0..Len(wal) /\ n <= Len(walSync)
    BY <1>1 DEF Agree
  <2>2. SubSeq(wal, 1, n) = SubSeq(walSync, 1, n)
    <3>1. /\ SubSeq(wal, 1, n) = [i \in 1..n |-> wal[i]]
          /\ SubSeq(walSync, 1, n) = [i \in 1..n |-> walSync[i]]
      BY <1>1, <2>1
    <3> QED BY <3>1 DEF Agree
  <2> QED BY <2>1, <2>2
<1>3. common \subseteq 0..Len(wal)
  OBVIOUS
<1> HIDE DEF common
<1>4. \E k \in common : \A m \in common : k >= m
  <2> DEFINE T == {k + 1 : k \in common}
  <2>1. \A k \in common : k \in Nat /\ k + 1 \in 1..(Len(wal) + 1)
    BY <1>1, <1>3
  <2>2. T \in SUBSET (1..(Len(wal) + 1)) /\ T # {}
    BY <1>2, <2>1
  <2>3. Len(wal) + 1 \in Nat
    BY <1>1
  <2>4. PICK t \in T : \A u \in T : t >= u
    <3> HIDE DEF T
    <3> QED BY <2>2, <2>3, GreatestElement
  <2>5. PICK k \in common : t = k + 1
    BY <2>4
  <2>6. \A m \in common : m + 1 \in T
    OBVIOUS
  <2>7. \A m \in common : t >= m + 1
    BY <2>4, <2>6
  <2> QED BY <2>1, <2>5, <2>7
<1>5. keep \in common /\ keep >= n
  BY <1>2, <1>4
<1>6. w = walSync \/ \E m \in keep..Len(wal) : w = SubSeq(wal, 1, m)
  BY DEF CrashedWALs, common
<1> HIDE DEF keep
<1>7. keep \in Nat
  BY <1>3, <1>5
<1> QED BY <1>1, <1>5, <1>6, <1>7

\* It holds the current view, or the view that was being committed.
LEMMA CrashHolds ==
    ASSUME FileInv, status # "down", NEW w \in CrashedWALs
    PROVE  /\ w \in Seq(WALPage) /\ Len(w) <= MaxWALSize
           /\ \/ Holds(w, data, dataSync, Current)
              \/ ~NonePending /\ Holds(w, data, dataSync, Newest)
<1>1. /\ FileTypes /\ Len(wal) \in Nat /\ Len(walSync) \in Nat /\ MaxWALSize \in Nat
      /\ wal \in Seq(WALPage) /\ walSync \in Seq(WALPage)
  BY SizeAssumption DEF FileInv, FileTypes
<1>2. UpOK /\ PendingOK
  BY DEF FileInv, WALOK
<1>3. CommittedN \in Nat /\ CommittedN <= Len(wal)
  BY <1>1, <1>2 DEF UpOK
<1>4. Agree(wal, walSync, CommittedN)
  <2>1. CASE NoneSynced
    BY <1>2, <2>1 DEF UpOK
  <2>2. CASE ~NoneSynced
    <3>1. walSync = wal
      BY <1>2, <2>2 DEF PendingOK, NonePending, NoneSynced, Pends
    <3> QED BY <1>3, <3>1 DEF Agree
  <2> QED BY <2>1, <2>2
<1>5. w = walSync \/ \E m \in CommittedN..Len(wal) : w = SubSeq(wal, 1, m)
  BY <1>1, <1>3, <1>4, CrashedWAL
<1>6. w = walSync \/ w = wal \/ \E m \in CommittedN..(Len(wal) - 1) : w = SubSeq(wal, 1, m)
  <2>1. SubSeq(wal, 1, Len(wal)) = wal
    BY <1>1
  <2> QED BY <1>1, <1>3, <1>5, <2>1
<1> SUFFICES /\ w \in Seq(WALPage) /\ Len(w) <= MaxWALSize
             /\ \/ Holds(w, data, dataSync, Current)
                \/ ~NonePending /\ Holds(w, data, dataSync, Newest)
  OBVIOUS
<1>7. CASE w = wal
  <2>1. CASE NonePending
    <3>1. CommittedN = Len(wal)
      BY <2>1 DEF CommittedN
    <3>2. Kept(wal, Len(wal), data, dataSync, Current) /\ (Len(wal) > 0 => IsMetaPage(wal[Len(wal)]))
      BY <1>2, <3>1 DEF UpOK
    <3> QED BY <1>1, <1>7, <3>2, WholeHolds DEF FileTypes
  <2>2. CASE ~NonePending
    <3>1. Kept(wal, Len(wal), data, dataSync, Newest) /\ IsMetaPage(wal[Len(wal)])
      BY <1>2, <2>2 DEF PendingOK
    <3> QED BY <1>1, <1>7, <2>2, <3>1, WholeHolds DEF FileTypes
  <2> QED BY <2>1, <2>2
<1>8. CASE w = walSync
  <2>1. CASE NoneSynced
    BY <1>1, <1>2, <1>8, <2>1 DEF UpOK, FileTypes
  <2>2. CASE ~NoneSynced
    BY <1>2, <1>7, <1>8, <2>2 DEF PendingOK, NonePending, NoneSynced, Pends
  <2> QED BY <2>1, <2>2
<1>9. CASE \E m \in CommittedN..(Len(wal) - 1) : w = SubSeq(wal, 1, m)
  <2>1. PICK m \in CommittedN..(Len(wal) - 1) : w = SubSeq(wal, 1, m)
    BY <1>9
  <2>2. ~NonePending /\ CommittedN = walPageN
    BY <1>1, <1>3, <2>1 DEF CommittedN
  <2>3. /\ m \in Nat /\ m < Len(wal) /\ CommittedN <= m
        /\ w \in Seq(WALPage) /\ Len(w) = m /\ \A i \in 1..m : w[i] = wal[i]
    BY <1>1, <1>3, <2>1
  <2>4. Kept(w, CommittedN, data, dataSync, Current)
    <3>1. \A i \in 1..CommittedN : w[i] = wal[i]
      BY <1>3, <2>3
    <3> QED BY <1>2, <1>3, <3>1, KeptPrefix DEF UpOK
  <2>5. Ends(w, CommittedN)
    <3>1. CommittedN > 0 => IsMetaPage(w[CommittedN])
      BY <1>2, <1>3, <2>3 DEF UpOK
    <3>2. ASSUME NEW j \in (CommittedN + 1)..Len(w) PROVE ~IsMetaPage(w[j])
      <4>1. j \in (walPageN + 1)..(Len(wal) - 1) /\ w[j] = wal[j]
        BY <1>1, <1>3, <2>2, <2>3
      <4> QED BY <1>2, <2>2, <4>1 DEF PendingOK
    <3> QED BY <1>3, <2>3, <3>1, <3>2 DEF Ends
  <2>6. Holds(w, data, dataSync, Current)
    BY <1>3, <2>3, <2>4, <2>5 DEF Holds
  <2>7. Len(w) <= MaxWALSize
    BY <1>1, <2>3 DEF FileTypes
  <2> QED BY <2>3, <2>6, <2>7
<1> QED BY <1>6, <1>7, <1>8, <1>9

\* A crash leaves files that hold the current view, or the one that was being committed.
LEMMA CrashStep ==
    ASSUME FileInv, LockInv', Crash
    PROVE  FileInv'
<1>1. /\ status # "down" /\ wal' \in CrashedWALs /\ walSync' = wal' /\ dataSync' = data'
      /\ status' = "down" /\ NewDB /\ UNCHANGED <<hist, committed>>
  BY DEF Crash, histVars
<1>2. PICK lost \in SUBSET {p \in Page : data[p] # dataSync[p]} :
          data' = [p \in Page |-> IF p \in lost THEN dataSync[p] ELSE data[p]]
  BY DEF Crash
<1>3. PICK w, e : w = wal' /\ e = data'
  OBVIOUS
<1>4. /\ w \in Seq(WALPage) /\ Len(w) <= MaxWALSize
      /\ \/ Holds(w, data, dataSync, Current)
         \/ ~NonePending /\ Holds(w, data, dataSync, Newest)
  BY <1>1, <1>3, CrashHolds
<1>5. PICK v \in 1..Len(hist) : Holds(w, data, dataSync, hist[v])
  <2>1. committed \in 1..Len(hist) /\ Len(hist) \in Nat
    BY DEF FileInv, HistOK
  <2>2. Len(hist) \in 1..Len(hist)
    BY <2>1
  <2> QED BY <1>4, <2>1, <2>2 DEF Current, Newest
<1>6. data \in [Page -> Content] /\ dataSync \in [Page -> Content]
  BY DEF FileInv, FileTypes
<1>7. e \in [Page -> Content]
  BY <1>2, <1>3, <1>6
<1>8. Holds(w, e, e, hist[v])
  <2>1. \A p \in Page : p < PageN(hist[v]) /\ data[p] = hist[v][p] /\ dataSync[p] = hist[v][p] =>
            e[p] = hist[v][p] /\ e[p] = hist[v][p]
    BY <1>2, <1>3
  <2> QED BY <1>5, <2>1, HoldsSame
<1>9. Agree(w, w, Len(w))
  <2>1. Len(w) \in Nat
    BY <1>4
  <2> QED BY <2>1 DEF Agree
<1>10. DownOK'
  BY <1>1, <1>3, <1>8, <1>9 DEF DownOK
<1> QED BY <1>1, <1>3, <1>4, <1>7, <1>10, DownStep DEF histVars

-----------------------------------------------------------------------------
(* Commit *)

\* The pages of a set in page order are the pages of the set.
LEMMA NthSet ==
    ASSUME NEW S \in SUBSET Nat, IsFiniteSet(S)
    PROVE  /\ Cardinality(S) \in Nat
           /\ \A i \in 1..Cardinality(S) : Nth(S, i) \in S
           /\ \A p \in S : \E i \in 1..Cardinality(S) : Nth(S, i) = p
<1> DEFINE Below(p) == {q \in S : q < p}
<1>1. Cardinality(S) \in Nat
  BY FS_CardinalityType
<1>2. ASSUME NEW i \in 1..Cardinality(S)
      PROVE  Nth(S, i) \in S /\ Cardinality(Below(Nth(S, i))) = i - 1
  <2>1. \E p \in S : Cardinality({q \in S : q < p}) = i - 1
    BY NthExists
  <2> QED BY <2>1 DEF Nth
<1>3. ASSUME NEW p \in S
      PROVE  /\ IsFiniteSet(Below(p)) /\ Cardinality(Below(p)) \in Nat
             /\ IsFiniteSet(Below(p) \cup {p}) /\ Cardinality(Below(p) \cup {p}) = Cardinality(Below(p)) + 1
  <2>1. Below(p) \subseteq S /\ p \notin Below(p)
    OBVIOUS
  <2>2. IsFiniteSet(Below(p)) /\ Cardinality(Below(p)) \in Nat
    BY <2>1, FS_Subset, FS_CardinalityType
  <2> QED BY <2>1, <2>2, FS_AddElement
<1>4. ASSUME NEW p \in S, NEW q \in S, p < q PROVE Cardinality(Below(p)) + 1 <= Cardinality(Below(q))
  <2>1. \A r \in S : r < p => r < q
    <3>1. p \in Nat /\ q \in Nat /\ \A r \in S : r \in Nat
      OBVIOUS
    <3> QED BY <1>4, <3>1
  <2>2. Below(p) \cup {p} \subseteq Below(q)
    BY <1>4, <2>1
  <2>3. IsFiniteSet(Below(q))
    BY <1>3
  <2>4. Cardinality(Below(p) \cup {p}) <= Cardinality(Below(q))
    <3> HIDE DEF Below
    <3> QED BY <2>2, <2>3, FS_Subset
  <2>5. Cardinality(Below(p) \cup {p}) = Cardinality(Below(p)) + 1
    BY <1>3
  <2> QED BY <2>4, <2>5
<1>5. ASSUME NEW p \in S PROVE \E i \in 1..Cardinality(S) : Nth(S, i) = p
  <2>1. PICK i : i = Cardinality(Below(p)) + 1
    OBVIOUS
  <2>2. i \in 1..Cardinality(S)
    <3>1. Below(p) \cup {p} \subseteq S
      OBVIOUS
    <3>2. Cardinality(Below(p) \cup {p}) <= Cardinality(S)
      BY <3>1, FS_Subset
    <3>3. Cardinality(Below(p) \cup {p}) = i /\ i \in Nat /\ i >= 1
      BY <1>3, <2>1
    <3> QED BY <1>1, <3>2, <3>3
  <2>3. PICK q \in S : q = Nth(S, i) /\ Cardinality(Below(q)) = i - 1
    BY <1>2, <2>2
  <2>4. PICK m, n : m = Cardinality(Below(p)) /\ n = Cardinality(Below(q))
    OBVIOUS
  <2>5. m \in Nat /\ n \in Nat /\ m = n
    <3>1. m \in Nat /\ n \in Nat
      BY <1>3, <2>4
    <3>2. i = m + 1 /\ n = i - 1
      BY <2>1, <2>3, <2>4
    <3> QED BY <3>1, <3>2
  <2>6. (p < q => m + 1 <= n) /\ (q < p => n + 1 <= m)
    BY <1>4, <2>4
  <2>7. ~(p < q) /\ ~(q < p) /\ p \in Nat /\ q \in Nat
    BY <2>5, <2>6
  <2>8. p = q
    BY <2>7
  <2> QED BY <2>2, <2>3, <2>8
<1> QED BY <1>1, <1>2, <1>5

\* A flush writes what attempt v left on each of its dirty pages, and nothing else.
LEMMA DirtyPagesFacts ==
    ASSUME NEW v \in Nat, NEW d \in SUBSET Page, IsFiniteSet(d)
    PROVE  LET P == DirtyPages(d, v) IN
           /\ P \in Seq(WALPage) /\ Len(P) = WALPagesOf(d) /\ WALPagesOf(d) \in Nat
           /\ \A i \in 1..Len(P) : P[i].pgno \in d /\ (P[i].kind = "page" => P[i].c = Written(v))
           /\ \A p \in d : \E i \in 1..Len(P) : IsPage(P[i], p)
<1> DEFINE A == d \ BitmapPage
           B == d \cap BitmapPage
           a == Cardinality(A)
           b == Cardinality(B)
           P == DirtyPages(d, v)
           plain(i) == [kind |-> "page", pgno |-> Nth(A, i), c |-> Written(v)]
           header(i) == [kind |-> "hdr", pgno |-> Nth(B, i), c |-> NoPage]
           bitmap(i) == [kind |-> "page", pgno |-> Nth(B, i), c |-> Written(v)]
<1>1. /\ A \in SUBSET Nat /\ IsFiniteSet(A) /\ B \in SUBSET Nat /\ IsFiniteSet(B)
  BY FS_Subset, PageFacts
<1>2. /\ a \in Nat /\ (\A i \in 1..a : Nth(A, i) \in A)
      /\ \A p \in A : \E i \in 1..a : Nth(A, i) = p
  <2> HIDE DEF A
  <2> QED BY <1>1, NthSet
<1>3. /\ b \in Nat /\ (\A i \in 1..b : Nth(B, i) \in B)
      /\ \A p \in B : \E i \in 1..b : Nth(B, i) = p
  <2> HIDE DEF B
  <2> QED BY <1>1, NthSet
<1>4. WALPagesOf(d) = a + 2 * b
  BY DEF WALPagesOf
<1>5. P = [i \in 1..WALPagesOf(d) |->
             IF i <= a THEN plain(i)
             ELSE IF (i - a) % 2 = 1 THEN header((i - a + 1) \div 2)
             ELSE bitmap((i - a) \div 2)]
  BY DEF DirtyPages
<1> HIDE DEF a, b, P, plain, header, bitmap
<1>6. ASSUME NEW i \in 1..(a + 2 * b)
      PROVE  \/ i <= a /\ P[i] = plain(i) /\ i \in 1..a
             \/ \E j \in 1..b : P[i] = header(j)
             \/ \E j \in 1..b : P[i] = bitmap(j)
  <2>0. i \in 1..WALPagesOf(d)
    BY <1>4, <1>6
  <2>1. CASE i <= a
    BY <1>2, <1>5, <2>0, <2>1
  <2>2. CASE ~(i <= a) /\ (i - a) % 2 = 1
    <3>1. (i - a + 1) \div 2 \in 1..b
      BY <1>2, <1>3, <1>6, <2>2
    <3>2. P[i] = header((i - a + 1) \div 2)
      BY <1>5, <2>0, <2>2
    <3> QED BY <3>1, <3>2
  <2>3. CASE ~(i <= a) /\ (i - a) % 2 # 1
    <3>1. (i - a) \div 2 \in 1..b
      BY <1>2, <1>3, <1>6, <2>3
    <3>2. P[i] = bitmap((i - a) \div 2)
      BY <1>5, <2>0, <2>3
    <3> QED BY <3>1, <3>2
  <2> QED BY <2>1, <2>2, <2>3
<1>7. Written(v) \in Content /\ NoPage \in Content
  BY DEF Written, NoPage, Content
<1>8. ASSUME NEW i \in 1..(a + 2 * b)
      PROVE  P[i] \in WALPage /\ P[i].pgno \in d /\ (P[i].kind = "page" => P[i].c = Written(v))
  <2>1. \A j \in 1..a : Nth(A, j) \in d /\ Nth(A, j) \in Page
    BY <1>2
  <2>2. \A j \in 1..b : Nth(B, j) \in d /\ Nth(B, j) \in Page
    BY <1>3
  <2> HIDE DEF A, B
  <2>3. \A j \in 1..a : plain(j) \in WALPage /\ plain(j).pgno \in d /\ plain(j).c = Written(v)
    BY <1>7, <2>1 DEF plain, WALPage
  <2>4. \A j \in 1..b : header(j) \in WALPage /\ header(j).pgno \in d /\ header(j).kind = "hdr"
    BY <1>7, <2>2 DEF header, WALPage
  <2>5. \A j \in 1..b : bitmap(j) \in WALPage /\ bitmap(j).pgno \in d /\ bitmap(j).c = Written(v)
    BY <1>7, <2>2 DEF bitmap, WALPage
  <2> QED BY <1>6, <2>3, <2>4, <2>5
<1>9. WALPagesOf(d) \in Nat
  BY <1>2, <1>3, <1>4
<1>10. P \in Seq(WALPage) /\ Len(P) = WALPagesOf(d)
  <2>1. P = [i \in 1..WALPagesOf(d) |-> P[i]]
    BY <1>5
  <2>2. \A i \in 1..WALPagesOf(d) : P[i] \in WALPage
    BY <1>4, <1>8
  <2>3. P \in [1..WALPagesOf(d) -> WALPage]
    BY <2>1, <2>2
  <2> QED BY <1>9, <2>3
<1>11. ASSUME NEW p \in d PROVE \E i \in 1..Len(P) : IsPage(P[i], p)
  <2>1. CASE p \in A
    <3>1. PICK i \in 1..a : Nth(A, i) = p
      BY <1>2, <2>1
    <3>2. i \in 1..WALPagesOf(d) /\ i <= a
      BY <1>2, <1>3, <1>4
    <3>3. P[i] = plain(i)
      BY <1>5, <3>2
    <3> QED BY <1>10, <3>1, <3>2, <3>3 DEF plain, IsPage
  <2>2. CASE p \in B
    <3>1. PICK j \in 1..b : Nth(B, j) = p
      BY <1>3, <2>2
    <3>2. PICK i : i = a + 2 * j
      OBVIOUS
    <3>3. i \in 1..WALPagesOf(d) /\ ~(i <= a) /\ (i - a) % 2 # 1 /\ (i - a) \div 2 = j
      BY <1>2, <1>3, <1>4, <3>2
    <3>4. P[i] = bitmap(j)
      BY <1>5, <3>3
    <3> QED BY <1>10, <3>1, <3>3, <3>4 DEF bitmap, IsPage
  <2> QED BY <2>1, <2>2
<1> QED BY <1>4, <1>8, <1>9, <1>10, <1>11 DEF P

\* The pages x, on top of one view, are another.
Adds(x, old, new) ==
    \A p \in Page : p < PageN(new) =>
        \/ /\ \E i \in 1..Len(x) : IsPage(x[i], p)
           /\ \A i \in 1..Len(x) : IsPage(x[i], p) => x[i].c = new[p]
        \/ (\A i \in 1..Len(x) : ~IsPage(x[i], p)) /\ p < PageN(old) /\ new[p] = old[p]

\* Writing at the end of a WAL.
LEMMA ConcatFacts ==
    ASSUME NEW w \in Seq(WALPage), NEW x \in Seq(WALPage)
    PROVE  /\ w \o x \in Seq(WALPage) /\ Len(w \o x) = Len(w) + Len(x)
           /\ Len(w) \in Nat /\ Len(x) \in Nat
           /\ \A i \in 1..Len(w) : (w \o x)[i] = w[i]
           /\ \A i \in 1..Len(x) : (w \o x)[Len(w) + i] = x[i]
OBVIOUS

\* Files that hold a view hold the next one when its pages have been appended.
LEMMA KeptFlush ==
    ASSUME NEW w \in Seq(WALPage), NEW x \in Seq(WALPage), NEW d, NEW ds, NEW old, NEW new,
           Kept(w, Len(w), d, ds, old), Adds(x, old, new)
    PROVE  Kept(w \o x, Len(w) + Len(x), d, ds, new)
<1>1. PICK y, n, m : y = w \o x /\ n = Len(w) /\ m = Len(x)
  OBVIOUS
<1>2. /\ n \in Nat /\ m \in Nat
      /\ \A i \in 1..n : y[i] = w[i]
      /\ \A i \in 1..m : y[n + i] = x[i]
  BY <1>1, ConcatFacts
<1> SUFFICES ASSUME NEW p \in Page, p < PageN(new)
             PROVE  \/ LastIs(y, n + m, p, new[p])
                    \/ (\A j \in 1..(n + m) : ~IsPage(y[j], p)) /\ d[p] = new[p] /\ ds[p] = new[p]
  BY <1>1 DEF Kept
<1>3. CASE /\ \E i \in 1..m : IsPage(x[i], p)
           /\ \A i \in 1..m : IsPage(x[i], p) => x[i].c = new[p]
  <2> DEFINE I == {i \in 1..m : IsPage(x[i], p)}
  <2>1. I \in SUBSET (1..m) /\ I # {}
    BY <1>3
  <2>2. PICK i \in I : \A j \in I : i >= j
    <3> HIDE DEF I
    <3> QED BY <1>2, <2>1, GreatestElement
  <2>3. i \in 1..m /\ IsPage(x[i], p) /\ x[i].c = new[p] /\ \A j \in 1..m : IsPage(x[j], p) => i >= j
    BY <1>3, <2>2
  <2>4. n + i \in 1..(n + m) /\ IsPage(y[n + i], p) /\ y[n + i].c = new[p]
    BY <1>2, <2>3
  <2>5. ASSUME NEW j \in (n + i + 1)..(n + m) PROVE ~IsPage(y[j], p)
    <3>1. j - n \in 1..m /\ ~(i >= j - n) /\ n + (j - n) = j
      BY <1>2, <2>3
    <3>2. y[j] = x[j - n]
      BY <1>2, <3>1
    <3> QED BY <2>3, <3>1, <3>2
  <2> QED BY <2>4, <2>5 DEF LastIs
<1>4. CASE (\A i \in 1..m : ~IsPage(x[i], p)) /\ p < PageN(old) /\ new[p] = old[p]
  <2>1. ASSUME NEW j \in (n + 1)..(n + m) PROVE ~IsPage(y[j], p)
    <3>1. j - n \in 1..m /\ n + (j - n) = j
      BY <1>2
    <3>2. y[j] = x[j - n]
      BY <1>2, <3>1
    <3> QED BY <1>4, <3>1, <3>2
  <2>2. \/ LastIs(w, n, p, old[p])
        \/ (\A j \in 1..n : ~IsPage(w[j], p)) /\ d[p] = old[p] /\ ds[p] = old[p]
    BY <1>1, <1>4 DEF Kept
  <2>3. CASE LastIs(w, n, p, old[p])
    <3>1. PICK i \in 1..n : IsPage(w[i], p) /\ w[i].c = old[p] /\ \A j \in (i + 1)..n : ~IsPage(w[j], p)
      BY <2>3 DEF LastIs
    <3>2. i \in 1..(n + m) /\ IsPage(y[i], p) /\ y[i].c = new[p]
      BY <1>2, <1>4, <3>1
    <3>3. ASSUME NEW j \in (i + 1)..(n + m) PROVE ~IsPage(y[j], p)
      <4>1. j \in (n + 1)..(n + m) \/ (j \in (i + 1)..n /\ j \in 1..n)
        BY <1>2, <3>1
      <4> QED BY <1>2, <2>1, <3>1, <4>1
    <3> QED BY <3>2, <3>3 DEF LastIs
  <2>4. CASE (\A j \in 1..n : ~IsPage(w[j], p)) /\ d[p] = old[p] /\ ds[p] = old[p]
    <3>1. ASSUME NEW j \in 1..(n + m) PROVE ~IsPage(y[j], p)
      <4>1. j \in (n + 1)..(n + m) \/ j \in 1..n
        BY <1>2
      <4> QED BY <1>2, <2>1, <2>4, <4>1
    <3> QED BY <1>4, <2>4, <3>1
  <2> QED BY <2>2, <2>3, <2>4
<1> QED BY <1>1, <1>3, <1>4 DEF Adds

\* The page map that a flush makes leads to the new view.
LEMMA MapFlush ==
    ASSUME NEW w \in Seq(WALPage), NEW x \in Seq(WALPage), NEW base \in Nat, NEW pm, NEW d,
           NEW old, NEW new, NEW id, id = base + Len(w),
           MapOK(pm, base, w, d, old), Adds(x, old, new)
    PROVE  MapOK(MapPages(pm, id, x), base, w \o x, d, new)
<1>1. PICK y, n, m : y = w \o x /\ n = Len(w) /\ m = Len(x)
  OBVIOUS
<1>2. /\ n \in Nat /\ m \in Nat /\ Len(y) = n + m /\ id = base + n /\ id \in Nat
      /\ \A i \in 1..n : y[i] = w[i]
      /\ \A i \in 1..m : y[n + i] = x[i]
  BY <1>1, ConcatFacts
<1>3. PICK new_pm : new_pm = MapPages(pm, id, x)
  OBVIOUS
<1>4. /\ new_pm = [p \in Page |-> new_pm[p]]
      /\ \A p \in Page :
           \/ \E i \in 1..m : IsPage(x[i], p) /\ new_pm[p] = id + i
           \/ (\A i \in 1..m : ~IsPage(x[i], p)) /\ new_pm[p] = pm[p]
  <2>1. new_pm = [p \in Page |->
                    IF \E i \in 1..m : IsPage(x[i], p)
                    THEN id + CHOOSE i \in 1..m : IsPage(x[i], p)
                    ELSE pm[p]]
    BY <1>1, <1>3 DEF MapPages, IsPage
  <2> QED BY <2>1
<1>5. /\ pm \in [Page -> Nat]
      /\ \A p \in Page : pm[p] # 0 => pm[p] - base \in 1..n
      /\ \A p \in Page : p < PageN(old) => old[p] = IF pm[p] # 0 THEN w[pm[p] - base].c ELSE d[p]
  BY <1>1 DEF MapOK
<1>6. ASSUME NEW p \in Page
      PROVE  /\ new_pm[p] \in Nat /\ (new_pm[p] # 0 => new_pm[p] - base \in 1..(n + m))
             /\ p < PageN(new) => new[p] = IF new_pm[p] # 0 THEN y[new_pm[p] - base].c ELSE d[p]
  <2>1. CASE \E i \in 1..m : IsPage(x[i], p) /\ new_pm[p] = id + i
    <3>1. PICK i \in 1..m : IsPage(x[i], p) /\ new_pm[p] = id + i
      BY <2>1
    <3>2. new_pm[p] \in Nat /\ new_pm[p] # 0 /\ new_pm[p] - base = n + i /\ n + i \in 1..(n + m)
      <4>1. base \in Nat /\ i \in 1..m
        OBVIOUS
      <4> QED BY ONLY <1>2, <3>1, <4>1
    <3>3. p < PageN(new) => x[i].c = new[p]
      BY <1>1, <3>1 DEF Adds
    <3> QED BY <1>2, <3>2, <3>3
  <2>2. CASE (\A i \in 1..m : ~IsPage(x[i], p)) /\ new_pm[p] = pm[p]
    <3>1. new_pm[p] \in Nat /\ (new_pm[p] # 0 => new_pm[p] - base \in 1..n)
      BY <1>5, <2>2
    <3>2. new_pm[p] # 0 => new_pm[p] - base \in 1..(n + m)
      BY <1>2, <3>1
    <3>3. ASSUME p < PageN(new) PROVE p < PageN(old) /\ new[p] = old[p]
      BY <1>1, <2>2, <3>3 DEF Adds
    <3>4. p < PageN(new) => new[p] = IF new_pm[p] # 0 THEN w[new_pm[p] - base].c ELSE d[p]
      BY <1>5, <2>2, <3>3
    <3>5. new_pm[p] # 0 => y[new_pm[p] - base] = w[new_pm[p] - base]
      BY <1>2, <3>1
    <3> QED BY <3>1, <3>2, <3>4, <3>5
  <2> QED BY <1>4, <2>1, <2>2
<1>7. new_pm \in [Page -> Nat]
  BY <1>4, <1>6
<1>8. MapOK(new_pm, base, y, d, new)
  BY <1>2, <1>6, <1>7 DEF MapOK
<1> QED BY <1>1, <1>3, <1>8

\* The meta page comes last.
LEMMA AppendFacts ==
    ASSUME NEW P \in Seq(WALPage), NEW m \in WALPage
    PROVE  /\ Append(P, m) \in Seq(WALPage) /\ Len(Append(P, m)) = Len(P) + 1 /\ Len(P) \in Nat
           /\ Append(P, m)[Len(P) + 1] = m /\ \A i \in 1..Len(P) : Append(P, m)[i] = P[i]
OBVIOUS

\* What attempt v writes, on a file of fileN pages with the dirty pages D, when pageN
\* pages are left of it.
IsCommit(old, v, id, fileN, D, pageN, d, meta, x, view) ==
    /\ v \in Nat /\ id \in Nat /\ fileN \in PageN(old)..MaxPageN /\ pageN \in 3..fileN
    /\ D \in SUBSET (1..(fileN - 1)) /\ IsFiniteSet(D) /\ PageN(old)..(fileN - 1) \subseteq D
    /\ d = {p \in D : p < pageN} \cup (IF pageN < fileN THEN {FreelistPage} ELSE {})
    /\ meta = [ver |-> v, walID |-> id + WALPagesOf(d) + 1, pageN |-> pageN]
    /\ x = Append(DirtyPages(d, v), [kind |-> "page", pgno |-> Meta, c |-> meta])
    /\ view = [p \in Page |-> IF p = Meta THEN meta
                              ELSE IF p >= pageN THEN NoPage
                              ELSE IF p \in d THEN Written(v)
                              ELSE old[p]]

\* Over the view it was made from that is a view: the pages that the file has grown by
\* are all dirty.
LEMMA FlushedView ==
    ASSUME NEW c, NEW old, IsView(old, c), NEW v, NEW id, NEW fileN, NEW D, NEW pageN, NEW d,
           NEW meta, NEW x, NEW view, IsCommit(old, v, id, fileN, D, pageN, d, meta, x, view)
    PROVE  /\ WALPagesOf(d) \in Nat /\ x \in Seq(WALPage) /\ Len(x) = WALPagesOf(d) + 1
           /\ IsMetaPage(x[Len(x)]) /\ \A j \in 1..(Len(x) - 1) : ~IsMetaPage(x[j])
           /\ IsView(view, v) /\ view[Meta] = meta /\ Adds(x, old, view)
           /\ view[RootRecordPage].ver = IF RootRecordPage \in D THEN v ELSE old[RootRecordPage].ver
<1> USE DEF IsCommit
<1>1. /\ PageN(old) \in Nat /\ PageN(old) >= 3 /\ MaxPageN \in Nat /\ fileN \in Nat /\ fileN <= MaxPageN
      /\ pageN \in Nat /\ pageN >= 3 /\ pageN <= fileN /\ pageN \in 3..MaxPageN
  BY ViewPageN, BoundAssumption
<1>2. Page = 0..(MaxPageN - 1) /\ Meta = 0 /\ RootRecordPage = 1 /\ FreelistPage = 2
  BY DEF Page, Meta, RootRecordPage, FreelistPage
<1>3. d \in SUBSET Page /\ Meta \notin d /\ \A p \in d : p < pageN
  <2>1. ASSUME NEW p \in d PROVE p \in Page /\ p # Meta /\ p < pageN
    <3>1. CASE p \in D /\ p < pageN
      BY <1>1, <1>2, <3>1
    <3>2. CASE p = FreelistPage /\ pageN < fileN
      BY <1>1, <1>2, <3>2
    <3> QED BY <3>1, <3>2
  <2> QED BY <2>1
<1>4. IsFiniteSet(d)
  <2>1. {p \in D : p < pageN} \subseteq D
    OBVIOUS
  <2>2. IsFiniteSet({p \in D : p < pageN}) /\ IsFiniteSet({FreelistPage}) /\ IsFiniteSet({})
    BY <2>1, FS_Subset, FS_Singleton, FS_EmptySet
  <2> QED BY <2>2, FS_Union
<1>5. PICK P : P = DirtyPages(d, v)
  OBVIOUS
<1>6. /\ P \in Seq(WALPage) /\ Len(P) = WALPagesOf(d) /\ WALPagesOf(d) \in Nat
      /\ \A i \in 1..Len(P) : P[i].pgno \in d /\ (P[i].kind = "page" => P[i].c = Written(v))
      /\ \A p \in d : \E i \in 1..Len(P) : IsPage(P[i], p)
  <2>1. v \in Nat
    OBVIOUS
  <2> HIDE DEF IsCommit
  <2> QED BY <1>3, <1>4, <1>5, <2>1, DirtyPagesFacts
<1>7. PICK mp : mp = [kind |-> "page", pgno |-> Meta, c |-> meta]
  OBVIOUS
<1>8. meta \in Content /\ meta.ver = v /\ meta.pageN = pageN
  BY <1>1, <1>6 DEF Content
<1>9. mp \in WALPage /\ mp.kind = "page" /\ mp.pgno = Meta /\ mp.c = meta
  BY <1>2, <1>7, <1>8, BoundAssumption DEF WALPage
<1>10. PICK n : n = WALPagesOf(d)
  OBVIOUS
<1>11. /\ x \in Seq(WALPage) /\ Len(x) = n + 1 /\ n \in Nat /\ x[n + 1] = mp
       /\ \A i \in 1..n : x[i] = P[i]
  <2>1. x = Append(P, mp) /\ Len(P) = n
    BY <1>5, <1>6, <1>7, <1>10
  <2>2. P \in Seq(WALPage) /\ mp \in WALPage /\ n \in Nat
    BY <1>6, <1>9, <1>10
  <2> QED BY ONLY <2>1, <2>2, AppendFacts
<1>12. IsMetaPage(x[n + 1]) /\ \A j \in 1..n : x[j].pgno # Meta
  <2> HIDE DEF IsCommit
  <2>1. \A j \in 1..n : x[j].pgno \in d
    BY <1>6, <1>10, <1>11
  <2> QED BY <1>3, <1>9, <1>11, <2>1 DEF IsMetaPage
<1>13. view[Meta] = meta /\ PageN(view) = pageN
  BY <1>2, <1>8, BoundAssumption DEF PageN
<1>14. IsView(view, v)
  <2>1. Written(v) \in Content /\ NoPage \in Content
    BY DEF Written, NoPage, Content
  <2>2. old \in [Page -> Content]
    BY DEF IsView
  <2>3. view \in [Page -> Content]
    BY <1>8, <2>1, <2>2
  <2>4. \A p \in Page : p >= pageN => view[p] = NoPage
    BY <1>1, <1>2
  <2> QED BY <1>1, <1>8, <1>13, <2>3, <2>4 DEF IsView
<1>15. Adds(x, old, view)
  <2>0. Len(x) = n + 1 /\ PageN(view) = pageN
    BY <1>11, <1>13
  <2> SUFFICES ASSUME NEW p \in Page, p < pageN
               PROVE  \/ /\ \E i \in 1..(n + 1) : IsPage(x[i], p)
                         /\ \A i \in 1..(n + 1) : IsPage(x[i], p) => x[i].c = view[p]
                      \/ (\A i \in 1..(n + 1) : ~IsPage(x[i], p)) /\ p < PageN(old) /\ view[p] = old[p]
    BY <2>0, ZenonT(60) DEF Adds
  <2>1. CASE p = Meta
    <3>1. n + 1 \in 1..(n + 1) /\ IsPage(x[n + 1], p) /\ x[n + 1].c = view[p]
      BY <1>9, <1>11, <1>13, <2>1 DEF IsPage
    <3>2. \A i \in 1..(n + 1) : i \in 1..n \/ i = n + 1
      BY <1>11
    <3>3. \A i \in 1..(n + 1) : IsPage(x[i], p) => i = n + 1
      BY <1>12, <2>1, <3>2 DEF IsPage
    <3> QED BY <3>1, <3>3
  <2>2. CASE p # Meta /\ p \in d
    <3>1. PICK i \in 1..n : IsPage(P[i], p)
      BY <1>6, <1>10, <2>2
    <3>2. i \in 1..(n + 1) /\ IsPage(x[i], p)
      BY <1>11, <3>1
    <3>3. \A j \in 1..(n + 1) : j \in 1..n \/ j = n + 1
      BY <1>11
    <3>4. ASSUME NEW j \in 1..(n + 1), IsPage(x[j], p) PROVE x[j].c = Written(v)
      <4>1. j \in 1..n
        BY <1>9, <1>11, <2>2, <3>3, <3>4 DEF IsPage
      <4>2. x[j] = P[j] /\ j \in 1..Len(P)
        BY <1>6, <1>10, <1>11, <4>1
      <4> HIDE DEF IsCommit
      <4> QED BY <1>6, <3>4, <4>2 DEF IsPage
    <3>5. view[p] = Written(v)
      BY <1>1, <1>2, <2>2
    <3> QED BY <3>2, <3>4, <3>5
  <2>3. CASE p # Meta /\ p \notin d
    <3>1. \A j \in 1..(n + 1) : j \in 1..n \/ j = n + 1
      BY <1>11
    <3>2. \A j \in 1..(n + 1) : ~IsPage(x[j], p)
      <4> HIDE DEF IsCommit
      <4>1. ASSUME NEW j \in 1..n PROVE x[j].pgno \in d
        BY <1>6, <1>10, <1>11
      <4> QED BY <1>9, <1>11, <2>3, <3>1, <4>1 DEF IsPage
    <3>3. p \notin D
      BY <2>3
    <3>4. p < PageN(old)
      BY <1>1, <1>2, <3>3
    <3>5. view[p] = old[p]
      BY <1>1, <1>2, <2>3
    <3> QED BY <3>2, <3>4, <3>5
  <2> QED BY <2>1, <2>2, <2>3
<1>16. view[RootRecordPage].ver = IF RootRecordPage \in D THEN v ELSE old[RootRecordPage].ver
  <2>1. RootRecordPage \in d <=> RootRecordPage \in D
    BY <1>1, <1>2
  <2>2. RootRecordPage \in Page /\ RootRecordPage # Meta /\ ~(RootRecordPage >= pageN)
    BY <1>1, <1>2, BoundAssumption
  <2>3. Written(v).ver = v
    BY DEF Written
  <2> QED BY <2>1, <2>2, <2>3
<1>17. Len(x) - 1 = n
  BY <1>11
<1> QED BY <1>10, <1>11, <1>12, <1>13, <1>14, <1>15, <1>16, <1>17 DEF IsMetaPage

\* While a writer writes or commits there is no other, and no checkpoint.
LEMMA WriterFacts ==
    ASSUME FileInv, NEW t \in TX, tx[t].st \in {"open", "flushed", "synced"}, tx[t].writable
    PROVE  /\ ckpt.phase = "none" /\ ~Draining /\ status \in {"open", "closing"}
           /\ \A u \in TX \ {t} : /\ tx[u].st \notin {"flushed", "synced"}
                                  /\ Reads(u) => ~tx[u].writable
           /\ walPageN \in Nat /\ baseWALID \in Nat /\ Len(wal) \in Nat /\ wal \in Seq(WALPage)
           /\ UpOK /\ PendingOK /\ committed \in 1..Len(hist) /\ IsView(Current, committed)
           /\ MapOK(pageMap, baseWALID, wal, data, Current) /\ FileTypes
           /\ Current[Meta].walID = baseWALID + walPageN
<1>1. rwmu = t
  BY DEF FileInv, LockInv, WriterLockHeld
<1>2. ckpt.phase = "none"
  BY <1>1, HolderAssumption DEF FileInv, LockInv, WriterLockHeld
<1>3. ~Draining
  BY <1>2 DEF Draining
<1>4. status \in {"open", "closing"}
  BY DEF FileInv, LockInv, LockTypeOK, NoTxBeforeOpen
<1>5. ASSUME NEW u \in TX \ {t} PROVE tx[u].st \in {"none", "want"} \/ ~tx[u].writable
  BY <1>1, <1>5 DEF FileInv, LockInv, WriterLockHeld
<1>6. ASSUME NEW u \in TX \ {t} PROVE tx[u].st \notin {"flushed", "synced"} /\ (Reads(u) => ~tx[u].writable)
  BY <1>5 DEF FileInv, LockInv, WritersOnly, Reads
<1>7. walPageN \in Nat /\ baseWALID \in Nat /\ Len(wal) \in Nat /\ wal \in Seq(WALPage) /\ FileTypes
  BY <1>4 DEF FileInv, FileTypes, LockInv, LockTypeOK
<1>8. UpOK /\ PendingOK
  BY <1>4 DEF FileInv, WALOK
<1>9. committed \in 1..Len(hist) /\ IsView(Current, committed)
  BY DEF FileInv, HistOK, Current
<1>10. MapOK(pageMap, baseWALID, wal, data, Current) /\ Current[Meta].walID = baseWALID + walPageN
  BY <1>2, <1>4 DEF FileInv, MapInv
<1> QED BY <1>2, <1>3, <1>4, <1>6, <1>7, <1>8, <1>9, <1>10

\* Commit, first half.
LEMMA FlushStep ==
    ASSUME FileInv, LockInv', "flush" \notin Fault, NEW t \in TX, Flush(t)
    PROVE  FileInv'
<1> DEFINE r == tx[t]
           v == Len(hist) + 1
<1>1. tx[t].st = "open" /\ tx[t].writable
  BY DEF Flush
<1>2. PICK pageN \in 3..r.meta.pageN :
         LET d == {p \in r.dirty : p < pageN} \cup (IF pageN < r.meta.pageN THEN {FreelistPage} ELSE {})
             meta == [ver |-> v, walID |-> r.meta.walID + WALPagesOf(d) + 1, pageN |-> pageN]
             x == Append(DirtyPages(d, v), [kind |-> "page", pgno |-> Meta, c |-> meta])
             view == [p \in Page |->
                        IF p = Meta THEN meta
                        ELSE IF p >= pageN THEN NoPage
                        ELSE IF p \in d THEN Written(v)
                        ELSE hist[r.ver][p]]
         IN  /\ ~TxTooLarge(t, d) /\ hist' = Append(hist, view) /\ wal' = wal \o x
             /\ tx' = [tx EXCEPT ![t].st = "flushed", ![t].dirty = d, ![t].meta = meta,
                                 ![t].walPageN = @ + WALPagesOf(d) + 1,
                                 ![t].pageMap = MapPages(@, tx[t].meta.walID, x)]
  BY DEF Flush, CanFail
<1> DEFINE d == {p \in r.dirty : p < pageN} \cup (IF pageN < r.meta.pageN THEN {FreelistPage} ELSE {})
           meta == [ver |-> v, walID |-> r.meta.walID + WALPagesOf(d) + 1, pageN |-> pageN]
           x == Append(DirtyPages(d, v), [kind |-> "page", pgno |-> Meta, c |-> meta])
           view == [p \in Page |->
                      IF p = Meta THEN meta
                      ELSE IF p >= pageN THEN NoPage
                      ELSE IF p \in d THEN Written(v)
                      ELSE hist[r.ver][p]]
           s == [r EXCEPT !.st = "flushed", !.dirty = d, !.meta = meta,
                          !.walPageN = @ + WALPagesOf(d) + 1,
                          !.pageMap = MapPages(@, r.meta.walID, x)]
<1>a. ~TxTooLarge(t, d) /\ hist' = Append(hist, view) /\ wal' = wal \o x
  BY <1>2
<1>b. tx' = [tx EXCEPT ![t] = s]
  BY <1>2
<1>3. UNCHANGED <<data, dataSync, walSync, status, pageMap, walPageN, baseWALID, rootRecords, ckpt, committed>>
  BY DEF Flush, dbVars
<1>4. /\ ckpt.phase = "none" /\ ~Draining /\ status \in {"open", "closing"}
      /\ \A u \in TX \ {t} : tx[u].st \notin {"flushed", "synced"} /\ (Reads(u) => ~tx[u].writable)
      /\ walPageN \in Nat /\ baseWALID \in Nat /\ Len(wal) \in Nat /\ wal \in Seq(WALPage)
      /\ UpOK /\ committed \in 1..Len(hist) /\ IsView(Current, committed)
      /\ MapOK(pageMap, baseWALID, wal, data, Current) /\ FileTypes
      /\ Current[Meta].walID = baseWALID + walPageN
  BY <1>1, WriterFacts
<1>5. NonePending /\ NoneSynced
  BY <1>1, <1>4 DEF NonePending, NoneSynced, Pends
<1>6. CommittedN = Len(wal) /\ walPageN = Len(wal)
  BY <1>4, <1>5 DEF CommittedN, UpOK
<1>7. ReaderOK(t) /\ WriterOK(t)
  BY <1>1 DEF FileInv, TxsOK, TxOK, Reads
<1>8. /\ r.ver = committed /\ r.walPageN = Len(wal) /\ r.meta.walID = baseWALID + Len(wal)
      /\ hist[r.ver] = Current /\ MapOK(r.pageMap, baseWALID, wal, data, Current)
      /\ r.meta.pageN \in PageN(Current)..MaxPageN /\ r.dirty \in SUBSET (1..(r.meta.pageN - 1))
      /\ PageN(Current)..(r.meta.pageN - 1) \subseteq r.dirty
      /\ r.rootRecords = IF RootRecordPage \in r.dirty THEN v ELSE Current[RootRecordPage].ver
  BY <1>4, <1>6, <1>7 DEF ReaderOK, WriterOK, Current
<1>9. v \in Nat /\ Len(hist) \in Nat /\ hist \in Seq([Page -> Content]) /\ r.meta.walID \in Nat
  BY <1>4, <1>8 DEF FileInv, HistOK
<1>10. IsFiniteSet(r.dirty) /\ IsTx(r)
  BY DEF FileInv, LockInv, LockTypeOK, IsTx
<1>11. /\ WALPagesOf(d) \in Nat /\ x \in Seq(WALPage) /\ Len(x) = WALPagesOf(d) + 1
       /\ IsMetaPage(x[Len(x)]) /\ \A j \in 1..(Len(x) - 1) : ~IsMetaPage(x[j])
       /\ IsView(view, v) /\ view[Meta] = meta /\ Adds(x, Current, view)
       /\ view[RootRecordPage].ver = IF RootRecordPage \in r.dirty THEN v ELSE Current[RootRecordPage].ver
  <2>1. PICK old, id, fileN, D : old = Current /\ id = r.meta.walID /\ fileN = r.meta.pageN /\ D = r.dirty
    OBVIOUS
  <2>2. /\ IsView(old, committed) /\ v \in Nat /\ id \in Nat /\ fileN \in PageN(old)..MaxPageN
        /\ D \in SUBSET (1..(fileN - 1)) /\ IsFiniteSet(D) /\ PageN(old)..(fileN - 1) \subseteq D
        /\ pageN \in 3..fileN
    BY <1>4, <1>8, <1>9, <1>10, <2>1
  <2>3. d = {p \in D : p < pageN} \cup (IF pageN < fileN THEN {FreelistPage} ELSE {})
    BY <2>1
  <2> HIDE DEF v, d
  <2>4. meta = [ver |-> v, walID |-> id + WALPagesOf(d) + 1, pageN |-> pageN]
    BY <2>1
  <2> HIDE DEF meta
  <2>5. x = Append(DirtyPages(d, v), [kind |-> "page", pgno |-> Meta, c |-> meta])
    OBVIOUS
  <2> HIDE DEF x
  <2>6. view = [p \in Page |-> IF p = Meta THEN meta
                                ELSE IF p >= pageN THEN NoPage
                                ELSE IF p \in d THEN Written(v)
                                ELSE old[p]]
    BY <1>8, <2>1
  <2> HIDE DEF view
  <2>7. /\ WALPagesOf(d) \in Nat /\ x \in Seq(WALPage) /\ Len(x) = WALPagesOf(d) + 1
        /\ IsMetaPage(x[Len(x)]) /\ \A j \in 1..(Len(x) - 1) : ~IsMetaPage(x[j])
        /\ IsView(view, v) /\ view[Meta] = meta /\ Adds(x, old, view)
        /\ view[RootRecordPage].ver = IF RootRecordPage \in D THEN v ELSE old[RootRecordPage].ver
    <3>1. IsCommit(old, v, id, fileN, D, pageN, d, meta, x, view)
      BY <2>2, <2>3, <2>4, <2>5, <2>6 DEF IsCommit
    <3> QED BY ONLY <2>2, <3>1, FlushedView
  <2> QED BY <2>1, <2>7
<1>c. meta.walID = r.meta.walID + WALPagesOf(d) + 1
  OBVIOUS
<1>d. /\ s.st = "flushed" /\ s.meta = meta /\ s.walPageN = Len(wal) + WALPagesOf(d) + 1
      /\ s.pageMap = MapPages(r.pageMap, r.meta.walID, x) /\ s.rootRecords = r.rootRecords
  <2> HIDE DEF x, d, meta, v
  <2> QED BY <1>8, <1>10 DEF IsTx, TxField
<1> HIDE DEF r, v, d, meta, x, view, s
<1>12. /\ wal' \in Seq(WALPage) /\ Len(wal') = Len(wal) + Len(x) /\ Len(x) \in Nat /\ Len(x) > 0
       /\ \A i \in 1..Len(wal) : wal'[i] = wal[i]
       /\ \A i \in 1..Len(x) : wal'[Len(wal) + i] = x[i]
  <2>1. /\ wal \o x \in Seq(WALPage) /\ Len(wal \o x) = Len(wal) + Len(x)
        /\ \A i \in 1..Len(wal) : (wal \o x)[i] = wal[i]
        /\ \A i \in 1..Len(x) : (wal \o x)[Len(wal) + i] = x[i]
    BY <1>4, <1>11, ConcatFacts
  <2>2. Len(x) \in Nat /\ Len(x) > 0
    BY <1>11
  <2>3. wal' = wal \o x
    BY <1>a
  <2> QED BY ONLY <2>1, <2>2, <2>3
<1>13. Len(wal') <= MaxWALSize
  <2>1. ~(r.walPageN + WALPagesOf(d) >= MaxWALSize)
    BY <1>a DEF TxTooLarge, r
  <2> QED BY <1>4, <1>8, <1>11, <1>12, <2>1, SizeAssumption
<1>14. /\ hist' \in Seq([Page -> Content]) /\ Len(hist') = v /\ hist'[v] = view
       /\ \A i \in 1..Len(hist) : hist'[i] = hist[i] /\ i \in 1..v
  <2>1. view \in [Page -> Content]
    BY <1>11 DEF IsView
  <2>2. v = Len(hist) + 1
    BY DEF v
  <2> QED BY <1>a, <1>9, <2>1, <2>2
<1>15. Current' = Current /\ Newest' = view
  BY <1>3, <1>4, <1>14 DEF Current, Newest
<1>16. HistOK'
  <2>1. \A i \in 1..v : i \in 1..Len(hist) \/ i = v
    BY <1>9 DEF v
  <2>2. \A i \in 1..Len(hist) : IsView(hist[i], i)
    BY DEF FileInv, HistOK
  <2>3. \A i \in 1..v : IsView(hist'[i], i)
    BY <1>11, <1>14, <2>1, <2>2
  <2> QED BY <1>3, <1>4, <1>14, <2>3 DEF HistOK
<1>17. FileTypes'
  BY <1>3, <1>4, <1>12, <1>13 DEF FileTypes
<1>18. /\ tx'[t].st = "flushed" /\ tx'[t].meta = meta /\ tx'[t].walPageN = Len(wal) + WALPagesOf(d) + 1
       /\ tx'[t].pageMap = MapPages(r.pageMap, r.meta.walID, x) /\ tx'[t].rootRecords = r.rootRecords
       /\ \A u \in TX \ {t} : tx'[u] = tx[u]
  <2>1. tx'[t] = s /\ \A u \in TX \ {t} : tx'[u] = tx[u]
    BY <1>b, TxAfter DEF FileInv
  <2> QED BY <1>d, <2>1
<1>19. ~NonePending' /\ NoneSynced' /\ CommittedN' = Len(wal)
  <2>1. ~NonePending'
    BY <1>18 DEF NonePending, Pends
  <2>2. NoneSynced'
    BY <1>4, <1>18 DEF NoneSynced
  <2> QED BY <1>3, <1>6, <2>1, <2>2 DEF CommittedN
<1>20. Kept(wal, Len(wal), data, dataSync, Current) /\ (Len(wal) > 0 => IsMetaPage(wal[Len(wal)]))
  BY <1>4, <1>6 DEF UpOK
<1>21. UpOK'
  <2>1. Len(wal) \in 0..Len(wal') /\ (Len(wal) > 0 => IsMetaPage(wal'[Len(wal)]))
    BY <1>4, <1>12, <1>20
  <2>2. Kept(wal', Len(wal), data, dataSync, Current)
    BY <1>4, <1>12, <1>20, KeptPrefix
  <2>3. Holds(walSync, data, dataSync, Current) /\ Agree(wal, walSync, Len(wal))
    BY <1>4, <1>5, <1>6 DEF UpOK
  <2>4. Agree(wal', walSync, Len(wal))
    BY <1>4, <1>12, <2>3 DEF Agree
  <2> QED BY <1>3, <1>6, <1>15, <1>19, <2>1, <2>2, <2>3, <2>4 DEF UpOK
<1>22. PendingOK'
  <2>1. walPageN' < Len(wal')
    BY <1>3, <1>4, <1>6, <1>12
  <2>2. IsMetaPage(wal'[Len(wal')])
    <3>1. Len(x) \in 1..Len(x)
      BY <1>12
    <3> QED BY <1>11, <1>12, <3>1
  <2>3. ASSUME NEW j \in (walPageN' + 1)..(Len(wal') - 1) PROVE ~IsMetaPage(wal'[j])
    <3>1. j - Len(wal) \in 1..(Len(x) - 1) /\ j - Len(wal) \in 1..Len(x) /\ Len(wal) + (j - Len(wal)) = j
      BY <1>3, <1>4, <1>6, <1>12, <2>3
    <3>2. wal'[j] = x[j - Len(wal)]
      BY <1>12, <3>1
    <3> QED BY <1>11, <3>1, <3>2
  <2>4. Kept(wal', Len(wal'), data, dataSync, view)
    BY <1>a, <1>4, <1>11, <1>12, <1>20, KeptFlush
  <2> QED BY <1>3, <1>15, <1>19, <2>1, <2>2, <2>3, <2>4 DEF PendingOK
<1>23. WALOK'
  BY <1>3, <1>4, <1>21, <1>22 DEF WALOK
<1>24. MapInv'
  <2>1. MapOK(pageMap, baseWALID, wal', data, Current)
    BY <1>a, <1>4, <1>11, MapGrows
  <2> QED BY <1>3, <1>4, <1>15, <2>1 DEF FileInv, MapInv
<1>25. CkptInv'
  <2>1. ~Draining' /\ ckpt.pageN = 0
    BY <1>3, <1>4 DEF Draining, FileInv, CkptInv
  <2> QED BY <1>3, <1>4, <2>1 DEF CkptInv
<1>26. ASSUME NEW u \in TX PROVE TxOK(u)'
  <2>1. CASE u = t
    <3>1. MapOK(tx'[t].pageMap, baseWALID, wal', data, view)
      BY <1>a, <1>4, <1>8, <1>11, <1>18, MapFlush
    <3>2. tx'[t].walPageN = Len(wal') /\ meta.walID = baseWALID + Len(wal')
      BY <1>4, <1>8, <1>11, <1>12, <1>18, <1>c
    <3>3. CommitterOK(t)'
      BY <1>3, <1>8, <1>11, <1>15, <1>18, <3>1, <3>2 DEF CommitterOK
    <3> QED BY <1>18, <2>1, <3>3 DEF TxOK, Reads, Pends
  <2>2. CASE u # t
    <3>1. tx'[u] = tx[u] /\ tx[u].st \notin {"flushed", "synced"} /\ (Reads(u) => ~tx[u].writable) /\ TxOK(u)
      BY <1>4, <1>18, <2>2 DEF FileInv, TxsOK
    <3>2. ASSUME Reads(u) PROVE ReaderOK(u)' /\ WaitOK(u)'
      <4>1. ReaderOK(u) /\ tx[u].dirty = {}
        BY <3>1, <3>2 DEF TxOK, ReaderOK
      <4>2. tx[u].ver \in 1..Len(hist)
        BY <4>1 DEF ReaderOK
      <4>3. hist'[tx[u].ver] = hist[tx[u].ver] /\ tx[u].ver \in 1..Len(hist')
        BY <1>14, <4>2
      <4>4. MapOK(tx[u].pageMap, baseWALID, wal', data, hist[tx[u].ver])
        BY <1>a, <1>4, <1>11, <4>1, MapGrows DEF ReaderOK
      <4>5. ReaderOK(u)'
        BY <1>3, <3>1, <4>1, <4>3, <4>4 DEF ReaderOK
      <4>6. WaitOK(u)'
        BY <1>3, <1>4 DEF WaitOK
      <4> QED BY <4>5, <4>6
    <3> QED BY <3>1, <3>2 DEF TxOK, Reads, Pends
  <2> QED BY <2>1, <2>2
<1> QED BY <1>16, <1>17, <1>23, <1>24, <1>25, <1>26 DEF FileInv, TxsOK

\* The record of a committing transaction after its state has changed.
LEMMA StateAfter ==
    ASSUME FileInv, NEW t \in TX, NEW s, tx' = [tx EXCEPT ![t].st = s]
    PROVE  /\ tx'[t].st = s /\ \A u \in TX \ {t} : tx'[u] = tx[u]
           /\ tx'[t].pageMap = tx[t].pageMap /\ tx'[t].meta = tx[t].meta
           /\ tx'[t].walPageN = tx[t].walPageN /\ tx'[t].rootRecords = tx[t].rootRecords
<1> DEFINE r == [tx[t] EXCEPT !.st = s]
<1>1. tx' = [tx EXCEPT ![t] = r]
  OBVIOUS
<1>2. /\ r.st = s /\ r.pageMap = tx[t].pageMap /\ r.meta = tx[t].meta
      /\ r.walPageN = tx[t].walPageN /\ r.rootRecords = tx[t].rootRecords
  BY DEF FileInv, LockInv, LockTypeOK, IsTx, TxField
<1> HIDE DEF r
<1>3. tx'[t] = r /\ \A u \in TX \ {t} : tx'[u] = tx[u]
  BY <1>1, TxAfter DEF FileInv
<1> QED BY <1>2, <1>3

\* The sync makes the pending view the one that a crash leaves.
LEMMA FlushSyncStep ==
    ASSUME FileInv, LockInv', "flush" \notin Fault, NEW t \in TX, FlushSync(t)
    PROVE  FileInv'
<1>1. /\ tx[t].st = "flushed" /\ walSync' = wal /\ tx' = [tx EXCEPT ![t].st = "synced"]
      /\ UNCHANGED <<data, dataSync, wal, status, pageMap, walPageN, baseWALID, rootRecords, ckpt,
                     hist, committed>>
  BY DEF FlushSync, CanFail, dbVars, histVars
<1>2. tx[t].writable
  BY <1>1 DEF FileInv, LockInv, WritersOnly
<1>3. /\ ckpt.phase = "none" /\ ~Draining /\ status \in {"open", "closing"}
      /\ (\A u \in TX \ {t} : tx[u].st \notin {"flushed", "synced"})
      /\ wal \in Seq(WALPage) /\ UpOK /\ PendingOK /\ FileTypes
  BY <1>1, <1>2, WriterFacts
<1>4. /\ tx'[t].st = "synced" /\ (\A u \in TX \ {t} : tx'[u] = tx[u])
      /\ tx'[t].pageMap = tx[t].pageMap /\ tx'[t].meta = tx[t].meta
      /\ tx'[t].walPageN = tx[t].walPageN /\ tx'[t].rootRecords = tx[t].rootRecords
  BY <1>1, StateAfter
<1>5. ~NonePending /\ ~NonePending' /\ ~NoneSynced'
  BY <1>1, <1>4 DEF NonePending, NoneSynced, Pends
<1>6. Current' = Current /\ Newest' = Newest /\ CommittedN' = CommittedN /\ Draining' = Draining
  BY <1>1, <1>5 DEF Current, Newest, CommittedN, Draining
<1>7. HistOK' /\ FileTypes'
  BY <1>1 DEF FileInv, HistOK, FileTypes
<1>8. UpOK'
  BY <1>1, <1>3, <1>5, <1>6 DEF UpOK
<1>9. PendingOK'
  BY <1>1, <1>3, <1>5, <1>6 DEF PendingOK
<1>10. WALOK'
  BY <1>1, <1>3, <1>8, <1>9 DEF WALOK
<1>11. MapInv'
  BY <1>1, <1>6 DEF FileInv, MapInv
<1>12. CkptInv'
  BY <1>1, <1>6 DEF FileInv, CkptInv
<1>13. ASSUME NEW u \in TX PROVE TxOK(u)'
  <2>1. CASE u = t
    <3>1. CommitterOK(t)
      BY <1>1 DEF FileInv, TxsOK, TxOK, Pends
    <3>2. CommitterOK(t)'
      BY <1>1, <1>4, <1>6, <3>1 DEF CommitterOK
    <3> QED BY <1>4, <2>1, <3>2 DEF TxOK, Reads, Pends
  <2>2. CASE u # t
    <3>1. TxOK(u) /\ tx'[u] = tx[u]
      BY <1>4, <2>2 DEF FileInv, TxsOK
    <3>2. Reads(u) => WaitOK(u)'
      BY <1>1, <1>3 DEF WaitOK
    <3> QED BY <1>1, <3>1, <3>2, OtherTx
  <2> QED BY <2>1, <2>2
<1> QED BY <1>7, <1>10, <1>11, <1>12, <1>13 DEF FileInv, TxsOK

\* The view that is committed becomes the current one.
LEMMA PublishStep ==
    ASSUME FileInv, LockInv', NEW t \in TX, Publish(t)
    PROVE  FileInv'
<1>1. /\ tx[t].st = "synced" /\ rootRecords' = tx[t].rootRecords /\ pageMap' = tx[t].pageMap
      /\ walPageN' = tx[t].walPageN /\ committed' = tx[t].meta.ver
      /\ tx' = [tx EXCEPT ![t].st = "published"]
      /\ UNCHANGED <<data, dataSync, wal, walSync, status, baseWALID, ckpt, hist>>
  BY DEF Publish, diskVars
<1>2. tx[t].writable
  BY <1>1 DEF FileInv, LockInv, WritersOnly
<1>3. /\ ckpt.phase = "none" /\ ~Draining /\ status \in {"open", "closing"}
      /\ (\A u \in TX \ {t} : /\ tx[u].st \notin {"flushed", "synced"}
                              /\ Reads(u) => ~tx[u].writable)
      /\ wal \in Seq(WALPage) /\ Len(wal) \in Nat /\ UpOK /\ PendingOK /\ FileTypes
  BY <1>1, <1>2, WriterFacts
<1>4. tx'[t].st = "published" /\ \A u \in TX \ {t} : tx'[u] = tx[u]
  BY <1>1, StateAfter
<1>5. NonePending' /\ NoneSynced' /\ ~NonePending /\ ~NoneSynced
  BY <1>1, <1>3, <1>4 DEF NonePending, NoneSynced, Pends
<1>6. CommitterOK(t)
  BY <1>1 DEF FileInv, TxsOK, TxOK, Pends
<1>7. Len(hist) \in 1..Len(hist) /\ IsView(Newest, Len(hist))
  <2>1. Len(hist) \in Nat /\ committed \in 1..Len(hist)
    BY DEF FileInv, HistOK
  <2>2. Len(hist) \in 1..Len(hist)
    BY <2>1
  <2> QED BY <2>2 DEF FileInv, HistOK, Newest
<1>8. committed' = Len(hist) /\ Current' = Newest /\ Newest' = Newest
  <2>1. committed' = Len(hist)
    BY <1>1, <1>6, <1>7 DEF CommitterOK, IsView
  <2> QED BY <1>1, <2>1 DEF Current, Newest
<1>9. HistOK'
  BY <1>1, <1>7, <1>8 DEF FileInv, HistOK
<1>10. MapOK(pageMap', baseWALID, wal, data, Newest) /\ walPageN' = Len(wal)
       /\ Newest[Meta].walID = baseWALID + Len(wal) /\ rootRecords' = Newest[RootRecordPage].ver
  BY <1>1, <1>6 DEF CommitterOK
<1>11. FileTypes'
  BY <1>1, <1>3, <1>10 DEF FileTypes, MapOK
<1>12. WALOK'
  <2>1. Kept(wal, Len(wal), data, dataSync, Newest) /\ IsMetaPage(wal[Len(wal)]) /\ walSync = wal
    BY <1>3, <1>5 DEF PendingOK
  <2>2. Holds(wal, data, dataSync, Newest)
    BY <1>3, <2>1, WholeHolds
  <2>3. Agree(wal, wal, Len(wal))
    BY <1>3 DEF Agree
  <2>4. CommittedN' = Len(wal)
    BY <1>1, <1>5 DEF CommittedN
  <2>5. Len(wal) \in 0..Len(wal)
    BY <1>3
  <2>6. UpOK'
    BY <1>1, <1>8, <1>10, <2>1, <2>2, <2>3, <2>4, <2>5 DEF UpOK
  <2>7. PendingOK'
    BY <1>5 DEF PendingOK
  <2> QED BY <1>1, <1>3, <2>6, <2>7 DEF WALOK
<1>13. MapInv'
  BY <1>1, <1>3, <1>8, <1>10 DEF MapInv
<1>14. CkptInv'
  <2>1. ~Draining' /\ ckpt.pageN = 0
    BY <1>1, <1>3 DEF Draining, FileInv, CkptInv
  <2> QED BY <1>1, <1>3, <2>1 DEF CkptInv
<1>15. ASSUME NEW u \in TX PROVE TxOK(u)'
  <2>1. CASE u = t
    BY <1>4, <2>1 DEF TxOK, Reads, Pends
  <2>2. CASE u # t
    <3>1. tx'[u] = tx[u] /\ tx[u].st \notin {"flushed", "synced"} /\ (Reads(u) => ~tx[u].writable) /\ TxOK(u)
      BY <1>3, <1>4, <2>2 DEF FileInv, TxsOK
    <3>2. Reads(u) => ReaderOK(u)'
      BY <1>1, <3>1 DEF TxOK, ReaderOK
    <3>3. WaitOK(u)'
      BY <1>1, <1>3 DEF WaitOK
    <3> QED BY <3>1, <3>2, <3>3 DEF TxOK, Reads, Pends
  <2> QED BY <2>1, <2>2
<1> QED BY <1>9, <1>11, <1>12, <1>13, <1>14, <1>15 DEF FileInv, TxsOK

-----------------------------------------------------------------------------
(* The theorems *)

\* A new file holds the first view.
LEMMA FileInvInit == Init => FileInv
<1> SUFFICES ASSUME Init PROVE FileInv
  OBVIOUS
<1>1. LockInv
  BY LockInvInit
<1>2. /\ data = InitView /\ dataSync = InitView /\ wal = <<>> /\ walSync = <<>> /\ status = "down"
      /\ pageMap = [p \in Page |-> 0] /\ baseWALID = 0 /\ rootRecords = 0
      /\ tx = [t \in TX |-> NoTx] /\ ckpt = NoCkpt /\ hist = <<InitView>> /\ committed = 1
  BY DEF Init
<1>3. IsView(InitView, 1)
  <2>1. Page = 0..(MaxPageN - 1) /\ Meta = 0 /\ MaxPageN \in Nat /\ MaxPageN >= 3
    BY BoundAssumption DEF Page, Meta
  <2>2. Written(1) \in Content /\ NoPage \in Content /\ [ver |-> 1, walID |-> 0, pageN |-> 3] \in Content
    BY DEF Written, NoPage, Content
  <2>3. InitView \in [Page -> Content]
    BY <2>2 DEF InitView
  <2>4. InitView[Meta] = [ver |-> 1, walID |-> 0, pageN |-> 3]
    BY <2>1 DEF InitView
  <2>5. \A p \in Page : p >= 3 => InitView[p] = NoPage
    BY <2>1 DEF InitView
  <2> QED BY <2>1, <2>3, <2>4, <2>5 DEF IsView, PageN
<1>4. Len(hist) = 1 /\ hist[1] = InitView /\ hist \in Seq([Page -> Content])
  BY <1>2, <1>3 DEF IsView
<1>5. HistOK
  <2>1. \A v \in 1..1 : v = 1
    OBVIOUS
  <2> QED BY <1>2, <1>3, <1>4, <2>1 DEF HistOK
<1>6. DataHolds(InitView, InitView, InitView)
  BY DEF DataHolds
<1>7. /\ <<>> \in Seq(WALPage) /\ Len(<<>>) = 0 /\ Holds(<<>>, InitView, InitView, InitView)
  BY <1>6, EmptyWAL
<1>8. pageMap \in [Page -> Nat] /\ Zero(pageMap)
  BY <1>2 DEF Zero
<1>9. FileTypes
  BY <1>2, <1>3, <1>7, <1>8, SizeAssumption DEF FileTypes, IsView
<1>10. WALOK
  <2>1. Agree(wal, walSync, Len(wal))
    BY <1>2, <1>7 DEF Agree
  <2>2. 1 \in 1..Len(hist)
    BY <1>4
  <2>3. DownOK
    BY <1>2, <1>4, <1>7, <2>1, <2>2 DEF DownOK
  <2> QED BY <1>2, <2>3 DEF WALOK
<1>11. ckpt.phase = "none" /\ ckpt.pageN = 0 /\ ~Draining
  BY <1>2 DEF NoCkpt, Draining
<1>12. MapInv
  BY <1>2, <1>8, <1>11 DEF MapInv
<1>13. CkptInv
  BY <1>11 DEF CkptInv
<1>14. \A t \in TX : tx[t].st = "none"
  BY <1>2 DEF NoTx
<1>15. TxsOK
  BY <1>14 DEF TxsOK, TxOK, Reads, Pends
<1> QED BY <1>1, <1>5, <1>9, <1>10, <1>12, <1>13, <1>15 DEF FileInv

\* The I/O errors that the database answers without losing its promise: one in the copy
\* of a checkpoint, after which it is dead, or Open fails.
SafeFaults == Fault \subseteq {"checkpoint"}

\* Every step keeps the invariant, ...
LEMMA FileInvNext == SafeFaults /\ FileInv /\ [Next]_vars => FileInv'
<1> SUFFICES ASSUME SafeFaults, FileInv, [Next]_vars PROVE FileInv'
  OBVIOUS
<1>1. LockInv'
  BY LockInvNext DEF FileInv
<1>2. "flush" \notin Fault /\ "truncate" \notin Fault
  BY DEF SafeFaults
<1>3. ASSUME NEW t \in TX, BeginRead(t) PROVE FileInv'
  BY <1>1, <1>3, NewTxStep DEF BeginRead
<1>4. ASSUME NEW t \in TX, EnterWriter(t) PROVE FileInv'
  <2>1. status \in {"open", "closing"}
    BY <1>4 DEF EnterWriter, FileInv, LockInv, LockTypeOK, NoTxBeforeOpen
  <2> QED BY <1>1, <1>4, <2>1, NewTxStep DEF EnterWriter
<1>5. ASSUME NEW t \in TX, BeginWrite(t) \/ LockWriter(t) \/ BeginFails(t) PROVE FileInv'
  BY <1>1, <1>5, LockStep
<1>6. ASSUME NEW t \in TX, Allocate(t) \/ \E p \in Page \ {Meta} : Write(t, p) PROVE FileInv'
  <2>1. tx[t].st = "open" /\ tx[t].writable
    BY <1>6 DEF Allocate, Write, Dirty
  <2>2. /\ PageN(Current) \in Nat /\ PageN(Current) >= 3 /\ MaxPageN \in Nat
        /\ tx[t].meta.pageN \in PageN(Current)..MaxPageN
    <3>1. IsView(Current, committed)
      BY DEF FileInv, HistOK, Current
    <3>2. WriterOK(t)
      BY <2>1 DEF FileInv, TxsOK, TxOK, Reads
    <3> QED BY <3>1, <3>2, ViewPageN, BoundAssumption DEF WriterOK
  <2>3. PICK n : n = tx[t].meta.pageN
    OBVIOUS
  <2>4. n \in Nat /\ n >= 3 /\ n <= MaxPageN
    BY <2>2, <2>3
  <2>5. CASE Allocate(t)
    <3>1. n < MaxPageN /\ Dirty(t, n, n + 1)
      BY <2>3, <2>5 DEF Allocate
    <3>2. n \in Page /\ n # Meta /\ n < n + 1 /\ n + 1 \in Nat
      BY <2>2, <2>4, <3>1 DEF Page, Meta
    <3> QED BY <1>1, <2>3, <3>1, <3>2, DirtyStep
  <2>6. CASE \E p \in Page \ {Meta} : Write(t, p)
    <3>1. PICK p \in Page \ {Meta} : p < n /\ Dirty(t, p, n)
      BY <2>3, <2>6 DEF Write
    <3> QED BY <1>1, <2>3, <2>4, <3>1, DirtyStep
  <2> QED BY <1>6, <2>5, <2>6
<1>7. ASSUME NEW t \in TX, Flush(t) \/ FlushSync(t) \/ Publish(t) \/ RemoveTx(t) PROVE FileInv'
  BY <1>1, <1>2, <1>7, FlushStep, FlushSyncStep, PublishStep, RemoveStep
<1>8. ASSUME CkptStep PROVE FileInv'
  BY <1>1, <1>2, <1>8, SkipStep, StartStep, CopyStep, SyncStep, ResetStep, RebaseStep, TruncateStep,
     ShrinkStep DEF CkptStep
<1>9. CASE Open \/ OpenFails \/ CloseFiles \/ Crash
  BY <1>1, <1>9, OpenStep, OpenFailsStep, CloseFilesStep, CrashStep
<1>10. CASE Close \/ UNCHANGED vars
  BY <1>1, <1>10, IdleStep
<1> QED BY <1>3, <1>4, <1>5, <1>6, <1>7, <1>8, <1>9, <1>10 DEF Next, TxStep, ClientStep

\* ... so it holds throughout.
LEMMA FileInvHolds ==
    ASSUME SafeFaults
    PROVE  Spec => []FileInv
BY FileInvInit, FileInvNext, PTL DEF Spec

\* Snapshot isolation: from Begin to its end a transaction reads, on every page that it
\* did not write, what the commit that was current at its Begin had left there, through
\* all commits, checkpoints, truncations of the WAL and rebased WAL IDs (db.go
\* checkpoint, tx.go readPage).  Assumed: no I/O error in a flush or in truncateWAL.
THEOREM SnapshotIsolationHolds ==
    ASSUME SafeFaults
    PROVE  Spec => []SnapshotIsolation
<1>1. FileInv => SnapshotIsolation
  <2> SUFFICES ASSUME FileInv, NEW t \in txs, tx[t].st \in {"open", "failed"}
               PROVE  LET view == hist[tx[t].ver] IN
                      /\ tx[t].meta.ver = view[Meta].ver
                      /\ tx[t].meta.walID = view[Meta].walID
                      /\ \A p \in 1..(view[Meta].pageN - 1) :
                             /\ Readable(tx[t].pageMap, p)
                             /\ ReadMapped(tx[t].pageMap, p) = view[p]
    BY DEF SnapshotIsolation
  <2>1. ReaderOK(t)
    BY DEF FileInv, TxsOK, TxOK, Reads, txs
  <2>2. PICK view : view = hist[tx[t].ver] /\ IsView(view, tx[t].ver)
    BY <2>1 DEF ReaderOK, FileInv, HistOK
  <2>3. tx[t].meta.ver = view[Meta].ver /\ tx[t].meta.walID = view[Meta].walID
    BY <2>1, <2>2 DEF ReaderOK, IsView
  <2>4. MapOK(tx[t].pageMap, baseWALID, wal, data, view)
    BY <2>1, <2>2 DEF ReaderOK
  <2>5. ASSUME NEW p \in 1..(view[Meta].pageN - 1)
        PROVE  Readable(tx[t].pageMap, p) /\ ReadMapped(tx[t].pageMap, p) = view[p]
    <3>1. p \in Page /\ p < PageN(view)
      BY <2>2, ViewPageN, BoundAssumption DEF PageN, Page
    <3> QED BY <2>4, <3>1 DEF MapOK, Readable, InWAL, ReadMapped, readWALPageByID
  <2> QED BY <2>2, <2>3, <2>5
<1> QED BY <1>1, FileInvHolds, PTL

\* The WAL never outgrows its mmap: the room that checkTxSize leaves is enough for the
\* meta page and for the bitmap headers of every commit, whatever the threshold at which
\* writers wait.  Assumed: no I/O error in a flush or in truncateWAL.
THEOREM WALFits ==
    ASSUME SafeFaults
    PROVE  Spec => []WALFitsMmap
<1>1. FileInv => WALFitsMmap
  BY DEF FileInv, FileTypes, WALFitsMmap
<1> QED BY <1>1, FileInvHolds, PTL

\* The root records that a transaction was given from the cache of the database are those
\* of its own view, although readers fill that cache and commits replace it (db.go Begin,
\* tx.go Commit).  Assumed: no I/O error in a flush or in truncateWAL.
THEOREM RootRecordsAreCurrent ==
    ASSUME SafeFaults
    PROVE  Spec => []RootRecordsCurrent
<1>1. FileInv => RootRecordsCurrent
  BY DEF FileInv, TxsOK, TxOK, Reads, ReaderOK, txs, RootRecordsCurrent
<1> QED BY <1>1, FileInvHolds, PTL

-----------------------------------------------------------------------------
(* The files and page maps implement a SnapshotDB *)

\* A page map that is good shows the view, ...
LEMMA MappedView ==
    ASSUME NEW pm, NEW v, NEW view, IsView(view, v), MapOK(pm, baseWALID, wal, data, view)
    PROVE  ViewThrough(pm) = view
<1>1. \A p \in Page : Readable(pm, p)
  BY DEF MapOK, Readable, InWAL
<1>2. \A p \in Page : p < PageN(view) => ReadMapped(pm, p) = view[p]
  BY DEF MapOK, ReadMapped, readWALPageByID
<1>3. ReadMapped(pm, Meta).pageN = PageN(view)
  BY <1>2, ViewPageN, PageFacts DEF PageN
<1>4. PageN(view) \in Nat /\ \A p \in Page : p \in Nat
  BY ViewPageN, PageFacts
<1>5. view \in [Page -> Content] /\ \A p \in Page : p >= PageN(view) => view[p] = NoPage
  BY DEF IsView
<1>6. [p \in Page |-> IF p < PageN(view) THEN ReadMapped(pm, p) ELSE NoPage] = view
  BY <1>2, <1>4, <1>5
<1> QED BY <1>1, <1>3, <1>6 DEF ViewThrough

\* ... and so do the files that hold it.
LEMMA HeldView ==
    ASSUME wal \in Seq(WALPage), NEW v, NEW view, IsView(view, v), Holds(wal, data, dataSync, view)
    PROVE  ViewOfFiles = view
<1>1. PICK n \in 0..Len(wal) : Ends(wal, n) /\ Kept(wal, n, data, dataSync, view)
  BY DEF Holds
<1>2. n \in Nat /\ n = LastMeta(wal)
  BY <1>1, LastMetaEnds, EndsUnique
<1> DEFINE At(p) == LET i == ScanWAL(n, p) IN IF i = 0 THEN data[p] ELSE wal[i].c
<1>3. \A p \in Page : p < PageN(view) => At(p) = view[p]
  BY <1>1, <1>2, ScanKept
<1>4. ViewOfFiles = [p \in Page |-> IF p < At(Meta).pageN THEN At(p) ELSE NoPage]
  BY <1>2 DEF ViewOfFiles
<1> HIDE DEF At
<1>5. At(Meta).pageN = PageN(view)
  BY <1>3, ViewPageN, PageFacts DEF PageN
<1>6. PageN(view) \in Nat /\ \A p \in Page : p \in Nat
  BY ViewPageN, PageFacts
<1>7. view \in [Page -> Content] /\ \A p \in Page : p >= PageN(view) => view[p] = NoPage
  BY DEF IsView
<1> QED BY <1>3, <1>4, <1>5, <1>6, <1>7

\* What the refinement mapping shows, in terms of the history of commits.
Views ==
    /\ status # "down" => CurrentView = Current
    /\ \A v \in 1..Len(hist) :
           status = "down" /\ Holds(wal, data, dataSync, hist[v]) => CurrentView = hist[v]
    /\ Snapshot = [t \in TX |-> IF Reads(t) THEN hist[tx[t].ver] ELSE NoView]
    /\ PendingView = IF NonePending THEN NoView ELSE Newest
    /\ \A v \in 1..Len(hist) : hist[v] \in [Page -> Content] /\ hist[v] # NoView
    /\ committed \in 1..Len(hist) /\ Len(hist) \in 1..Len(hist)
    /\ \A t \in TX : Reads(t) => tx[t].ver \in 1..Len(hist)

\* The refinement mapping shows what the history of commits says.
LEMMA ViewsHold == FileInv => Views
<1> SUFFICES ASSUME FileInv PROVE Views
  OBVIOUS
<1>1. /\ committed \in 1..Len(hist) /\ Len(hist) \in 1..Len(hist)
      /\ \A v \in 1..Len(hist) : IsView(hist[v], v)
      /\ wal \in Seq(WALPage) /\ Len(wal) \in Nat
  <2>1. Len(hist) \in Nat /\ committed \in 1..Len(hist)
    BY DEF FileInv, HistOK
  <2>2. Len(hist) \in 1..Len(hist)
    BY <2>1
  <2> QED BY <2>1, <2>2 DEF FileInv, HistOK, FileTypes
<1>2. \A v \in 1..Len(hist) : hist[v] \in [Page -> Content] /\ hist[v] # NoView
  BY <1>1, NoViewAssumption DEF IsView
<1>3. ASSUME status # "down" PROVE CurrentView = Current
  <2>1. IsView(Current, committed)
    BY <1>1 DEF Current
  <2>2. CASE status \in {"open", "closing"}
    <3>1. MapOK(pageMap, baseWALID, wal, data, Current)
      BY <2>2 DEF FileInv, MapInv
    <3> QED BY <2>1, <2>2, <3>1, MappedView DEF CurrentView
  <2>3. CASE status = "opening"
    <3>1. NonePending
      BY <2>3 DEF FileInv, LockInv, NoTxBeforeOpen, NonePending, Pends
    <3>2. CommittedN = Len(wal)
      BY <3>1 DEF CommittedN
    <3>3. Kept(wal, Len(wal), data, dataSync, Current) /\ (Len(wal) > 0 => IsMetaPage(wal[Len(wal)]))
      BY <1>3, <3>2 DEF FileInv, WALOK, UpOK
    <3>4. Holds(wal, data, dataSync, Current)
      BY <1>1, <3>3, WholeHolds
    <3> QED BY <1>1, <2>1, <2>3, <3>4, HeldView DEF CurrentView
  <2> QED BY <1>3, <2>2, <2>3 DEF FileInv, LockInv, LockTypeOK
<1>4. ASSUME NEW v \in 1..Len(hist), status = "down", Holds(wal, data, dataSync, hist[v])
      PROVE  CurrentView = hist[v]
  BY <1>1, <1>4, HeldView DEF CurrentView
<1>5. \A t \in TX : Reads(t) => tx[t].ver \in 1..Len(hist)
  BY DEF FileInv, TxsOK, TxOK, ReaderOK
<1>6. Snapshot = [t \in TX |-> IF Reads(t) THEN hist[tx[t].ver] ELSE NoView]
  <2>1. ASSUME NEW t \in TX, Reads(t) PROVE ViewThrough(tx[t].pageMap) = hist[tx[t].ver]
    <3>1. MapOK(tx[t].pageMap, baseWALID, wal, data, hist[tx[t].ver])
      BY <2>1 DEF FileInv, TxsOK, TxOK, ReaderOK
    <3> QED BY <1>1, <1>5, <2>1, <3>1, MappedView
  <2> QED BY <2>1 DEF Snapshot, Reads
<1>7. PendingView = IF NonePending THEN NoView ELSE Newest
  <2>1. CASE NonePending
    BY <2>1 DEF PendingView, NonePending, Pends
  <2>2. CASE ~NonePending
    <3>1. PICK t \in TX : t = (CHOOSE u \in TX : tx[u].st \in {"flushed", "synced"}) /\ Pends(t)
      BY <2>2 DEF NonePending, Pends
    <3>2. PendingView = ViewThrough(tx[t].pageMap)
      BY <3>1 DEF PendingView, Pends
    <3>3. MapOK(tx[t].pageMap, baseWALID, wal, data, Newest)
      BY <3>1 DEF FileInv, TxsOK, TxOK, CommitterOK
    <3>4. IsView(Newest, Len(hist))
      BY <1>1 DEF Newest
    <3> QED BY <2>2, <3>2, <3>3, <3>4, MappedView
  <2> QED BY <2>1, <2>2
<1> QED BY <1>1, <1>2, <1>3, <1>4, <1>5, <1>6, <1>7 DEF Views

\* Steps that show nothing: the views and who reads or commits them are the same.
LEMMA SameViews ==
    ASSUME Views, Views', status # "down", status' # "down", UNCHANGED histVars,
           \A u \in TX : /\ Reads(u)' <=> Reads(u)
                         /\ Reads(u) => tx'[u].ver = tx[u].ver
                         /\ Pends(u)' <=> Pends(u)
    PROVE  UNCHANGED Promise!vars
<1>1. hist' = hist /\ Current' = Current /\ Newest' = Newest
  BY DEF histVars, Current, Newest
<1>2. CurrentView' = CurrentView
  BY <1>1 DEF Views
<1>3. Snapshot' = Snapshot
  <2>1. /\ Snapshot = [u \in TX |-> IF Reads(u) THEN hist[tx[u].ver] ELSE NoView]
        /\ Snapshot' = [u \in TX |-> IF Reads(u)' THEN hist'[tx'[u].ver] ELSE NoView]
    BY DEF Views
  <2> QED BY <1>1, <2>1
<1>4. NonePending' <=> NonePending
  BY DEF NonePending
<1>5. PendingView' = PendingView
  BY <1>1, <1>4 DEF Views
<1> QED BY <1>2, <1>3, <1>5 DEF Promise!vars

\* A step within a transaction that keeps what it reads is a stutter.
LEMMA OneTxSame ==
    ASSUME Views, Views', status # "down", status' = status, UNCHANGED histVars, NEW t \in TX,
           \A u \in TX \ {t} : tx'[u] = tx[u],
           Reads(t)' <=> Reads(t), Reads(t) => tx'[t].ver = tx[t].ver, Pends(t)' <=> Pends(t)
    PROVE  UNCHANGED Promise!vars
<1>1. ASSUME NEW u \in TX
      PROVE  /\ Reads(u)' <=> Reads(u)
             /\ Reads(u) => tx'[u].ver = tx[u].ver
             /\ Pends(u)' <=> Pends(u)
  BY DEF Reads, Pends
<1> QED BY <1>1, SameViews

\* Nobody sees a checkpoint, nor that Close waits.
LEMMA QuietRefines ==
    ASSUME FileInv, Views, Views', CkptStep \/ Close
    PROVE  UNCHANGED Promise!vars
<1>1. tx' = tx /\ UNCHANGED histVars
  BY DEF CkptStep, CheckpointSkips, CheckpointStart, CheckpointCopy, CheckpointSync, CheckpointFails,
         CheckpointReset, CheckpointRebase, TruncateWAL, SyncWAL, ShrinkData, Close
<1>2. status' = status \/ status' \in {"open", "closing"}
  BY DEF CkptStep, CheckpointSkips, CheckpointStart, CheckpointCopy, CheckpointSync, CheckpointFails,
         CheckpointReset, CheckpointRebase, TruncateWAL, SyncWAL, ShrinkData, Close, Opened, dbVars
<1>3. status # "down"
  <2>1. CASE Close
    BY <2>1 DEF Close
  <2>2. CASE CkptStep
    <3>1. ckpt.phase # "none"
      BY <2>2 DEF CkptStep, CheckpointSkips, CheckpointStart, CheckpointCopy, CheckpointSync,
                  CheckpointFails, CheckpointReset, CheckpointRebase, TruncateWAL, SyncWAL, ShrinkData
    <3> QED BY <3>1, CkptFacts
  <2> QED BY <2>1, <2>2
<1>4. ASSUME NEW u \in TX
      PROVE  /\ Reads(u)' <=> Reads(u)
             /\ Reads(u) => tx'[u].ver = tx[u].ver
             /\ Pends(u)' <=> Pends(u)
  BY <1>1 DEF Reads, Pends
<1> QED BY <1>1, <1>2, <1>3, <1>4, SameViews

\* The steps of a transaction that stays as it is: in Begin before it has a view, writing,
\* and syncing its commit.
LEMMA WriterRefines ==
    ASSUME FileInv, Views, Views', NEW t \in TX,
           \/ BeginWrite(t) \/ LockWriter(t) \/ BeginFails(t)
           \/ \E p, n : Dirty(t, p, n)
           \/ FlushSync(t) /\ "flush" \notin Fault
    PROVE  UNCHANGED Promise!vars
<1>0. IsTx(tx[t])
  BY DEF FileInv, LockInv, LockTypeOK
<1>1. status' = status /\ UNCHANGED histVars
  BY DEF BeginWrite, LockWriter, BeginFails, Dirty, FlushSync, dbVars
<1>2. status # "down"
  BY DEF FileInv, LockInv, NoTxBeforeOpen, BeginWrite, LockWriter, BeginFails, Dirty, FlushSync
<1>3. PICK r : /\ tx' = [tx EXCEPT ![t] = r]
               /\ Reads(t) => r.ver = tx[t].ver
               /\ r.st \in {"open", "failed"} <=> Reads(t)
               /\ r.st \in {"flushed", "synced"} <=> Pends(t)
  <2>1. CASE BeginWrite(t)
    <3> DEFINE s == [tx[t] EXCEPT !.st = "want", !.writable = TRUE]
    <3>1. tx' = [tx EXCEPT ![t] = s] /\ tx[t].st = "none"
      BY <2>1 DEF BeginWrite
    <3>2. s.st = "want"
      BY <1>0 DEF IsTx, TxField
    <3> HIDE DEF s
    <3> QED BY <3>1, <3>2 DEF Reads, Pends
  <2>2. CASE LockWriter(t)
    <3> DEFINE s == [tx[t] EXCEPT !.st = "locked"]
    <3>1. tx' = [tx EXCEPT ![t] = s] /\ tx[t].st = "want"
      BY <2>2 DEF LockWriter
    <3>2. s.st = "locked"
      BY <1>0 DEF IsTx, TxField
    <3> HIDE DEF s
    <3> QED BY <3>1, <3>2 DEF Reads, Pends
  <2>3. CASE BeginFails(t)
    <3>1. tx' = [tx EXCEPT ![t] = NoTx] /\ tx[t].st = "locked"
      BY <2>3 DEF BeginFails
    <3>2. NoTx.st = "none"
      BY DEF NoTx
    <3> QED BY <3>1, <3>2 DEF Reads, Pends
  <2>4. CASE \E p, n : Dirty(t, p, n)
    <3>1. PICK p, n : Dirty(t, p, n)
      BY <2>4
    <3> DEFINE d == tx[t].dirty \cup {p}
               st == IF TxTooLarge(t, d) THEN "failed" ELSE "open"
               rr == IF p = RootRecordPage THEN Len(hist) + 1 ELSE tx[t].rootRecords
               m == [tx[t].meta EXCEPT !.pageN = n]
               s == [tx[t] EXCEPT !.dirty = d, !.meta = m, !.rootRecords = rr, !.st = st]
    <3>2. tx' = [tx EXCEPT ![t] = s] /\ tx[t].st = "open"
      BY <3>1, ZenonT(60) DEF Dirty
    <3>3. st \in {"open", "failed"}
      OBVIOUS
    <3> HIDE DEF d, st, rr, m
    <3>4. s.st = st /\ s.ver = tx[t].ver
      BY <1>0 DEF IsTx, TxField
    <3> HIDE DEF s
    <3> QED BY <3>2, <3>3, <3>4 DEF Reads, Pends
  <2>5. CASE FlushSync(t) /\ "flush" \notin Fault
    <3> DEFINE s == [tx[t] EXCEPT !.st = "synced"]
    <3>1. tx' = [tx EXCEPT ![t] = s] /\ tx[t].st = "flushed"
      BY <2>5 DEF FlushSync, CanFail
    <3>2. s.st = "synced"
      BY <1>0 DEF IsTx, TxField
    <3> HIDE DEF s
    <3> QED BY <3>1, <3>2 DEF Reads, Pends
  <2> QED BY <2>1, <2>2, <2>3, <2>4, <2>5
<1>4. tx'[t] = r /\ \A u \in TX \ {t} : tx'[u] = tx[u]
  BY <1>3, TxAfter DEF FileInv
<1>5. (Reads(t)' <=> Reads(t)) /\ (Reads(t) => tx'[t].ver = tx[t].ver) /\ (Pends(t)' <=> Pends(t))
  BY <1>3, <1>4 DEF Reads, Pends
<1> QED BY <1>1, <1>2, <1>4, <1>5, OneTxSame

\* Begin.
LEMMA BeginRefines ==
    ASSUME FileInv, Views, Views', NEW t \in TX, BeginRead(t) \/ EnterWriter(t)
    PROVE  Promise!Begin(t)
<1>1. /\ tx[t].st \in {"none", "locked"} /\ UNCHANGED histVars /\ status' = status
      /\ \E w \in BOOLEAN : tx' = [tx EXCEPT ![t] = NewTx(w)]
  BY DEF BeginRead, EnterWriter
<1>2. status \in {"open", "closing"}
  BY DEF BeginRead, EnterWriter, FileInv, LockInv, LockTypeOK, NoTxBeforeOpen
<1>3. tx'[t].st = "open" /\ tx'[t].ver = committed /\ \A u \in TX \ {t} : tx'[u] = tx[u]
  <2>1. PICK w \in BOOLEAN : tx' = [tx EXCEPT ![t] = NewTx(w)]
    BY <1>1
  <2>2. tx'[t] = NewTx(w) /\ \A u \in TX \ {t} : tx'[u] = tx[u]
    BY <2>1, TxAfter DEF FileInv
  <2>3. NewTx(w).st = "open" /\ NewTx(w).ver = committed
    BY <1>2, NewTxOK
  <2> QED BY <2>2, <2>3
<1>4. hist' = hist /\ committed' = committed /\ Current' = Current /\ Newest' = Newest
  BY <1>1 DEF histVars, Current, Newest
<1>5. ~Reads(t) /\ Reads(t)' /\ \A u \in TX \ {t} : Reads(u)' <=> Reads(u)
  BY <1>1, <1>3 DEF Reads
<1>6. NonePending' <=> NonePending
  <2>1. \A u \in TX : Pends(u)' <=> Pends(u)
    BY <1>1, <1>3 DEF Pends
  <2> QED BY <2>1 DEF NonePending
<1>7. CurrentView = Current /\ CurrentView' = Current /\ PendingView' = PendingView
  BY <1>1, <1>2, <1>4, <1>6 DEF Views
<1>8. /\ Snapshot = [u \in TX |-> IF Reads(u) THEN hist[tx[u].ver] ELSE NoView]
      /\ Snapshot' = [u \in TX |-> IF Reads(u)' THEN hist'[tx'[u].ver] ELSE NoView]
  BY DEF Views
<1>9. Snapshot[t] = NoView
  BY <1>5, <1>8
<1>10. Snapshot' = [Snapshot EXCEPT ![t] = Current]
  BY <1>3, <1>4, <1>5, <1>8 DEF Current
<1> QED BY <1>7, <1>9, <1>10 DEF Promise!Begin

\* The end of a transaction, which has shown its view until now unless it was committed.
LEMMA RemoveRefines ==
    ASSUME FileInv, Views, Views', NEW t \in TX, RemoveTx(t)
    PROVE  Promise!End(t) \/ UNCHANGED Promise!vars
<1>1. /\ tx[t].st \in {"open", "failed", "aborted", "published"} /\ UNCHANGED histVars /\ status' = status
      /\ tx' = [tx EXCEPT ![t] = NoTx]
  BY DEF RemoveTx
<1>2. status # "down"
  BY <1>1 DEF FileInv, LockInv, NoTxBeforeOpen
<1>3. tx'[t].st = "none" /\ \A u \in TX \ {t} : tx'[u] = tx[u]
  <2>1. tx'[t] = NoTx /\ \A u \in TX \ {t} : tx'[u] = tx[u]
    BY <1>1, TxAfter DEF FileInv
  <2> QED BY <2>1 DEF NoTx
<1>4. CASE ~Reads(t)
  BY <1>1, <1>2, <1>3, <1>4, OneTxSame DEF Reads, Pends
<1>5. CASE Reads(t)
  <2>1. hist' = hist /\ Current' = Current /\ Newest' = Newest
    BY <1>1 DEF histVars, Current, Newest
  <2>2. ~Reads(t)' /\ \A u \in TX \ {t} : Reads(u)' <=> Reads(u)
    BY <1>3 DEF Reads
  <2>3. NonePending' <=> NonePending
    <3>1. \A u \in TX : Pends(u)' <=> Pends(u)
      BY <1>1, <1>3 DEF Pends
    <3> QED BY <3>1 DEF NonePending
  <2>4. CurrentView' = CurrentView /\ PendingView' = PendingView
    BY <1>1, <1>2, <2>1, <2>3 DEF Views
  <2>5. /\ Snapshot = [u \in TX |-> IF Reads(u) THEN hist[tx[u].ver] ELSE NoView]
        /\ Snapshot' = [u \in TX |-> IF Reads(u)' THEN hist'[tx'[u].ver] ELSE NoView]
    BY DEF Views
  <2>6. Snapshot[t] # NoView
    BY <1>5, <2>5 DEF Views
  <2>7. Snapshot' = [Snapshot EXCEPT ![t] = NoView]
    BY <1>3, <2>1, <2>2, <2>5
  <2> QED BY <2>4, <2>6, <2>7 DEF Promise!End
<1> QED BY <1>4, <1>5

\* Commit: its pages are in the WAL, and its view is the newest, ...
LEMMA FlushRefines ==
    ASSUME FileInv, Views, Views', "flush" \notin Fault, NEW t \in TX, Flush(t)
    PROVE  Promise!Prepare(t)
<1>1. /\ tx[t].st = "open" /\ tx[t].writable /\ status' = status /\ committed' = committed
      /\ \E view : hist' = Append(hist, view)
      /\ \E d, meta, n, pm : tx' = [tx EXCEPT ![t].st = "flushed", ![t].dirty = d, ![t].meta = meta,
                                      ![t].walPageN = n, ![t].pageMap = pm]
  <2>1. tx[t].st = "open" /\ tx[t].writable /\ status' = status /\ committed' = committed
    BY DEF Flush, dbVars
  <2>2. \E view : hist' = Append(hist, view)
    BY DEF Flush
  <2>3. \E d, meta, n, pm : tx' = [tx EXCEPT ![t].st = "flushed", ![t].dirty = d, ![t].meta = meta,
                                     ![t].walPageN = n, ![t].pageMap = pm]
    <3>1. PICK pageN :
            LET v == Len(hist) + 1
                d == {p \in tx[t].dirty : p < pageN}
                     \cup (IF pageN < tx[t].meta.pageN THEN {FreelistPage} ELSE {})
                meta == [ver |-> v, walID |-> tx[t].meta.walID + WALPagesOf(d) + 1, pageN |-> pageN]
                pages == Append(DirtyPages(d, v), [kind |-> "page", pgno |-> Meta, c |-> meta])
            IN  tx' = [tx EXCEPT ![t].st = "flushed", ![t].dirty = d, ![t].meta = meta,
                                 ![t].walPageN = @ + WALPagesOf(d) + 1,
                                 ![t].pageMap = MapPages(@, tx[t].meta.walID, pages)]
      BY DEF Flush, CanFail
    <3> DEFINE v == Len(hist) + 1
               d == {p \in tx[t].dirty : p < pageN}
                    \cup (IF pageN < tx[t].meta.pageN THEN {FreelistPage} ELSE {})
               meta == [ver |-> v, walID |-> tx[t].meta.walID + WALPagesOf(d) + 1, pageN |-> pageN]
               pages == Append(DirtyPages(d, v), [kind |-> "page", pgno |-> Meta, c |-> meta])
               n == tx[t].walPageN + WALPagesOf(d) + 1
               pm == MapPages(tx[t].pageMap, tx[t].meta.walID, pages)
    <3>2. tx' = [tx EXCEPT ![t].st = "flushed", ![t].dirty = d, ![t].meta = meta,
                           ![t].walPageN = n, ![t].pageMap = pm]
      BY <3>1
    <3> HIDE DEF d, meta, n, pm
    <3> QED BY <3>2
  <2> QED BY <2>1, <2>2, <2>3
<1>2. /\ status \in {"open", "closing"}
      /\ \A u \in TX \ {t} : tx[u].st \notin {"flushed", "synced"}
  BY <1>1, WriterFacts
<1>3. tx[t].ver = committed /\ committed \in 1..Len(hist)
  BY <1>1 DEF FileInv, TxsOK, TxOK, Reads, WriterOK, HistOK
<1>4. tx'[t].st = "flushed" /\ \A u \in TX \ {t} : tx'[u] = tx[u]
  <2>1. PICK d, meta, n, pm : tx' = [tx EXCEPT ![t].st = "flushed", ![t].dirty = d, ![t].meta = meta,
                                       ![t].walPageN = n, ![t].pageMap = pm]
    BY <1>1
  <2> DEFINE r == [tx[t] EXCEPT !.st = "flushed", !.dirty = d, !.meta = meta, !.walPageN = n, !.pageMap = pm]
  <2>2. tx' = [tx EXCEPT ![t] = r]
    BY <2>1
  <2>3. r.st = "flushed"
    BY DEF FileInv, LockInv, LockTypeOK, IsTx, TxField
  <2> HIDE DEF r
  <2> QED BY <2>2, <2>3, TxAfter DEF FileInv
<1>5. \A i \in 1..Len(hist) : hist'[i] = hist[i]
  <2>1. PICK view : hist' = Append(hist, view)
    BY <1>1
  <2>2. hist \in Seq([Page -> Content])
    BY DEF FileInv, HistOK
  <2> QED BY <2>1, <2>2
<1>6. Current' = Current
  BY <1>1, <1>3, <1>5 DEF Current
<1>7. NonePending /\ ~NonePending'
  BY <1>1, <1>2, <1>4 DEF NonePending, Pends
<1>8. Reads(t) /\ ~Reads(t)' /\ \A u \in TX \ {t} : Reads(u)' <=> Reads(u)
  BY <1>1, <1>4 DEF Reads
<1>9. /\ CurrentView = Current /\ CurrentView' = CurrentView
      /\ PendingView = NoView /\ PendingView' = Newest'
  BY <1>1, <1>2, <1>6, <1>7 DEF Views
<1>10. Newest' \in [Page -> Content]
  BY DEF Views, Newest
<1>11. /\ Snapshot = [u \in TX |-> IF Reads(u) THEN hist[tx[u].ver] ELSE NoView]
       /\ Snapshot' = [u \in TX |-> IF Reads(u)' THEN hist'[tx'[u].ver] ELSE NoView]
       /\ \A u \in TX : Reads(u) => tx[u].ver \in 1..Len(hist)
  BY DEF Views
<1>12. Snapshot[t] = CurrentView
  BY <1>3, <1>8, <1>9, <1>11 DEF Current
<1>13. Snapshot' = [Snapshot EXCEPT ![t] = NoView]
  BY <1>4, <1>5, <1>8, <1>11
<1> QED BY <1>9, <1>10, <1>12, <1>13 DEF Promise!Prepare

\* ... and when it is published, the current one.
LEMMA PublishRefines ==
    ASSUME FileInv, Views, Views', NEW t \in TX, Publish(t)
    PROVE  Promise!Commit
<1>1. /\ tx[t].st = "synced" /\ tx' = [tx EXCEPT ![t].st = "published"] /\ status' = status
      /\ hist' = hist /\ committed' = tx[t].meta.ver
  BY DEF Publish
<1>2. tx[t].writable
  BY <1>1 DEF FileInv, LockInv, WritersOnly
<1>3. /\ status \in {"open", "closing"}
      /\ \A u \in TX \ {t} : tx[u].st \notin {"flushed", "synced"}
  BY <1>1, <1>2, WriterFacts
<1>4. tx'[t].st = "published" /\ \A u \in TX \ {t} : tx'[u] = tx[u]
  BY <1>1, StateAfter
<1>5. committed' = Len(hist)
  <2>1. IsView(Newest, Len(hist))
    BY DEF Views, FileInv, HistOK, Newest
  <2>2. CommitterOK(t)
    BY <1>1 DEF FileInv, TxsOK, TxOK, Pends
  <2> QED BY <1>1, <2>1, <2>2 DEF CommitterOK, IsView
<1>6. Current' = Newest
  BY <1>1, <1>5 DEF Current, Newest
<1>7. ~NonePending /\ NonePending'
  BY <1>1, <1>3, <1>4 DEF NonePending, Pends
<1>8. PendingView = Newest /\ Newest # NoView /\ PendingView' = NoView /\ CurrentView' = Newest
  BY <1>1, <1>3, <1>6, <1>7 DEF Views, Newest
<1>9. \A u \in TX : (Reads(u)' <=> Reads(u)) /\ (Reads(u) => tx'[u].ver = tx[u].ver)
  BY <1>1, <1>4 DEF Reads
<1>10. Snapshot' = Snapshot
  <2>1. /\ Snapshot = [u \in TX |-> IF Reads(u) THEN hist[tx[u].ver] ELSE NoView]
        /\ Snapshot' = [u \in TX |-> IF Reads(u)' THEN hist'[tx'[u].ver] ELSE NoView]
    BY DEF Views
  <2> QED BY <1>1, <1>9, <2>1
<1> QED BY <1>8, <1>10 DEF Promise!Commit

\* Open, whose WAL pages are those of the view that the files held, ...
LEMMA OpenRefines ==
    ASSUME FileInv, FileInv', Views, Views', Open
    PROVE  UNCHANGED Promise!vars
<1>1. PICK n : n = LastMeta(wal)
  OBVIOUS
<1>2. /\ status = "down" /\ status' = "opening" /\ wal' = SubSeq(wal, 1, n) /\ walPageN' = n
      /\ UNCHANGED <<data, dataSync, tx, hist>>
  BY <1>1 DEF Open
<1>3. wal \in Seq(WALPage) /\ Len(wal) \in Nat /\ Ends(wal, n) /\ n \in 0..Len(wal)
  BY <1>1, LastMetaEnds DEF FileInv, FileTypes, Ends
<1>4. Len(wal') = n /\ \A i \in 1..n : wal[i] = wal'[i]
  BY <1>2, <1>3
<1>5. \A t \in TX : tx[t].st = "none"
  BY <1>2 DEF FileInv, LockInv, NoTxBeforeOpen
<1>6. NonePending /\ NonePending' /\ \A t \in TX : ~Reads(t) /\ ~Reads(t)'
  BY <1>2, <1>5 DEF NonePending, Pends, Reads
<1>7. CommittedN' = n
  BY <1>4, <1>6 DEF CommittedN
<1>8. PICK w, c : w = wal' /\ c = Current'
  OBVIOUS
<1>9. Kept(w, n, data, dataSync, c)
  BY <1>2, <1>7, <1>8 DEF FileInv, WALOK, UpOK
<1>10. Kept(wal, n, data, dataSync, c)
  BY <1>3, <1>4, <1>8, <1>9, KeptPrefix
<1>11. Holds(wal, data, dataSync, c)
  BY <1>3, <1>10 DEF Holds
<1>12. c = hist[committed'] /\ committed' \in 1..Len(hist)
  BY <1>2, <1>8 DEF Current, Views
<1>13. CurrentView = c /\ CurrentView' = c
  BY <1>2, <1>8, <1>11, <1>12 DEF Views
<1>14. Snapshot' = Snapshot
  <2>1. /\ Snapshot = [u \in TX |-> IF Reads(u) THEN hist[tx[u].ver] ELSE NoView]
        /\ Snapshot' = [u \in TX |-> IF Reads(u)' THEN hist'[tx'[u].ver] ELSE NoView]
    BY DEF Views
  <2> QED BY <1>6, <2>1
<1>15. PendingView' = PendingView
  BY <1>6 DEF Views
<1> QED BY <1>13, <1>14, <1>15 DEF Promise!vars

\* ... Close and an Open that fails.
LEMMA DownRefines ==
    ASSUME FileInv, FileInv', Views, Views', CloseFiles \/ OpenFails
    PROVE  UNCHANGED Promise!vars
<1>1. /\ status # "down" /\ status' = "down" /\ NewDB /\ dataSync' \in {dataSync, data}
      /\ UNCHANGED <<data, wal, hist, committed>>
  BY DEF CloseFiles, OpenFails, diskVars, histVars
<1>2. txs = {}
  <2>1. CASE CloseFiles
    BY <2>1 DEF CloseFiles, FileInv, LockInv, CloseWaitsForAll
  <2>2. CASE OpenFails
    BY <2>2 DEF OpenFails, FileInv, LockInv, NoTxBeforeOpen, txs
  <2> QED BY <2>1, <2>2
<1>3. NonePending /\ \A t \in TX : ~Reads(t)
  BY <1>2 DEF NonePending, Pends, Reads, txs
<1>4. NonePending' /\ \A t \in TX : ~Reads(t)'
  <2>1. \A t \in TX : tx'[t].st = "none"
    BY <1>1 DEF NewDB, NoTx
  <2> QED BY <2>1 DEF NonePending, Pends, Reads
<1>5. /\ wal \in Seq(WALPage) /\ Kept(wal, Len(wal), data, dataSync, Current)
      /\ Len(wal) > 0 => IsMetaPage(wal[Len(wal)])
  <2>1. CommittedN = Len(wal)
    BY <1>3 DEF CommittedN
  <2> QED BY <1>1, <2>1 DEF FileInv, FileTypes, WALOK, UpOK
<1>6. Holds(wal, data, dataSync, Current)
  BY <1>5, WholeHolds
<1>7. PICK es : es = dataSync'
  OBVIOUS
<1>8. \A p \in Page : p < PageN(Current) /\ data[p] = Current[p] /\ dataSync[p] = Current[p] =>
          data[p] = Current[p] /\ es[p] = Current[p]
  BY <1>1, <1>7
<1>9. Holds(wal, data, es, Current)
  BY <1>6, <1>8, HoldsSame
<1>10. committed \in 1..Len(hist) /\ Current = hist[committed]
  BY DEF Views, Current
<1>11. CurrentView = Current /\ CurrentView' = Current
  BY <1>1, <1>7, <1>9, <1>10 DEF Views
<1>12. Snapshot' = Snapshot
  <2>1. /\ Snapshot = [u \in TX |-> IF Reads(u) THEN hist[tx[u].ver] ELSE NoView]
        /\ Snapshot' = [u \in TX |-> IF Reads(u)' THEN hist'[tx'[u].ver] ELSE NoView]
    BY DEF Views
  <2> QED BY <1>3, <1>4, <2>1
<1>13. PendingView' = PendingView
  BY <1>3, <1>4 DEF Views
<1> QED BY <1>11, <1>12, <1>13 DEF Promise!vars

\* A crash takes or drops, as a whole, the commit that was under way.
LEMMA CrashRefines ==
    ASSUME FileInv, Views, Views', Crash
    PROVE  Promise!Crash
<1>1. /\ status # "down" /\ wal' \in CrashedWALs /\ dataSync' = data' /\ status' = "down" /\ NewDB
      /\ UNCHANGED <<hist, committed>>
  BY DEF Crash, histVars
<1>2. PICK lost \in SUBSET {p \in Page : data[p] # dataSync[p]} :
          data' = [p \in Page |-> IF p \in lost THEN dataSync[p] ELSE data[p]]
  BY DEF Crash
<1>3. PICK w, e : w = wal' /\ e = data'
  OBVIOUS
<1>4. \/ Holds(w, data, dataSync, Current)
      \/ ~NonePending /\ Holds(w, data, dataSync, Newest)
  BY <1>1, <1>3, CrashHolds
<1>5. ASSUME NEW v \in 1..Len(hist), Holds(w, data, dataSync, hist[v]) PROVE CurrentView' = hist[v]
  <2>1. \A p \in Page : p < PageN(hist[v]) /\ data[p] = hist[v][p] /\ dataSync[p] = hist[v][p] =>
            e[p] = hist[v][p] /\ e[p] = hist[v][p]
    BY <1>2, <1>3
  <2>2. Holds(w, e, e, hist[v])
    BY <1>5, <2>1, HoldsSame
  <2> QED BY <1>1, <1>3, <2>2 DEF Views
<1>6. /\ committed \in 1..Len(hist) /\ Current = hist[committed] /\ CurrentView = Current
      /\ Len(hist) \in 1..Len(hist) /\ Newest = hist[Len(hist)]
      /\ Current # NoView /\ Newest # NoView
  BY <1>1 DEF Views, Current, Newest
<1>7. CurrentView' \in {CurrentView, PendingView} \ {NoView}
  <2>1. CASE Holds(w, data, dataSync, Current)
    BY <1>5, <1>6, <2>1
  <2>2. CASE ~NonePending /\ Holds(w, data, dataSync, Newest)
    <3>1. PendingView = Newest
      BY <2>2 DEF Views
    <3> QED BY <1>5, <1>6, <2>2, <3>1
  <2> QED BY <1>4, <2>1, <2>2
<1>8. NonePending' /\ \A t \in TX : ~Reads(t)'
  <2>1. \A t \in TX : tx'[t].st = "none"
    BY <1>1 DEF NewDB, NoTx
  <2> QED BY <2>1 DEF NonePending, Pends, Reads
<1>9. Snapshot' = [t \in TX |-> NoView]
  <2>1. Snapshot' = [u \in TX |-> IF Reads(u)' THEN hist'[tx'[u].ver] ELSE NoView]
    BY DEF Views
  <2> QED BY <1>8, <2>1
<1>10. PendingView' = NoView
  BY <1>8 DEF Views
<1> QED BY <1>7, <1>9, <1>10 DEF Promise!Crash

\* Every step is one of SnapshotDB or a stutter.
LEMMA StepRefines ==
    SafeFaults /\ FileInv /\ FileInv' /\ Views /\ Views' /\ [Next]_vars => [Promise!Next]_(Promise!vars)
<1> SUFFICES ASSUME SafeFaults, FileInv, FileInv', Views, Views', [Next]_vars
             PROVE  Promise!Next \/ UNCHANGED Promise!vars
  OBVIOUS
<1>1. "flush" \notin Fault
  BY DEF SafeFaults
<1>2. ASSUME NEW t \in TX, BeginRead(t) \/ EnterWriter(t) PROVE Promise!Next
  BY <1>2, BeginRefines DEF Promise!Next
<1>3. ASSUME NEW t \in TX, RemoveTx(t) PROVE Promise!Next \/ UNCHANGED Promise!vars
  BY <1>3, RemoveRefines DEF Promise!Next
<1>4. ASSUME NEW t \in TX, Flush(t) PROVE Promise!Next
  BY <1>1, <1>4, FlushRefines DEF Promise!Next
<1>5. ASSUME NEW t \in TX, Publish(t) PROVE Promise!Next
  BY <1>5, PublishRefines DEF Promise!Next
<1>6. ASSUME NEW t \in TX,
             \/ BeginWrite(t) \/ LockWriter(t) \/ BeginFails(t) \/ FlushSync(t)
             \/ Allocate(t) \/ \E p \in Page \ {Meta} : Write(t, p)
      PROVE  UNCHANGED Promise!vars
  <2>1. Allocate(t) \/ (\E p \in Page \ {Meta} : Write(t, p)) => \E p, n : Dirty(t, p, n)
    BY DEF Allocate, Write
  <2> QED BY <1>1, <1>6, <2>1, WriterRefines
<1>7. CASE CkptStep \/ Close
  BY <1>7, QuietRefines
<1>8. CASE Open \/ OpenFails \/ CloseFiles
  BY <1>8, OpenRefines, DownRefines
<1>9. CASE Crash
  BY <1>9, CrashRefines DEF Promise!Next
<1>10. CASE UNCHANGED vars
  <2>1. UNCHANGED <<data, wal, status, pageMap, baseWALID, tx>>
    BY <1>10 DEF vars
  <2>2. CurrentView' = CurrentView /\ Snapshot' = Snapshot /\ PendingView' = PendingView
    BY <2>1 DEF CurrentView, Snapshot, PendingView, ViewThrough, ViewOfFiles, Readable, ReadMapped, InWAL,
                readWALPageByID, ScanWAL
  <2> QED BY <2>2 DEF Promise!vars
<1> QED BY <1>2, <1>3, <1>4, <1>5, <1>6, <1>7, <1>8, <1>9, <1>10 DEF Next, TxStep, ClientStep

\* Page maps, data file and WAL implement a database with snapshot transactions: a
\* snapshot never changes, a commit replaces the current view as a whole by one made from
\* it, and Close, Open, checkpoints and crashes at any point lose nothing that was
\* committed and take or drop a commit under way as a whole (db.go, tx.go).  Assumed: no
\* I/O error in a flush or in truncateWAL.
THEOREM ImplementsSnapshots ==
    ASSUME SafeFaults
    PROVE  Spec => ImplementsSnapshotDB
<1>1. Init => Promise!Init
  <2> SUFFICES ASSUME Init PROVE Promise!Init
    OBVIOUS
  <2>1. FileInv /\ Views
    BY FileInvInit, ViewsHold
  <2>2. status = "down" /\ hist = <<InitView>> /\ tx = [t \in TX |-> NoTx]
    BY DEF Init
  <2>3. \A t \in TX : tx[t].st = "none"
    BY <2>2 DEF NoTx
  <2>4. NonePending /\ \A t \in TX : ~Reads(t)
    BY <2>3 DEF NonePending, Pends, Reads
  <2>5. CurrentView \in [Page -> Content]
    <3>1. PICK v \in 1..Len(hist) : Holds(wal, data, dataSync, hist[v])
      BY <2>1, <2>2 DEF FileInv, WALOK, DownOK
    <3> QED BY <2>1, <2>2, <3>1 DEF Views
  <2>6. Snapshot = [t \in TX |-> NoView] /\ PendingView = NoView
    <3>1. Snapshot = [t \in TX |-> IF Reads(t) THEN hist[tx[t].ver] ELSE NoView]
      BY <2>1 DEF Views
    <3>2. PendingView = NoView
      BY <2>1, <2>4 DEF Views
    <3> QED BY <2>4, <3>1, <3>2
  <2> QED BY <2>5, <2>6 DEF Promise!Init
<1>2. [](FileInv => Views)
  BY ViewsHold, PTL
<1> QED BY <1>1, <1>2, FileInvHolds, StepRefines, PTL DEF Spec, ImplementsSnapshotDB, Promise!Spec
=============================================================================
