------------------------ MODULE QueryContext_proofs ------------------------
(***************************************************************************)
(* Admission of writers and what their transactions leave behind, for any  *)
(* contexts, indexes, fields, shards, scopes and number of I/O errors.     *)
(***************************************************************************)
EXTENDS QueryContext, FiniteSetTheorems, TLAPS

(***************************************************************************)
(* Scopes: Overlap misses nothing that Allowed grants.                     *)
(***************************************************************************)

\* The keys of two fragments are those of one database only when indexes and
\* shards agree, and, if the index has a database for every field, fields too.
LEMMA SameKeys ==
    ASSUME NEW x \in Fragments, NEW y \in Fragments,
           keys(x[1], x[2], x[3]) = keys(y[1], y[2], y[3])
    PROVE  x[1] = y[1] /\ x[3] = y[3] /\ (x[1] \in SplitIndexes => x[2] = y[2])
BY ScopesAssumption DEF keys

\* Two lists of shards that both allow a shard overlap.
LEMMA ShardsOverlap ==
    ASSUME NEW a \in shardList, NEW b \in shardList, NEW s,
           shardAllowed(a, s), shardAllowed(b, s)
    PROVE  shardOverlap(a, b)
BY DEF shardAllowed, shardOverlap, shardList

\* A list in an index's map of fields is one, if it is absent too.
LEMMA AtType ==
    ASSUME NEW a \in indexScope, NEW f
    PROVE  /\ At(a.any, f, NoShards) \in shardList
           /\ \A s : shardAllowed(At(a.any, f, NoShards), s) =>
                        f \in DOMAIN a.any /\ At(a.any, f, NoShards) = a.any[f]
<1>1. PICK F \in SUBSET Field : a.any \in [F -> shardList]
  BY DEF indexScope
<1>2. NoShards \in shardList /\ \A s : ~shardAllowed(NoShards, s)
  BY DEF NoShards, shardList, shardAllowed
<1> QED BY <1>1, <1>2 DEF At

\* Two scopes within an index that both allow a shard, in the whole index or in a
\* field that has databases of its own, overlap.
LEMMA IndexesOverlap ==
    ASSUME NEW a \in indexScope, NEW b \in indexScope, NEW f, NEW s,
           shardAllowed(a.all, s) \/ shardAllowed(At(a.any, f, NoShards), s),
           shardAllowed(b.all, s) \/ shardAllowed(At(b.any, f, NoShards), s)
    PROVE  indexOverlap(a, b)
<1>1. a.all \in shardList /\ b.all \in shardList
  BY DEF indexScope
<1>2. At(a.any, f, NoShards) \in shardList /\ At(b.any, f, NoShards) \in shardList
  BY AtType
<1>3. CASE shardAllowed(a.all, s) /\ shardAllowed(b.all, s)
  BY <1>1, <1>3, ShardsOverlap DEF indexOverlap
<1>4. CASE shardAllowed(a.all, s) /\ shardAllowed(At(b.any, f, NoShards), s)
  <2>1. f \in DOMAIN b.any /\ shardOverlap(a.all, b.any[f])
    BY <1>1, <1>2, <1>4, AtType, ShardsOverlap
  <2> QED BY <2>1 DEF indexOverlap
<1>5. CASE shardAllowed(At(a.any, f, NoShards), s) /\ shardAllowed(b.all, s)
  <2>1. f \in DOMAIN a.any /\ shardOverlap(b.all, a.any[f])
    BY <1>1, <1>2, <1>5, AtType, ShardsOverlap
  <2> QED BY <2>1 DEF indexOverlap
<1>6. CASE shardAllowed(At(a.any, f, NoShards), s) /\ shardAllowed(At(b.any, f, NoShards), s)
  <2>1. f \in DOMAIN a.any /\ shardOverlap(At(b.any, f, NoShards), a.any[f])
    BY <1>2, <1>6, AtType, ShardsOverlap
  <2> QED BY <2>1 DEF indexOverlap
<1> QED BY <1>3, <1>4, <1>5, <1>6

\* What Overlap is for: two scopes in which a common database may be written
\* overlap, unless both are the scope of everything.
LEMMA OverlapComplete ==
    ASSUME NEW a \in flexibleQueryScope, NEW b \in flexibleQueryScope, NEW d,
           MayWrite(a, d), MayWrite(b, d), ~(a.all /\ b.all)
    PROVE  Overlap(a, b)
<1>1. PICK x \in Fragments : keys(x[1], x[2], x[3]) = d /\ Allowed(a, x[1], x[2], x[3])
  BY DEF MayWrite
<1>2. PICK y \in Fragments : keys(y[1], y[2], y[3]) = d /\ Allowed(b, y[1], y[2], y[3])
  BY DEF MayWrite
<1>3. x[1] = y[1] /\ x[3] = y[3] /\ (x[1] \in SplitIndexes => x[2] = y[2])
  BY <1>1, <1>2, SameKeys
<1>4. CASE a.all \/ b.all
  BY <1>1, <1>2, <1>4 DEF Allowed, Overlap
<1>5. CASE ~a.all /\ ~b.all
  <2> DEFINE i == x[1]
  <2>1. i \in DOMAIN a.indexes /\ i \in DOMAIN b.indexes
    BY <1>1, <1>2, <1>3, <1>5 DEF Allowed
  <2>2. a.indexes[i] \in indexScope /\ b.indexes[i] \in indexScope
    BY <2>1 DEF flexibleQueryScope
  <2>3. /\ \/ shardAllowed(a.indexes[i].all, x[3])
           \/ shardAllowed(At(a.indexes[i].any, x[2], NoShards), x[3])
        /\ \/ shardAllowed(b.indexes[i].all, x[3])
           \/ shardAllowed(At(b.indexes[i].any, x[2], NoShards), x[3])
    BY <1>1, <1>2, <1>3, <1>5 DEF Allowed
  <2>4. indexOverlap(a.indexes[i], b.indexes[i])
    BY <2>2, <2>3, IndexesOverlap
  <2> QED BY <2>1, <2>4 DEF Overlap
<1> QED BY <1>4, <1>5

\* The empty scope is a scope, and it allows nothing.
LEMMA EmptyScope == Scope \in flexibleQueryScope /\ ~Scope.all /\ \A d : ~MayWrite(Scope, d)
<1>1. ~Scope.all /\ DOMAIN Scope.indexes = {}
  BY DEF Scope
<1>2. Scope.indexes \in [{} -> indexScope]
  BY DEF Scope
<1>3. Scope.indexes \in UNION {[I -> indexScope] : I \in SUBSET Index}
  BY <1>2
<1>4. Scope \in flexibleQueryScope
  BY <1>3 DEF Scope, flexibleQueryScope
<1> QED BY <1>1, <1>4 DEF MayWrite, Allowed

(***************************************************************************)
(* The invariants.                                                         *)
(***************************************************************************)

\* The type of the state.
TypeOK ==
    /\ mu \in Ctx \cup {Free, Closer} /\ closed \in BOOLEAN
    /\ dbs \subseteq DB /\ queries \subseteq Ctx /\ writeScopes \subseteq Ctx
    /\ st \in [Ctx -> {"none", "waiting", "woken", "live", "begin", "committing",
                       "releasing", "done"}]
    /\ scope \in [Ctx -> flexibleQueryScope]
    /\ want \in [Ctx -> DB \cup {<< >>}]
    /\ wraps \in [Ctx -> [DB -> {"none", "read", "write"}]]
    /\ dbMu \in [DB -> Ctx \cup {Free}]
    /\ lockCheck \in [DB -> BOOLEAN] /\ lockingError \subseteq Ctx \X DB
    /\ txs \in [DB -> SUBSET Ctx] /\ waitingOn \in [DB -> SUBSET Ctx]
    /\ rwmu \in [DB -> Ctx \cup {Free, Checkpointer}]
    /\ ckpt \in [DB -> {"no", "copy", "reset"}]
    /\ isDead \in [DB -> BOOLEAN] /\ faults \in Nat

Running == {"live", "begin", "committing", "releasing"}

\* Who is in writeScopes is running; a scope that is not empty belongs to one of
\* them or to a context that waits.
AdmissionInv ==
    /\ \A c \in writeScopes : st[c] \in Running
    /\ \A c \in Ctx \ writeScopes : st[c] \in {"waiting", "woken"} \/ scope[c] = Scope

\* c has the write transaction of d, or is in writeTx to get it.
Holds(c, d) == wraps[c][d] = "write" \/ (st[c] = "begin" /\ want[c] = d)

\* Transactions belong to running contexts, and those that write to admitted
\* writers of that database; a locked lockCheck is somebody's, or its database is
\* dead.
LockCheckInv ==
    /\ \A c \in Ctx : st[c] = "begin" => want[c] \in DB
    /\ \A c \in Ctx, d \in DB : wraps[c][d] # "none" => st[c] \in Running
    /\ \A c \in Ctx, d \in DB : Holds(c, d) => c \in writeScopes /\ MayWrite(scope[c], d)
    /\ \A d \in DB : lockCheck[d] => isDead[d] \/ \E c \in Ctx : Holds(c, d)

\* The transactions that are left open are finitely many, and no more than there
\* were failures.
LeftOpenInv == IsFiniteSet(LeftOpen) /\ NoneLeftOpen

ScopeInv == TypeOK /\ AdmissionInv /\ WritersDisjoint /\ LockCheckInv

(***************************************************************************)
(* Every step keeps the types.                                             *)
(***************************************************************************)

\* The initial state is well typed.
LEMMA TypeInit == Init => TypeOK
<1> SUFFICES ASSUME Init PROVE TypeOK
  OBVIOUS
<1>1. scope \in [Ctx -> flexibleQueryScope] /\ wraps \in [Ctx -> [DB -> {"none", "read", "write"}]]
  BY EmptyScope DEF Init
<1>2. want \in [Ctx -> DB \cup {<< >>}] /\ st \in [Ctx -> {"none", "waiting", "woken", "live",
          "begin", "committing", "releasing", "done"}]
  BY DEF Init
<1>3. /\ dbMu \in [DB -> Ctx \cup {Free}] /\ rwmu \in [DB -> Ctx \cup {Free, Checkpointer}]
      /\ ckpt \in [DB -> {"no", "copy", "reset"}]
      /\ txs \in [DB -> SUBSET Ctx] /\ waitingOn \in [DB -> SUBSET Ctx]
  BY DEF Init
<1>4. /\ lockCheck \in [DB -> BOOLEAN] /\ isDead \in [DB -> BOOLEAN]
      /\ lockingError \subseteq Ctx \X DB /\ closed \in BOOLEAN
  BY DEF Init
<1>5. faults \in Nat /\ mu \in Ctx \cup {Free, Closer} /\ dbs = {} /\ queries = {}
      /\ writeScopes = {}
  BY DEF Init
<1> QED BY <1>1, <1>2, <1>3, <1>4, <1>5 DEF TypeOK

\* A context that begins a transaction or gets an error.
LEMMA ReturnsType ==
    ASSUME TypeOK, NEW c \in Ctx, NEW next \in Running, Returns(c, next)
    PROVE  mu' \in Ctx \cup {Free, Closer} /\ st' \in [Ctx -> {"none", "waiting", "woken",
               "live", "begin", "committing", "releasing", "done"}]
           /\ want' \in [Ctx -> DB \cup {<< >>}]
BY DEF TypeOK, Returns, Running

\* The end of an rbf transaction and of its wrapper.
LEMMA ForgetType ==
    ASSUME TypeOK, NEW c \in Ctx, NEW d \in DB, Forget(c, d)
    PROVE  /\ wraps' \in [Ctx -> [DB -> {"none", "read", "write"}]]
           /\ lockCheck' \in [DB -> BOOLEAN]
BY DEF TypeOK, Forget

\* The writer lock that removeTx gives up, or leaves to a checkpoint.
LEMMA RemoveTxType ==
    ASSUME TypeOK, NEW c \in Ctx, NEW d \in DB, NEW checkpoint \in BOOLEAN,
           removeTx(c, d, checkpoint)
    PROVE  /\ txs' \in [DB -> SUBSET Ctx] /\ waitingOn' \in [DB -> SUBSET Ctx]
           /\ rwmu' \in [DB -> Ctx \cup {Free, Checkpointer}]
           /\ ckpt' \in [DB -> {"no", "copy", "reset"}] /\ isDead' = isDead
BY DEF TypeOK, removeTx

\* Each action of Next.
LEMMA TypeNext == TypeOK /\ [Next]_vars => TypeOK'
<1> SUFFICES ASSUME TypeOK, [Next]_vars PROVE TypeOK'
  OBVIOUS
<1> USE DEF TypeOK, lockVars, storeVars, rbfVars, ctxVars
<1>1. ASSUME NEW c \in Ctx, NewQueryContext(c) PROVE TypeOK'
  BY <1>1 DEF NewQueryContext, Admit
<1>2. ASSUME NEW c \in Ctx, NEW q \in flexibleQueryScope, AdmitWriter(c, q) PROVE TypeOK'
  <2>1. /\ \E s \in {"waiting", "live"} : st' = [st EXCEPT ![c] = s]
        /\ queries' \subseteq Ctx /\ writeScopes' \subseteq Ctx
        /\ scope' = [scope EXCEPT ![c] = q]
    BY <1>2 DEF AdmitWriter, Admit
  <2>2. UNCHANGED <<closed, dbs, want, wraps, lockVars, rbfVars, faults>>
    BY <1>2 DEF AdmitWriter
  <2> QED BY <2>1, <2>2
<1>3. ASSUME NEW c \in Ctx, NEW q \in Scopes, NewWriteQueryContext(c, q) PROVE TypeOK'
  BY <1>2, <1>3, ScopesAssumption DEF NewWriteQueryContext
<1>4. ASSUME NEW c \in Ctx, Woken(c) PROVE TypeOK'
  BY <1>2, <1>4 DEF Woken
<1>5. ASSUME NEW c \in Ctx, Commit(c) \/ Release(c) PROVE TypeOK'
  BY <1>5 DEF Commit, Release
<1>6. ASSUME NEW c \in Ctx, NEW d \in DB, readTx(c, d) PROVE TypeOK'
  <2>1. txs' \in [DB -> SUBSET Ctx] /\ dbs' \subseteq DB
    BY <1>6 DEF readTx, TakeDB, Opened
  <2>4. wraps' \in [Ctx -> [DB -> {"none", "read", "write"}]]
    <3>1. wraps' = wraps \/ wraps' = [wraps EXCEPT ![c][d] = "read"]
      BY <1>6 DEF readTx, Opened
    <3>2. CASE wraps' = [wraps EXCEPT ![c][d] = "read"]
      BY <3>2
    <3> QED BY <3>1, <3>2
  <2>2. \E next \in Running : Returns(c, next)
    BY <1>6 DEF readTx, Opened, Running
  <2>3. UNCHANGED <<closed, queries, writeScopes, scope, dbMu, lockCheck, lockingError,
                    rwmu, ckpt, waitingOn, isDead, faults>>
    BY <1>6 DEF readTx
  <2> QED BY <2>1, <2>2, <2>3, <2>4, ReturnsType
<1>7. ASSUME NEW c \in Ctx, NEW d \in DB, writeTx(c, d) PROVE TypeOK'
  <2>1. dbs' \subseteq DB /\ lockCheck' \in [DB -> BOOLEAN] /\ dbMu' \in [DB -> Ctx \cup {Free}]
        /\ lockingError' \subseteq Ctx \X DB
    <3>1. dbs' = dbs \cup {d}
      BY <1>7 DEF writeTx, TakeDB
    <3>2. \/ lockingError' = lockingError \cup {<<c, d>>} /\ UNCHANGED <<lockCheck, dbMu>>
          \/ /\ lockCheck' = [lockCheck EXCEPT ![d] = TRUE]
             /\ dbMu' = [dbMu EXCEPT ![d] = c] /\ UNCHANGED lockingError
      BY <1>7 DEF writeTx
    <3>3. /\ dbs \subseteq DB /\ lockCheck \in [DB -> BOOLEAN] /\ lockingError \subseteq Ctx \X DB
          /\ dbMu \in [DB -> Ctx \cup {Free}] /\ c \in Ctx /\ d \in DB
      OBVIOUS
    <3>4. lockCheck' \in [DB -> BOOLEAN]
      BY ONLY <3>2, <3>3
    <3>6. lockingError' \subseteq Ctx \X DB
      BY ONLY <3>2, <3>3
    <3>5. dbMu' \in [DB -> Ctx \cup {Free}]
      BY ONLY <3>2, <3>3
    <3> QED BY ONLY <3>1, <3>3, <3>4, <3>5, <3>6
  <2>2. /\ \E s \in {"releasing", "begin"} : st' = [st EXCEPT ![c] = s]
        /\ \E w \in DB \cup {<< >>} : want' = [want EXCEPT ![c] = w]
        /\ mu' \in Ctx \cup {Free}
    BY <1>7 DEF writeTx, Returns
  <2>3. UNCHANGED <<closed, queries, writeScopes, scope, wraps, rbfVars, faults>>
    BY <1>7 DEF writeTx
  <2> QED BY <2>1, <2>2, <2>3
<1>8. ASSUME NEW c \in Ctx, BeginWrite(c) PROVE TypeOK'
  <2>1. txs' \in [DB -> SUBSET Ctx] /\ rwmu' \in [DB -> Ctx \cup {Free, Checkpointer}]
        /\ dbMu' \in [DB -> Ctx \cup {Free}]
    BY <1>8 DEF BeginWrite, Opened
  <2>2. wraps' \in [Ctx -> [DB -> {"none", "read", "write"}]]
    BY <1>8 DEF BeginWrite, Opened
  <2>3. Returns(c, "live") /\ UNCHANGED <<scope, storeVars, lockCheck, lockingError,
                                            ckpt, waitingOn, isDead, faults>>
    BY <1>8 DEF BeginWrite, Opened
  <2> QED BY <2>1, <2>2, <2>3, ReturnsType DEF Running
<1>9. ASSUME NEW c \in Ctx, BeginFails(c) PROVE TypeOK'
  BY <1>9 DEF BeginFails, Returns
<1>10. ASSUME NEW c \in Ctx, NEW d \in DB, NEW checkpoint \in BOOLEAN,
              EndTx(c, d, checkpoint)
       PROVE  TypeOK'
  BY <1>10, ForgetType, RemoveTxType DEF EndTx, Forget
<1>11. ASSUME NEW c \in Ctx, NEW d \in DB, CommitFails(c, d) PROVE TypeOK'
  BY <1>11, ForgetType DEF CommitFails, Forget
<1>12. ASSUME NEW c \in Ctx, EndContext(c) PROVE TypeOK'
  BY <1>12, EmptyScope DEF EndContext, Released
<1>13. ASSUME NEW d \in DB, CheckpointStep(d) PROVE TypeOK'
  <2>1. rwmu' \in [DB -> Ctx \cup {Free, Checkpointer}]
    BY <1>13 DEF CheckpointStep
  <2>2. waitingOn' \in [DB -> SUBSET Ctx]
    BY <1>13 DEF CheckpointStep
  <2>3. ckpt' \in [DB -> {"no", "copy", "reset"}]
    <3>1. ckpt' = [ckpt EXCEPT ![d] = "reset"] \/ ckpt' = [ckpt EXCEPT ![d] = "no"]
      BY <1>13 DEF CheckpointStep
    <3> QED BY <3>1
  <2>4. UNCHANGED <<txs, isDead, faults, storeVars, ctxVars, lockVars>>
    BY <1>13 DEF CheckpointStep
  <2> QED BY <2>1, <2>2, <2>3, <2>4
<1>20. ASSUME NEW d \in DB, CheckpointFails(d) PROVE TypeOK'
  <2>1. isDead' \in [DB -> BOOLEAN]
    BY <1>20 DEF CheckpointFails
  <2>2. /\ rwmu' \in [DB -> Ctx \cup {Free, Checkpointer}]
        /\ ckpt' \in [DB -> {"no", "copy", "reset"}] /\ faults' \in Nat
    BY <1>20 DEF CheckpointFails
  <2>3. UNCHANGED <<txs, waitingOn, storeVars, ctxVars, lockVars>>
    BY <1>20 DEF CheckpointFails
  <2> QED BY <2>1, <2>2, <2>3
<1>14. ASSUME NEW d \in DB, CloseDB(d) PROVE TypeOK'
  BY <1>14 DEF CloseDB
<1>15. CASE UNCHANGED vars
  BY <1>15 DEF vars
<1>16. CASE Close
  BY <1>16 DEF Close
<1> HIDE DEF TypeOK, lockVars, storeVars, rbfVars, ctxVars
<1>17. ASSUME NEW c \in Ctx, Step(c) PROVE TypeOK'
  BY <1>8, <1>9, <1>10, <1>11, <1>12, <1>17 DEF Step
<1>18. CASE Progress
  BY <1>4, <1>5, <1>13, <1>14, <1>17, <1>18 DEF Progress
<1>19. CASE Next
  BY <1>1, <1>3, <1>5, <1>6, <1>7, <1>20, <1>16, <1>18, <1>19 DEF Next
<1> QED BY <1>15, <1>19

(***************************************************************************)
(* Every step keeps the writers apart.                                     *)
(***************************************************************************)

Admission == TypeOK /\ AdmissionInv /\ WritersDisjoint

\* Nobody is admitted to begin with.
LEMMA AdmissionInit == Init => AdmissionInv /\ WritersDisjoint
BY EmptyScope DEF Init, AdmissionInv, WritersDisjoint

\* A step that leaves the contexts' scopes and who is admitted alone.
LEMMA ScopesUntouched ==
    ASSUME Admission, UNCHANGED <<scope, writeScopes>>
    PROVE  WritersDisjoint'
BY DEF Admission, WritersDisjoint

\* A context that goes on running, or starts to as a reader.
LEMMA StaysAdmitted ==
    ASSUME Admission, NEW c \in Ctx, NEW next \in Running,
           st[c] \in Running \cup {"none"}, st' = [st EXCEPT ![c] = next],
           UNCHANGED <<scope, writeScopes>>
    PROVE  AdmissionInv' /\ WritersDisjoint'
<1>1. \A w \in Ctx : st'[w] = IF w = c THEN next ELSE st[w]
  BY DEF Admission, TypeOK
<1>2. AdmissionInv'
  BY <1>1 DEF Admission, TypeOK, AdmissionInv, Running
<1> QED BY <1>2, ScopesUntouched

\* The queue of writers: who does not overlap with those that were admitted
\* before can write nothing that they can.
LEMMA AdmitWriterKept ==
    ASSUME Admission, NEW c \in Ctx, NEW q \in flexibleQueryScope,
           c \notin writeScopes,
           AdmitWriter(c, q)
    PROVE  AdmissionInv' /\ WritersDisjoint'
<1>1. \A w \in Ctx : scope'[w] = IF w = c THEN q ELSE scope[w]
  BY DEF AdmitWriter, Admission, TypeOK
<1>2. CASE writeBlocked(q)
  <2>1. writeScopes' = writeScopes /\ st' = [st EXCEPT ![c] = "waiting"]
    BY <1>2 DEF AdmitWriter
  <2>2. AdmissionInv'
    BY <1>1, <2>1 DEF Admission, TypeOK, AdmissionInv, Running
  <2>3. WritersDisjoint'
    BY <1>1, <2>1 DEF Admission, TypeOK, WritersDisjoint
  <2> QED BY <2>2, <2>3
<1>3. CASE ~writeBlocked(q)
  <2>1. writeScopes' = writeScopes \cup {c} /\ st' = [st EXCEPT ![c] = "live"]
    BY <1>3 DEF AdmitWriter, Admit
  <2>2. AdmissionInv'
    BY <1>1, <2>1 DEF Admission, TypeOK, AdmissionInv, Running
  <2>3. ASSUME NEW w \in writeScopes, NEW d \in DB
        PROVE  (scope[w].all /\ q.all) \/ ~(MayWrite(scope[w], d) /\ MayWrite(q, d))
    <3>1. w \in Ctx /\ w # c /\ scope[w] \in flexibleQueryScope
      BY DEF Admission, TypeOK
    <3>2. ~Overlap(scope[w], q)
      BY <1>3, <3>1 DEF writeBlocked
    <3> QED BY <3>1, <3>2, OverlapComplete
  <2>4. ASSUME NEW v \in writeScopes', NEW w \in writeScopes', v # w, NEW d \in DB
        PROVE  \/ scope'[v].all /\ scope'[w].all
               \/ ~(MayWrite(scope'[v], d) /\ MayWrite(scope'[w], d))
    BY <1>1, <2>1, <2>3, <2>4 DEF Admission, TypeOK, WritersDisjoint
  <2>5. WritersDisjoint'
    BY <2>4 DEF WritersDisjoint
  <2> QED BY <2>2, <2>5
<1> QED BY <1>2, <1>3

\* Each action of Next.
LEMMA AdmissionNext == Admission /\ [Next]_vars => AdmissionInv' /\ WritersDisjoint'
<1> SUFFICES ASSUME Admission, [Next]_vars PROVE AdmissionInv' /\ WritersDisjoint'
  OBVIOUS
<1> DEFINE Goal == AdmissionInv' /\ WritersDisjoint'
<1> SUFFICES Goal
  OBVIOUS
<1>1. ASSUME NEW c \in Ctx, NewQueryContext(c) PROVE Goal
  <2>1. st[c] = "none" /\ st' = [st EXCEPT ![c] = "live"] /\ UNCHANGED <<scope, writeScopes>>
    BY <1>1 DEF NewQueryContext, Admit
  <2> QED BY <2>1, StaysAdmitted DEF Running
<1>2. ASSUME NEW c \in Ctx, NEW q \in Scopes, NewWriteQueryContext(c, q) PROVE Goal
  <2>1. c \notin writeScopes
    BY <1>2 DEF NewWriteQueryContext, Admission, AdmissionInv, Running
  <2> QED BY <1>2, <2>1, AdmitWriterKept, ScopesAssumption DEF NewWriteQueryContext
<1>3. ASSUME NEW c \in Ctx, Woken(c) PROVE Goal
  <2>1. c \notin writeScopes /\ scope[c] \in flexibleQueryScope
    BY <1>3 DEF Woken, Admission, AdmissionInv, TypeOK, Running
  <2> QED BY <1>3, <2>1, AdmitWriterKept DEF Woken
<1>4. ASSUME NEW c \in Ctx, Commit(c) \/ Release(c) PROVE Goal
  <2>1. PICK next \in Running : st' = [st EXCEPT ![c] = next]
    BY <1>4 DEF Commit, Release, Running
  <2>2. st[c] \in Running /\ UNCHANGED <<scope, writeScopes>>
    BY <1>4 DEF Commit, Release, Running, storeVars
  <2> QED BY <2>1, <2>2, StaysAdmitted
<1>5. ASSUME NEW c \in Ctx, NEW d \in DB, readTx(c, d) \/ writeTx(c, d) PROVE Goal
  <2>1. PICK next \in Running : st' = [st EXCEPT ![c] = next]
    BY <1>5 DEF readTx, writeTx, Returns, Opened, Running
  <2>2. st[c] \in Running /\ UNCHANGED <<scope, writeScopes>>
    BY <1>5 DEF readTx, writeTx, TakeDB, Running
  <2> QED BY <2>1, <2>2, StaysAdmitted
<1>6. ASSUME NEW c \in Ctx, BeginWrite(c) \/ BeginFails(c) PROVE Goal
  <2>1. PICK next \in Running : st' = [st EXCEPT ![c] = next]
    BY <1>6 DEF BeginWrite, BeginFails, Returns, Opened, Running
  <2>2. st[c] \in Running /\ UNCHANGED <<scope, writeScopes>>
    BY <1>6 DEF BeginWrite, BeginFails, Running, storeVars
  <2> QED BY <2>1, <2>2, StaysAdmitted
<1>7. ASSUME NEW c \in Ctx, NEW d \in DB, CommitFails(c, d) PROVE Goal
  <2>1. st[c] = "committing" /\ st' = [st EXCEPT ![c] = "releasing"]
        /\ UNCHANGED <<scope, writeScopes>>
    BY <1>7 DEF CommitFails, Forget, storeVars
  <2> QED BY <2>1, StaysAdmitted DEF Running
<1>8. ASSUME NEW c \in Ctx, EndContext(c) PROVE Goal
  <2>1. \A w \in Ctx : scope'[w] = IF w = c THEN Scope ELSE scope[w]
    BY <1>8 DEF EndContext, Admission, TypeOK
  <2>2. \A w \in Ctx : st'[w] = IF w = c THEN "done"
                                ELSE IF c \in writeScopes /\ st[w] = "waiting" THEN "woken"
                                ELSE st[w]
    BY <1>8 DEF EndContext, Released
  <2>3. writeScopes' = writeScopes \ {c}
    BY <1>8 DEF EndContext
  <2>4. \A w \in writeScopes' : st'[w] \in Running
    BY <2>2, <2>3 DEF Admission, AdmissionInv, TypeOK, Running
  <2>5. \A w \in Ctx \ writeScopes' : st'[w] \in {"waiting", "woken"} \/ scope'[w] = Scope
    BY <2>1, <2>2, <2>3 DEF Admission, AdmissionInv, TypeOK
  <2>7. AdmissionInv'
    BY <2>4, <2>5 DEF AdmissionInv
  <2>8. WritersDisjoint'
    BY <2>1, <2>3 DEF Admission, TypeOK, WritersDisjoint
  <2> QED BY <2>7, <2>8
<1>9. UNCHANGED <<st, scope, writeScopes>> => Goal
  BY ScopesUntouched DEF Admission, AdmissionInv
<1> HIDE DEF Goal
<1>10. ASSUME NEW c \in Ctx, NEW d \in DB, NEW checkpoint \in BOOLEAN,
              EndTx(c, d, checkpoint)
       PROVE  Goal
  <2>1. UNCHANGED <<st, scope, writeScopes>>
    BY <1>10 DEF EndTx, Forget, storeVars
  <2> QED BY <1>9, <2>1
<1>11. ASSUME NEW d \in DB, CheckpointStep(d) \/ CheckpointFails(d) \/ CloseDB(d) PROVE Goal
  <2>1. UNCHANGED <<st, scope, writeScopes>>
    BY <1>11 DEF CheckpointStep, CheckpointFails, CloseDB, storeVars, ctxVars
  <2> QED BY <1>9, <2>1
<1>12. CASE Close \/ UNCHANGED vars
  <2>1. UNCHANGED <<st, scope, writeScopes>>
    BY <1>12 DEF Close, ctxVars, vars
  <2> QED BY <1>9, <2>1
<1>13. ASSUME NEW c \in Ctx, Step(c) PROVE Goal
  BY <1>6, <1>7, <1>8, <1>10, <1>13 DEF Step
<1>14. CASE Progress
  BY <1>3, <1>4, <1>11, <1>13, <1>14 DEF Progress
<1>15. CASE Next
  BY <1>1, <1>2, <1>4, <1>5, <1>11, <1>12, <1>14, <1>15 DEF Next
<1> QED BY <1>12, <1>15

\* However writers are admitted, wait, are woken and end (NewWriteQueryContext,
\* writeQueue, Release), no two of them may write the same database, unless both
\* asked for everything.
THEOREM WritersDisjointHolds == Spec => []WritersDisjoint
<1>1. Init => Admission
  BY TypeInit, AdmissionInit DEF Admission
<1>2. Admission /\ [Next]_vars => Admission'
  BY TypeNext, AdmissionNext DEF Admission
<1>3. Admission => WritersDisjoint
  BY DEF Admission
<1> QED BY <1>1, <1>2, <1>3, PTL DEF Spec

(***************************************************************************)
(* Every step keeps lockCheck somebody's.                                  *)
(***************************************************************************)

\* Nobody has a transaction to begin with.
LEMMA LockCheckInit == Init => LockCheckInv
BY DEF Init, LockCheckInv, Holds

\* A step that opens and ends no write transaction, and lets nobody who has one
\* leave off.
LEMMA LocksUntouched ==
    ASSUME ScopeInv, TypeOK', UNCHANGED <<want, wraps, writeScopes, scope, lockCheck>>,
           \A c \in Ctx : st'[c] = "begin" <=> st[c] = "begin",
           \A c \in Ctx : st[c] \in Running => st'[c] \in Running,
           \A d \in DB : isDead[d] => isDead'[d]
    PROVE  LockCheckInv'
<1>1. \A c \in Ctx, d \in DB : Holds(c, d)' <=> Holds(c, d)
  BY DEF Holds
<1> QED BY <1>1 DEF ScopeInv, LockCheckInv

\* Who is not admitted has no write transaction; so its scope may change.
LEMMA AdmitLocks ==
    ASSUME ScopeInv, TypeOK', NEW c \in Ctx, NEW q, st[c] \in {"none", "woken"}, AdmitWriter(c, q)
    PROVE  LockCheckInv'
<1>1. /\ writeScopes \subseteq writeScopes'
      /\ UNCHANGED <<want, wraps, lockCheck, isDead>>
  BY DEF AdmitWriter, lockVars, rbfVars
<1>2. \A w \in Ctx : w # c => st'[w] = st[w] /\ scope'[w] = scope[w]
  BY DEF AdmitWriter, Admit, ScopeInv, TypeOK
<1>3. st'[c] # "begin"
  BY DEF AdmitWriter, Admit, ScopeInv, TypeOK
<1>4. \A d \in DB : wraps[c][d] = "none"
  BY DEF ScopeInv, LockCheckInv, Running
<1>5. \A w \in Ctx, d \in DB : Holds(w, d)' <=> Holds(w, d) /\ w # c
  BY <1>1, <1>2, <1>3, <1>4 DEF Holds
<1>6. \A d \in DB : ~Holds(c, d)
  BY <1>4 DEF Holds
<1> QED BY <1>1, <1>2, <1>3, <1>4, <1>5, <1>6 DEF ScopeInv, LockCheckInv

\* readTx opens no write transaction, and getting an error ends none.
LEMMA ReadTxLocks ==
    ASSUME ScopeInv, TypeOK', NEW c \in Ctx, NEW d \in DB, readTx(c, d)
    PROVE  LockCheckInv'
<1>1. UNCHANGED <<writeScopes, scope, lockCheck, isDead>>
  BY DEF readTx
<1>2. st[c] = "live" /\ wraps[c][d] = "none" /\ st'[c] \in {"live", "releasing"}
      /\ \A w \in Ctx : w # c => st'[w] = st[w] /\ want'[w] = want[w]
  BY DEF readTx, TakeDB, Opened, Returns, ScopeInv, TypeOK
<1>3. wraps' = wraps \/ wraps' = [wraps EXCEPT ![c][d] = "read"]
  BY DEF readTx, Opened
<1>4. \A w \in Ctx, e \in DB : /\ wraps'[w][e] = "write" <=> wraps[w][e] = "write"
                               /\ w # c => wraps'[w][e] = wraps[w][e]
  BY <1>2, <1>3 DEF ScopeInv, TypeOK
<1>5. \A w \in Ctx, e \in DB : Holds(w, e)' <=> Holds(w, e)
  BY <1>2, <1>4 DEF Holds
<1> QED BY <1>1, <1>2, <1>4, <1>5 DEF ScopeInv, LockCheckInv, Running

\* writeTx locks lockCheck for its context, or finds it locked and gives up.
LEMMA WriteTxLocks ==
    ASSUME ScopeInv, TypeOK', NEW c \in Ctx, NEW d \in DB, writeTx(c, d)
    PROVE  LockCheckInv'
<1>1. UNCHANGED <<writeScopes, scope, wraps, isDead>> /\ st[c] = "live"
      /\ wraps[c][d] = "none" /\ MayWrite(scope[c], d)
  BY DEF writeTx, TakeDB, TxKind, rbfVars
<1>2. c \in writeScopes
  BY <1>1, EmptyScope DEF ScopeInv, AdmissionInv
<1>3. CASE lockCheck[d]
  <2>1. UNCHANGED lockCheck /\ st'[c] = "releasing"
        /\ \A w \in Ctx : w # c => st'[w] = st[w] /\ want'[w] = want[w]
    BY <1>3 DEF writeTx, Returns, ScopeInv, TypeOK
  <2>4. \A w \in Ctx, e \in DB : Holds(w, e)' <=> Holds(w, e)
    BY <1>1, <2>1 DEF Holds
  <2> QED BY <1>1, <2>1, <2>4 DEF ScopeInv, LockCheckInv, Running
<1>4. CASE ~lockCheck[d]
  <2>1. /\ lockCheck' = [lockCheck EXCEPT ![d] = TRUE]
        /\ st'[c] = "begin" /\ want'[c] = d
        /\ \A w \in Ctx : w # c => st'[w] = st[w] /\ want'[w] = want[w]
    BY <1>4 DEF writeTx, ScopeInv, TypeOK
  <2>2. \A e \in DB : e # d => lockCheck'[e] = lockCheck[e]
    BY <2>1 DEF ScopeInv, TypeOK
  <2>3. \A w \in Ctx, e \in DB : Holds(w, e)' <=> Holds(w, e) \/ (w = c /\ e = d)
    BY <1>1, <2>1 DEF Holds
  <2>5. \A e \in DB : lockCheck'[e] => isDead'[e] \/ \E w \in Ctx : Holds(w, e)'
    BY <1>1, <2>2, <2>3 DEF ScopeInv, LockCheckInv
  <2> QED BY <1>1, <1>2, <2>1, <2>3, <2>5 DEF ScopeInv, LockCheckInv, Running
<1> QED BY <1>3, <1>4

\* Begin returns: the wrapper is what holds lockCheck from now on, or the
\* database is dead.
LEMMA BeginLocks ==
    ASSUME ScopeInv, TypeOK', NEW c \in Ctx, BeginWrite(c) \/ BeginFails(c)
    PROVE  LockCheckInv'
<1>1. UNCHANGED <<writeScopes, scope, lockCheck, isDead>> /\ st[c] = "begin"
      /\ st'[c] \in {"live", "releasing"}
      /\ \A w \in Ctx : w # c => st'[w] = st[w] /\ want'[w] = want[w]
  BY DEF BeginWrite, BeginFails, Opened, Returns, storeVars, rbfVars, ScopeInv, TypeOK
<1>2. PICK d \in DB : d = want[c]
  BY <1>1 DEF ScopeInv, LockCheckInv
<1>3. wraps' = [wraps EXCEPT ![c][d] = "write"] \/ (wraps' = wraps /\ isDead[d])
  BY <1>2 DEF BeginWrite, BeginFails, Opened
<1>4. \A w \in Ctx, e \in DB : w # c \/ e # d => wraps'[w][e] = wraps[w][e]
  BY <1>2, <1>3 DEF ScopeInv, TypeOK
<1>5. wraps'[c][d] = "write" \/ (wraps'[c][d] = wraps[c][d] /\ isDead[d])
  BY <1>2, <1>3 DEF ScopeInv, TypeOK
<1>6. Holds(c, d) /\ c \in writeScopes /\ MayWrite(scope[c], d)
  BY <1>1, <1>2 DEF Holds, ScopeInv, LockCheckInv
<1>7. /\ \A w \in Ctx, e \in DB : w # c \/ e # d => (Holds(w, e)' <=> Holds(w, e))
      /\ Holds(c, d)' \/ isDead[d]
  BY <1>1, <1>2, <1>4, <1>5 DEF Holds
<1>8. \A e \in DB : lockCheck'[e] => isDead'[e] \/ \E w \in Ctx : Holds(w, e)'
  BY <1>1, <1>7 DEF ScopeInv, LockCheckInv
<1>9. \A w \in Ctx, e \in DB : wraps'[w][e] # "none" => st'[w] \in Running
  BY <1>1, <1>4 DEF ScopeInv, LockCheckInv, Running
<1>10. \A w \in Ctx, e \in DB : Holds(w, e)' => w \in writeScopes' /\ MayWrite(scope'[w], e)
  BY <1>1, <1>6, <1>7 DEF ScopeInv, LockCheckInv
<1>12. \A w \in Ctx : st'[w] = "begin" => want'[w] \in DB
  BY <1>1 DEF ScopeInv, LockCheckInv
<1> QED BY <1>8, <1>9, <1>10, <1>12 DEF LockCheckInv

\* The end of a write transaction unlocks lockCheck.
LEMMA ForgetLocks ==
    ASSUME ScopeInv, TypeOK', NEW c \in Ctx, NEW d \in DB, Forget(c, d),
           st[c] \in {"committing", "releasing"}, UNCHANGED isDead,
           st' = st \/ st' = [st EXCEPT ![c] = "releasing"]
    PROVE  LockCheckInv'
<1>1. UNCHANGED <<writeScopes, scope, want, isDead>>
      /\ st'[c] \in {"committing", "releasing"} /\ \A w \in Ctx : w # c => st'[w] = st[w]
  BY DEF Forget, storeVars, ScopeInv, TypeOK
<1>2. \A w \in Ctx, e \in DB : wraps'[w][e] = IF w = c /\ e = d THEN "none" ELSE wraps[w][e]
  BY DEF Forget, ScopeInv, TypeOK
<1>3. \A w \in Ctx, e \in DB : Holds(w, e)' <=> Holds(w, e) /\ ~(w = c /\ e = d)
  BY <1>1, <1>2 DEF Holds
<1>4. \A e \in DB : lockCheck'[e] => lockCheck[e] /\ (e = d => ~Holds(c, d))
  BY DEF Forget, Holds, ScopeInv, TypeOK
<1>5. \A e \in DB : lockCheck'[e] => isDead'[e] \/ \E w \in Ctx : Holds(w, e)'
  BY <1>1, <1>3, <1>4 DEF ScopeInv, LockCheckInv
<1> QED BY <1>1, <1>2, <1>3, <1>5 DEF ScopeInv, LockCheckInv, Running

\* A context ends without transactions; those that it wakes have none.
LEMMA EndContextLocks ==
    ASSUME ScopeInv, TypeOK', NEW c \in Ctx, EndContext(c)
    PROVE  LockCheckInv'
<1>1. UNCHANGED <<want, wraps, lockCheck, isDead>>
      /\ st[c] \in {"committing", "releasing"} /\ \A d \in DB : wraps[c][d] = "none"
  BY DEF EndContext, lockVars, rbfVars
<1>2. \A w \in Ctx : w # c => scope'[w] = scope[w]
  BY DEF EndContext, ScopeInv, TypeOK
<1>3. /\ st'[c] = "done"
      /\ \A w \in Ctx : w # c => st'[w] = st[w] \/ (st[w] = "waiting" /\ st'[w] = "woken")
  BY DEF EndContext, Released
<1>4. writeScopes' = writeScopes \ {c}
  BY DEF EndContext
<1>5. \A w \in Ctx, d \in DB : (Holds(w, d)' <=> Holds(w, d)) /\ ~Holds(c, d)
  BY <1>1, <1>3 DEF Holds
<1> QED BY <1>1, <1>2, <1>3, <1>4, <1>5 DEF ScopeInv, LockCheckInv, Running

\* Each action of Next.
LEMMA LockCheckNext == ScopeInv /\ TypeOK' /\ [Next]_vars => LockCheckInv'
<1> SUFFICES ASSUME ScopeInv, TypeOK', [Next]_vars PROVE LockCheckInv'
  OBVIOUS
<1>1. ASSUME NEW c \in Ctx, NewQueryContext(c) \/ Commit(c) \/ Release(c) PROVE LockCheckInv'
  <2>1. UNCHANGED <<want, wraps, writeScopes, scope, lockCheck, isDead>>
    BY <1>1 DEF NewQueryContext, Commit, Release, storeVars, lockVars, rbfVars
  <2>2. st[c] # "begin" /\ st'[c] \in {"live", "committing", "releasing"}
        /\ \A w \in Ctx : w # c => st'[w] = st[w]
    BY <1>1 DEF NewQueryContext, Admit, Commit, Release, ScopeInv, TypeOK
  <2> QED BY <2>1, <2>2, LocksUntouched DEF Running
<1>2. ASSUME NEW c \in Ctx, NEW q, NewWriteQueryContext(c, q) PROVE LockCheckInv'
  BY <1>2, AdmitLocks DEF NewWriteQueryContext
<1>3. ASSUME NEW c \in Ctx, Woken(c) PROVE LockCheckInv'
  BY <1>3, AdmitLocks DEF Woken
<1>4. ASSUME NEW c \in Ctx, NEW d \in DB, readTx(c, d) \/ writeTx(c, d) PROVE LockCheckInv'
  BY <1>4, ReadTxLocks, WriteTxLocks
<1>5. ASSUME NEW c \in Ctx, NEW d \in DB, NEW checkpoint \in BOOLEAN, EndTx(c, d, checkpoint)
      PROVE  LockCheckInv'
  <2>1. st[c] \in {"committing", "releasing"} /\ st' = st /\ UNCHANGED isDead
    BY <1>5 DEF EndTx, removeTx
  <2> QED BY <1>5, <2>1, ForgetLocks DEF EndTx
<1>6. ASSUME NEW c \in Ctx, NEW d \in DB, CommitFails(c, d) PROVE LockCheckInv'
  <2>1. st[c] = "committing" /\ st' = [st EXCEPT ![c] = "releasing"] /\ UNCHANGED isDead
    BY <1>6 DEF CommitFails, rbfVars
  <2> QED BY <1>6, <2>1, ForgetLocks DEF CommitFails
<1>7. ASSUME NEW d \in DB, CheckpointStep(d) \/ CloseDB(d) PROVE LockCheckInv'
  <2>1. UNCHANGED <<st, want, wraps, writeScopes, scope, lockCheck, isDead>>
    BY <1>7 DEF CheckpointStep, CloseDB, storeVars, ctxVars, lockVars, rbfVars
  <2> QED BY <2>1, LocksUntouched
<1>8. ASSUME NEW d \in DB, CheckpointFails(d) PROVE LockCheckInv'
  <2>1. UNCHANGED <<st, want, wraps, writeScopes, scope, lockCheck>>
    BY <1>8 DEF CheckpointFails, storeVars, ctxVars, lockVars
  <2>2. \A e \in DB : isDead[e] => isDead'[e]
    BY <1>8 DEF CheckpointFails, ScopeInv, TypeOK
  <2> QED BY <2>1, <2>2, LocksUntouched
<1>9. CASE Close \/ UNCHANGED vars
  <2>1. UNCHANGED <<st, want, wraps, writeScopes, scope, lockCheck, isDead>>
    BY <1>9 DEF Close, ctxVars, rbfVars, vars
  <2> QED BY <2>1, LocksUntouched
<1>10. ASSUME NEW c \in Ctx, Step(c) PROVE LockCheckInv'
  BY <1>5, <1>6, <1>10, BeginLocks, EndContextLocks DEF Step
<1>11. CASE Progress
  BY <1>1, <1>3, <1>7, <1>10, <1>11 DEF Progress
<1>12. CASE Next
  BY <1>1, <1>2, <1>4, <1>8, <1>9, <1>11, <1>12 DEF Next
<1> QED BY <1>9, <1>12

\* Only writeTx refuses anybody.
LEMMA OtherRefusesNone ==
    [Next]_vars => \/ UNCHANGED lockingError
                   \/ \E c \in Ctx, d \in DB : writeTx(c, d)
<1> SUFFICES ASSUME [Next]_vars PROVE \/ UNCHANGED lockingError
                                      \/ \E c \in Ctx, d \in DB : writeTx(c, d)
  OBVIOUS
<1>1. \A c \in Ctx : \A q :
          NewQueryContext(c) \/ AdmitWriter(c, q) \/ Commit(c) \/ Release(c)
              => UNCHANGED lockingError
  BY DEF NewQueryContext, AdmitWriter, Commit, Release, lockVars
<1>2. \A c \in Ctx, d \in DB : readTx(c, d) => UNCHANGED lockingError
  BY DEF readTx
<1>3. \A c \in Ctx : BeginWrite(c) \/ BeginFails(c) \/ EndContext(c) => UNCHANGED lockingError
  BY DEF BeginWrite, BeginFails, EndContext, lockVars
<1>4. \A c \in Ctx, d \in DB, checkpoint \in BOOLEAN :
          EndTx(c, d, checkpoint) \/ CommitFails(c, d) => UNCHANGED lockingError
  BY DEF EndTx, CommitFails, Forget
<1>5. \A d \in DB : CheckpointStep(d) \/ CheckpointFails(d) \/ CloseDB(d)
                    => UNCHANGED lockingError
  BY DEF CheckpointStep, CheckpointFails, CloseDB, lockVars
<1>6. Close \/ UNCHANGED vars => UNCHANGED lockingError
  BY DEF Close, vars
<1>7. \A c \in Ctx : Step(c) => UNCHANGED lockingError
  BY <1>3, <1>4 DEF Step
<1>8. Progress => UNCHANGED lockingError
  BY <1>1, <1>5, <1>7 DEF Progress, Woken
<1> QED BY <1>1, <1>2, <1>5, <1>6, <1>8 DEF Next, NewWriteQueryContext

\* Who finds lockCheck locked, of a database that works, finds another admitted
\* writer of that database; the scopes of the two are disjoint or both everything.
LEMMA RefusedForCause ==
    ASSUME ScopeInv, NEW c \in Ctx, NEW d \in DB, writeTx(c, d), lockCheck[d], ~isDead[d]
    PROVE  scope[c].all /\ \E w \in writeScopes \ {c} : scope[w].all
<1>1. st[c] = "live" /\ wraps[c][d] = "none" /\ MayWrite(scope[c], d)
  BY DEF writeTx, TakeDB, TxKind
<1>2. c \in writeScopes
  BY <1>1, EmptyScope DEF ScopeInv, AdmissionInv
<1>3. PICK w \in Ctx : Holds(w, d)
  BY DEF ScopeInv, LockCheckInv
<1>4. w # c
  BY <1>1, <1>3 DEF Holds
<1>5. w \in writeScopes /\ MayWrite(scope[w], d)
  BY <1>3 DEF ScopeInv, LockCheckInv
<1> QED BY <1>1, <1>2, <1>4, <1>5 DEF ScopeInv, WritersDisjoint

\* What lockCheck asserts: writeTx refuses a context the write transaction of a
\* database only when a checkpoint has killed that database, for Begin's error
\* leaves lockCheck locked, or when the context and the writer that has it both
\* asked for everything.
THEOREM NoLockingErrorHolds == Spec => NoLockingError
<1> DEFINE Caused == \A x \in lockingError' \ lockingError :
                         \/ isDead[x[2]]
                         \/ /\ scope[x[1]].all
                            /\ \E w \in writeScopes \ {x[1]} : scope[w].all
<1>1. Init => ScopeInv
  BY TypeInit, AdmissionInit, LockCheckInit DEF ScopeInv
<1>2. ScopeInv /\ [Next]_vars => ScopeInv'
  BY TypeNext, AdmissionNext, LockCheckNext DEF ScopeInv, Admission
<1>3. ScopeInv /\ [Next]_vars => [Caused]_vars
  <2> SUFFICES ASSUME ScopeInv, [Next]_vars, NEW x \in lockingError' \ lockingError
               PROVE  \/ isDead[x[2]]
                      \/ /\ scope[x[1]].all
                         /\ \E w \in writeScopes \ {x[1]} : scope[w].all
    OBVIOUS
  <2>1. PICK c \in Ctx, d \in DB : writeTx(c, d)
    BY OtherRefusesNone
  <2>2. lockCheck[d] /\ x = <<c, d>>
    BY <2>1 DEF writeTx
  <2> QED BY <2>1, <2>2, RefusedForCause
<1> QED BY <1>1, <1>2, <1>3, PTL DEF Spec, NoLockingError

(***************************************************************************)
(* Transactions that are left open.                                        *)
(***************************************************************************)

\* A step that leaves no more transactions open than there were.
LEMMA NoMoreOpen ==
    ASSUME TypeOK, LeftOpenInv, LeftOpen' \subseteq LeftOpen, faults' \in Nat, faults <= faults'
    PROVE  LeftOpenInv'
<1>1. IsFiniteSet(LeftOpen') /\ Cardinality(LeftOpen') <= Cardinality(LeftOpen)
  BY FS_Subset DEF LeftOpenInv
<1>2. Cardinality(LeftOpen') \in Nat /\ Cardinality(LeftOpen) \in Nat
  BY <1>1, FS_CardinalityType DEF LeftOpenInv
<1> QED BY <1>1, <1>2 DEF TypeOK, LeftOpenInv, NoneLeftOpen

\* Only a commit that fails leaves a transaction open.
LEMMA LeftOpenNext == TypeOK /\ TypeOK' /\ LeftOpenInv /\ [Next]_vars => LeftOpenInv'
<1> SUFFICES ASSUME TypeOK, TypeOK', LeftOpenInv, [Next]_vars PROVE LeftOpenInv'
  OBVIOUS
<1>1. ASSUME UNCHANGED <<txs, wraps>>, faults' = faults \/ faults' = faults + 1 PROVE LeftOpenInv'
  BY <1>1, NoMoreOpen DEF LeftOpen, TypeOK
<1>2. ASSUME NEW c \in Ctx, NEW d \in DB, NEW kind \in {"read", "write"}, Opened(c, d, kind),
             UNCHANGED faults
      PROVE  LeftOpenInv'
  <2>1. \A w \in Ctx, e \in DB : /\ txs'[e] = IF e = d THEN txs[e] \cup {c} ELSE txs[e]
                                 /\ wraps'[w][e] = IF w = c /\ e = d THEN kind ELSE wraps[w][e]
    <3>1. txs' = [txs EXCEPT ![d] = @ \cup {c}] /\ wraps' = [wraps EXCEPT ![c][d] = kind]
      BY <1>2 DEF Opened
    <3>2. txs \in [DB -> SUBSET Ctx] /\ wraps \in [Ctx -> [DB -> {"none", "read", "write"}]]
      BY DEF TypeOK
    <3> QED BY <3>1, <3>2
  <2>2. ASSUME NEW w \in Ctx, NEW e \in DB, w \in txs'[e], wraps'[w][e] = "none"
        PROVE  w \in txs[e] /\ wraps[w][e] = "none"
    BY <2>1, <2>2
  <2>3. LeftOpen' \subseteq LeftOpen
    BY <2>2 DEF LeftOpen
  <2> QED BY <1>2, <2>3, NoMoreOpen DEF TypeOK
<1>3. ASSUME NEW c \in Ctx, NEW d \in DB, NEW checkpoint \in BOOLEAN, EndTx(c, d, checkpoint)
      PROVE  LeftOpenInv'
  <2>1. \A e \in DB : txs'[e] = IF e = d THEN txs[e] \ {c} ELSE txs[e]
    BY <1>3 DEF EndTx, removeTx, TypeOK
  <2>2. \A w \in Ctx, e \in DB :
            wraps'[w][e] = IF w = c /\ e = d THEN "none" ELSE wraps[w][e]
    BY <1>3 DEF EndTx, Forget, TypeOK
  <2>3. ASSUME NEW w \in Ctx, NEW e \in DB, w \in txs'[e], wraps'[w][e] = "none"
        PROVE  w \in txs[e] /\ wraps[w][e] = "none"
    BY <2>1, <2>2, <2>3
  <2>4. LeftOpen' \subseteq LeftOpen
    BY <2>3 DEF LeftOpen
  <2> QED BY <1>3, <2>4, NoMoreOpen DEF EndTx, TypeOK
<1>4. ASSUME NEW c \in Ctx, NEW d \in DB, CommitFails(c, d) PROVE LeftOpenInv'
  <2>1. txs' = txs /\ faults' = faults + 1
        /\ \A w \in Ctx, e \in DB :
               wraps'[w][e] = IF w = c /\ e = d THEN "none" ELSE wraps[w][e]
    BY <1>4 DEF CommitFails, Forget, rbfVars, TypeOK
  <2>2. LeftOpen' \subseteq LeftOpen \cup {<<c, d>>}
    BY <2>1 DEF LeftOpen
  <2>3. /\ IsFiniteSet(LeftOpen \cup {<<c, d>>})
        /\ Cardinality(LeftOpen \cup {<<c, d>>}) <= Cardinality(LeftOpen) + 1
    <3>1. IsFiniteSet(LeftOpen) /\ Cardinality(LeftOpen) \in Nat
      BY FS_CardinalityType DEF LeftOpenInv
    <3>2. /\ IsFiniteSet(LeftOpen \cup {<<c, d>>})
          /\ \/ Cardinality(LeftOpen \cup {<<c, d>>}) = Cardinality(LeftOpen)
             \/ Cardinality(LeftOpen \cup {<<c, d>>}) = Cardinality(LeftOpen) + 1
      BY <3>1, FS_AddElement
    <3> QED BY <3>1, <3>2
  <2>4. IsFiniteSet(LeftOpen')
        /\ Cardinality(LeftOpen') <= Cardinality(LeftOpen \cup {<<c, d>>})
    BY <2>2, <2>3, FS_Subset
  <2>5. Cardinality(LeftOpen') \in Nat /\ Cardinality(LeftOpen) \in Nat
        /\ Cardinality(LeftOpen \cup {<<c, d>>}) \in Nat
    BY <2>3, <2>4, FS_CardinalityType DEF LeftOpenInv
  <2> QED BY <2>1, <2>3, <2>4, <2>5 DEF LeftOpenInv, NoneLeftOpen, TypeOK
<1>5. ASSUME NEW c \in Ctx, NewQueryContext(c) \/ Commit(c) \/ Release(c) PROVE LeftOpenInv'
  BY <1>1, <1>5 DEF NewQueryContext, Commit, Release, rbfVars
<1>6. ASSUME NEW c \in Ctx, NEW q, AdmitWriter(c, q) PROVE LeftOpenInv'
  BY <1>1, <1>6 DEF AdmitWriter, rbfVars
<1>7. ASSUME NEW c \in Ctx, NEW d \in DB, readTx(c, d) PROVE LeftOpenInv'
  <2>1. UNCHANGED faults /\ (UNCHANGED <<txs, wraps>> \/ Opened(c, d, "read"))
    BY <1>7 DEF readTx
  <2> QED BY <1>1, <1>2, <2>1
<1>8. ASSUME NEW c \in Ctx, NEW d \in DB, writeTx(c, d) PROVE LeftOpenInv'
  BY <1>1, <1>8 DEF writeTx, rbfVars
<1>9. ASSUME NEW c \in Ctx, BeginWrite(c) PROVE LeftOpenInv'
  <2>1. Opened(c, want[c], "write") /\ UNCHANGED faults
    BY <1>9 DEF BeginWrite
  <2>2. CASE want[c] \in DB
    BY <1>2, <2>1, <2>2
  <2>3. CASE want[c] \notin DB
    <3>1. UNCHANGED <<txs, wraps>>
      BY <2>1, <2>3 DEF Opened, TypeOK
    <3> QED BY <1>1, <2>1, <3>1
  <2> QED BY <2>2, <2>3
<1>10. ASSUME NEW c \in Ctx, BeginFails(c) \/ EndContext(c) PROVE LeftOpenInv'
  BY <1>1, <1>10 DEF BeginFails, EndContext, rbfVars
<1>11. ASSUME NEW d \in DB, CheckpointStep(d) \/ CheckpointFails(d) \/ CloseDB(d)
       PROVE  LeftOpenInv'
  BY <1>1, <1>11 DEF CheckpointStep, CheckpointFails, CloseDB, ctxVars, rbfVars
<1>12. CASE Close \/ UNCHANGED vars
  BY <1>1, <1>12 DEF Close, ctxVars, rbfVars, vars
<1>13. ASSUME NEW c \in Ctx, Step(c) PROVE LeftOpenInv'
  BY <1>3, <1>4, <1>9, <1>10, <1>13 DEF Step
<1>14. CASE Progress
  BY <1>5, <1>6, <1>11, <1>13, <1>14 DEF Progress, Woken
<1>15. CASE Next
  BY <1>5, <1>6, <1>7, <1>8, <1>11, <1>12, <1>14, <1>15 DEF Next, NewWriteQueryContext
<1> QED BY <1>12, <1>15

\* However contexts end, Commit or Release, there are no more rbf transactions
\* without a wrapper than there were I/O errors: a commit that fails leaves one.
THEOREM NoneLeftOpenHolds == Spec => []NoneLeftOpen
<1>1. Init => TypeOK /\ LeftOpenInv
  <2> SUFFICES ASSUME Init PROVE LeftOpenInv
    BY TypeInit
  <2>1. LeftOpen = {} /\ faults = 0
    BY DEF Init, LeftOpen
  <2> QED BY <2>1, FS_EmptySet DEF LeftOpenInv, NoneLeftOpen
<1>2. TypeOK /\ LeftOpenInv /\ [Next]_vars => TypeOK' /\ LeftOpenInv'
  BY TypeNext, LeftOpenNext
<1>3. LeftOpenInv => NoneLeftOpen
  BY DEF LeftOpenInv
<1> QED BY <1>1, <1>2, <1>3, PTL DEF Spec
=============================================================================
