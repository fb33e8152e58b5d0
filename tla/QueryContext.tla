---------------------------- MODULE QueryContext ----------------------------
(***************************************************************************)
(* Query contexts over many RBF databases (querycontext/rbf.go): a context *)
(* that writes registers the scope of its writes and waits in writeQueue   *)
(* until no admitted context may write the same; then it opens one rbf     *)
(* transaction per database it touches and ends them all at once.          *)
(*                                                                         *)
(* Scopes are those of flexibleKeySplitter, of which the other two key     *)
(* splitters are special cases.  A database is reduced to its writer lock, *)
(* its transactions and the checkpoint that a writer may leave behind      *)
(* (module RbfDB has the rest).  A context is used by one goroutine at a   *)
(* time, which its own mutex sees to, and not after it has ended.          *)
(***************************************************************************)
EXTENDS Integers, FiniteSets

CONSTANTS Ctx,           \* query contexts
          Index, Field, Shard,
          SplitIndexes,  \* indexes with a database for every field
          Scopes,        \* scopes that writers ask for
          Fragments,     \* fragments <<index, field, shard>> that clients touch
          MaxFault,      \* bound on I/O errors
          Free, Checkpointer, Closer   \* holders of locks that are no contexts

(***************************************************************************)
(* Scopes                                                                  *)
(***************************************************************************)
shardList == [all : BOOLEAN, any : SUBSET Shard]
NoShards == [all |-> FALSE, any |-> {}]
AllShards == [all |-> TRUE, any |-> {}]

indexScope == [all : shardList, any : UNION {[F -> shardList] : F \in SUBSET Field}]
NoFields == [f \in {} |-> NoShards]

flexibleQueryScope ==
    [all : BOOLEAN, indexes : UNION {[I -> indexScope] : I \in SUBSET Index}]

ASSUME ScopesAssumption ==
    /\ Scopes \subseteq flexibleQueryScope
    /\ SplitIndexes \subseteq Index
    /\ Fragments \subseteq Index \X Field \X Shard

\* Reading a Go map: what is not there is a zero value.
At(m, k, zero) == IF k \in DOMAIN m THEN m[k] ELSE zero
Set(m, k, v) == [x \in DOMAIN m \cup {k} |-> IF x = k THEN v ELSE m[x]]

Scope == [all |-> FALSE, indexes |-> [i \in {} |-> [all |-> NoShards, any |-> NoFields]]]

AddAll(q) == [q EXCEPT !.all = TRUE]

AddIndex(q, i) ==
    IF q.all THEN q
    ELSE [q EXCEPT !.indexes = Set(@, i, [all |-> AllShards, any |-> NoFields])]

AddShards(sl, shards) == IF sl.all THEN sl ELSE [sl EXCEPT !.any = @ \cup shards]

AddIndexShards(q, i, shards) ==
    LET old == At(q.indexes, i, [all |-> NoShards, any |-> NoFields])
    IN  IF q.all THEN q
        ELSE [q EXCEPT !.indexes = Set(@, i, [old EXCEPT !.all = AddShards(@, shards)])]

AddFieldList(q, i, f, sl) ==
    LET old == At(q.indexes, i, [all |-> NoShards, any |-> NoFields])
    IN  IF q.all THEN q
        ELSE IF old.all.all THEN [q EXCEPT !.indexes = Set(@, i, old)]
        ELSE [q EXCEPT !.indexes = Set(@, i, [old EXCEPT !.any = Set(@, f, sl)])]

AddField(q, i, f) ==
    IF i \notin SplitIndexes THEN AddIndex(q, i) ELSE AddFieldList(q, i, f, AllShards)

AddFieldShards(q, i, f, shards) ==
    LET old == At(q.indexes, i, [all |-> NoShards, any |-> NoFields])
    IN  IF i \notin SplitIndexes THEN AddIndexShards(q, i, shards)
        ELSE AddFieldList(q, i, f, AddShards(At(old.any, f, NoShards), shards))

shardAllowed(sl, s) == sl.all \/ s \in sl.any

Allowed(q, i, f, s) ==
    \/ q.all
    \/ /\ i \in DOMAIN q.indexes
       /\ \/ shardAllowed(q.indexes[i].all, s)
          \/ i \in SplitIndexes /\ shardAllowed(At(q.indexes[i].any, f, NoShards), s)

shardOverlap(a, b) == a.all \/ b.all \/ a.any \cap b.any # {}

indexOverlap(a, b) ==
    \/ shardOverlap(a.all, b.all)
    \/ \E f \in DOMAIN b.any : shardOverlap(a.all, b.any[f])
    \/ \E f \in DOMAIN a.any : \/ shardOverlap(b.all, a.any[f])
                               \/ shardOverlap(At(b.any, f, NoShards), a.any[f])

\* Mutant: a scope of everything is only looked for on one side.
OverlapOneSided(a, b) ==
    \/ a.all /\ DOMAIN b.indexes # {}
    \/ \E i \in DOMAIN a.indexes \cap DOMAIN b.indexes :
           indexOverlap(a.indexes[i], b.indexes[i])

\* Two scopes of everything do not overlap, says the code.
Overlap(a, b) ==
    \/ a.all /\ DOMAIN b.indexes # {}
    \/ b.all /\ DOMAIN a.indexes # {}
    \/ \E i \in DOMAIN a.indexes \cap DOMAIN b.indexes :
           indexOverlap(a.indexes[i], b.indexes[i])

keys(i, f, s) == IF i \in SplitIndexes THEN <<i, f, s>> ELSE <<i, s>>

DB == {keys(x[1], x[2], x[3]) : x \in Fragments}

MayWrite(q, d) ==
    \E x \in Fragments : keys(x[1], x[2], x[3]) = d /\ Allowed(q, x[1], x[2], x[3])
-----------------------------------------------------------------------------
VARIABLES
    mu,           \* rbfTxStore.mu: who holds it across a wait
    closed,       \* the store was closed
    dbs,          \* databases in rbfTxStore.dbs
    queries,      \* rbfTxStore.queries
    writeScopes,  \* contexts in rbfTxStore.writeScopes
    st,           \* where each context is
    scope,        \* its QueryScope; the empty one for a reader
    want,         \* the database whose transaction it is opening
    wraps,        \* its rbfTxWrappers: database -> "none", "read" or "write"
    dbMu,         \* rbfDBQueryContexts.mu
    lockCheck,    \* rbfDBQueryContexts.lockCheck is locked
    lockingError, \* pairs: "tried for write Tx when it was already held"
    txs,          \* open rbf transactions of a database, by context
    rwmu,         \* the writer lock of a database
    ckpt,         \* the checkpoint that keeps it: "no", "copy", "reset"
    waitingOn,    \* transactions that the checkpoint waits for
    isDead,       \* the database refuses transactions
    faults        \* I/O errors so far

rbfVars == <<txs, rwmu, ckpt, waitingOn, isDead>>
storeVars == <<closed, dbs, queries, writeScopes>>
ctxVars == <<st, scope, want, wraps>>
lockVars == <<mu, dbMu, lockCheck, lockingError>>
vars == <<mu, closed, dbs, queries, writeScopes, st, scope, want, wraps,
          dbMu, lockCheck, lockingError, txs, rwmu, ckpt, waitingOn, isDead, faults>>

Init ==
    /\ mu = Free /\ closed = FALSE /\ dbs = {} /\ queries = {} /\ writeScopes = {}
    /\ st = [c \in Ctx |-> "none"]
    /\ scope = [c \in Ctx |-> Scope]
    /\ want = [c \in Ctx |-> << >>]
    /\ wraps = [c \in Ctx |-> [d \in DB |-> "none"]]
    /\ dbMu = [d \in DB |-> Free]
    /\ lockCheck = [d \in DB |-> FALSE]
    /\ lockingError = {}
    /\ txs = [d \in DB |-> {}]
    /\ rwmu = [d \in DB |-> Free]
    /\ ckpt = [d \in DB |-> "no"]
    /\ waitingOn = [d \in DB |-> {}]
    /\ isDead = [d \in DB |-> FALSE]
    /\ faults = 0

-----------------------------------------------------------------------------
(***************************************************************************)
(* Admission.  The store's mutex is held across a wait only while a        *)
(* transaction begins and while Close waits for databases.                 *)
(***************************************************************************)
Admit(c) ==
    /\ st' = [st EXCEPT ![c] = "live"]
    /\ queries' = queries \cup {c}

NewQueryContext(c) ==
    /\ st[c] = "none" /\ mu = Free /\ ~closed
    /\ Admit(c)
    /\ UNCHANGED <<closed, dbs, writeScopes, scope, want, wraps,
                   lockVars, rbfVars, faults>>

writeBlocked(q) == \E w \in writeScopes : Overlap(scope[w], q)

AdmitWriter(c, q) ==
    /\ IF writeBlocked(q)
       THEN st' = [st EXCEPT ![c] = "waiting"] /\ UNCHANGED <<queries, writeScopes>>
       ELSE Admit(c) /\ writeScopes' = writeScopes \cup {c}
    /\ scope' = [scope EXCEPT ![c] = q]
    /\ UNCHANGED <<closed, dbs, want, wraps, lockVars, rbfVars, faults>>

NewWriteQueryContext(c, q) ==
    /\ st[c] = "none" /\ mu = Free /\ ~closed
    /\ AdmitWriter(c, q)

\* writeQueue.Wait returns with the mutex; closed is not looked at again.
Woken(c) ==
    /\ st[c] = "woken" /\ mu = Free
    /\ AdmitWriter(c, scope[c])

(***************************************************************************)
(* NewRead and NewWrite of a fragment whose database the context has not   *)
(* opened: store mutex, database mutex, rbf's Begin.  Whoever holds a      *)
(* database mutex across a wait holds the store's as well, so that taking  *)
(* both is one step.                                                       *)
(***************************************************************************)
TakeDB(c, d) ==
    /\ st[c] = "live" /\ wraps[c][d] = "none" /\ mu = Free /\ dbMu[d] = Free
    /\ dbs' = dbs \cup {d}                                   \* getDB

\* A read in the scope opens the database for writing too: a write may follow.
TxKind(c, d) == IF MayWrite(scope[c], d) THEN "write" ELSE "read"

\* NewRead or NewWrite returns; a caller that gets an error releases the context.
Returns(c, next) ==
    /\ st' = [st EXCEPT ![c] = next]
    /\ want' = [want EXCEPT ![c] = << >>]
    /\ mu' = Free

Opened(c, d, kind) ==
    /\ txs' = [txs EXCEPT ![d] = @ \cup {c}]
    /\ wraps' = [wraps EXCEPT ![c][d] = kind]
    /\ Returns(c, "live")

readTx(c, d) ==
    /\ TakeDB(c, d) /\ TxKind(c, d) = "read"
    /\ IF isDead[d] THEN Returns(c, "releasing") /\ UNCHANGED <<txs, wraps>>
       ELSE Opened(c, d, "read")
    /\ UNCHANGED <<closed, queries, writeScopes, scope, dbMu, lockCheck, lockingError,
                   rwmu, ckpt, waitingOn, isDead, faults>>

writeTx(c, d) ==
    /\ TakeDB(c, d) /\ TxKind(c, d) = "write"
    /\ IF lockCheck[d]
       THEN /\ lockingError' = lockingError \cup {<<c, d>>}
            /\ Returns(c, "releasing")
            /\ UNCHANGED <<lockCheck, dbMu>>
       ELSE /\ lockCheck' = [lockCheck EXCEPT ![d] = TRUE]
            /\ mu' = c
            /\ dbMu' = [dbMu EXCEPT ![d] = c]
            /\ want' = [want EXCEPT ![c] = d]
            /\ st' = [st EXCEPT ![c] = "begin"]
            /\ UNCHANGED lockingError
    /\ UNCHANGED <<closed, queries, writeScopes, scope, wraps, rbfVars, faults>>

\* Begin(true), with both mutexes held until the writer lock is free.
BeginWrite(c) ==
    LET d == want[c]
    IN  /\ st[c] = "begin" /\ rwmu[d] = Free /\ ~isDead[d]
        /\ rwmu' = [rwmu EXCEPT ![d] = c]
        /\ dbMu' = [dbMu EXCEPT ![d] = Free]
        /\ Opened(c, d, "write")
        /\ UNCHANGED <<scope, storeVars, lockCheck, lockingError,
                       ckpt, waitingOn, isDead, faults>>

\* Begin's error; writeTx leaves lockCheck locked.
BeginFails(c) ==
    LET d == want[c]
    IN  /\ st[c] = "begin" /\ rwmu[d] = Free /\ isDead[d]
        /\ dbMu' = [dbMu EXCEPT ![d] = Free]
        /\ Returns(c, "releasing")
        /\ UNCHANGED <<scope, wraps, storeVars, lockCheck, lockingError, rbfVars, faults>>

(***************************************************************************)
(* Commit and Release: one database after the other, then the store.       *)
(***************************************************************************)
Commit(c) ==
    /\ st[c] = "live"
    /\ st' = [st EXCEPT ![c] = "committing"]
    /\ UNCHANGED <<scope, want, wraps, storeVars, lockVars, rbfVars, faults>>

\* Release, or a Commit that finds that Error was called or the caller cancelled.
Release(c) ==
    /\ st[c] = "live"
    /\ st' = [st EXCEPT ![c] = "releasing"]
    /\ UNCHANGED <<scope, want, wraps, storeVars, lockVars, rbfVars, faults>>

\* Mutant: only a writing transaction is rolled back.
removeTxOfWriter(c, d, checkpoint) ==
    /\ txs' = [txs EXCEPT ![d] = IF rwmu[d] = c THEN @ \ {c} ELSE @]
    /\ ~checkpoint
    /\ rwmu' = [rwmu EXCEPT ![d] = IF @ = c THEN Free ELSE @]
    /\ UNCHANGED <<ckpt, waitingOn, isDead>>

\* removeTx of rbf: a writer gives its lock up, or leaves it to a checkpoint that
\* waits for the transactions that are open now.
removeTx(c, d, checkpoint) ==
    LET rest == txs[d] \ {c}
    IN  /\ txs' = [txs EXCEPT ![d] = rest]
        /\ checkpoint => rwmu[d] = c
        /\ rwmu' = [rwmu EXCEPT ![d] = IF @ # c THEN @
                                       ELSE IF checkpoint THEN Checkpointer ELSE Free]
        /\ ckpt' = [ckpt EXCEPT ![d] = IF checkpoint THEN "copy" ELSE @]
        /\ waitingOn' = [waitingOn EXCEPT ![d] = IF checkpoint THEN rest ELSE @ \ {c}]
        /\ UNCHANGED isDead

\* Mutant: lockCheck stays locked after a commit.
ForgetLocked(c, d) ==
    /\ wraps' = [wraps EXCEPT ![c][d] = "none"]
    /\ lockCheck' = [lockCheck EXCEPT ![d] = @ /\ st[c] = "committing"]
    /\ UNCHANGED <<scope, want, storeVars, mu, dbMu, lockingError>>

\* The wrapper of c in d is forgotten.
Forget(c, d) ==
    /\ wraps' = [wraps EXCEPT ![c][d] = "none"]
    /\ lockCheck' = [lockCheck EXCEPT ![d] = @ /\ wraps[c][d] # "write"]
    /\ UNCHANGED <<scope, want, storeVars, mu, dbMu, lockingError>>

\* Commit of a writing transaction, Rollback of any other.
EndTx(c, d, checkpoint) ==
    /\ st[c] \in {"committing", "releasing"} /\ wraps[c][d] # "none" /\ dbMu[d] = Free
    /\ removeTx(c, d, checkpoint)
    /\ Forget(c, d)
    /\ UNCHANGED <<st, faults>>

\* rbf's Commit fails and nobody rolls its transaction back; the transactions
\* that are left are rolled back.
CommitFails(c, d) ==
    /\ st[c] = "committing" /\ wraps[c][d] = "write" /\ dbMu[d] = Free
    /\ faults < MaxFault
    /\ faults' = faults + 1
    /\ st' = [st EXCEPT ![c] = "releasing"]
    /\ Forget(c, d)
    /\ UNCHANGED <<rbfVars>>

\* Mutant: nobody is woken.
ReleasedQuietly(c) == st' = [st EXCEPT ![c] = "done"]

\* The context is done; a writer's end wakes all that wait.
Released(c) ==
    st' = [w \in Ctx |-> IF w = c THEN "done"
                         ELSE IF c \in writeScopes /\ st[w] = "waiting" THEN "woken"
                         ELSE st[w]]

EndContext(c) ==
    /\ st[c] \in {"committing", "releasing"} /\ mu = Free
    /\ \A d \in DB : wraps[c][d] = "none"
    /\ Released(c)
    /\ writeScopes' = writeScopes \ {c}
    /\ queries' = queries \ {c}
    /\ scope' = [scope EXCEPT ![c] = Scope]
    /\ UNCHANGED <<closed, dbs, want, wraps, lockVars, rbfVars, faults>>

(***************************************************************************)
(* rbf: checkpoints.  They copy when the transactions of then have ended,  *)
(* and wait again before they cut the WAL off and unlock.                  *)
(***************************************************************************)
CheckpointStep(d) ==
    /\ ckpt[d] # "no" /\ waitingOn[d] = {}
    /\ IF ckpt[d] = "copy"
       THEN /\ ckpt' = [ckpt EXCEPT ![d] = "reset"]
            /\ waitingOn' = [waitingOn EXCEPT ![d] = txs[d]]
            /\ UNCHANGED rwmu
       ELSE /\ ckpt' = [ckpt EXCEPT ![d] = "no"]
            /\ rwmu' = [rwmu EXCEPT ![d] = Free]
            /\ UNCHANGED waitingOn
    /\ UNCHANGED <<txs, isDead, storeVars, ctxVars, lockVars, faults>>

CheckpointFails(d) ==
    /\ ckpt[d] = "copy" /\ waitingOn[d] = {} /\ faults < MaxFault
    /\ faults' = faults + 1
    /\ isDead' = [isDead EXCEPT ![d] = TRUE]
    /\ ckpt' = [ckpt EXCEPT ![d] = "no"]
    /\ rwmu' = [rwmu EXCEPT ![d] = Free]
    /\ UNCHANGED <<txs, waitingOn, storeVars, ctxVars, lockVars>>

NoneOutstanding == queries = {}

\* Close of the store, which closes one database after the other; rbf's Close
\* waits for transactions and checkpoints.
Close ==
    /\ mu = Free /\ ~closed /\ NoneOutstanding
    /\ closed' = TRUE
    /\ mu' = IF dbs = {} THEN Free ELSE Closer
    /\ UNCHANGED <<dbs, queries, writeScopes, ctxVars, dbMu, lockCheck, lockingError,
                   rbfVars, faults>>

CloseDB(d) ==
    /\ mu = Closer /\ d \in dbs /\ txs[d] = {} /\ ckpt[d] = "no"
    /\ dbs' = dbs \ {d}
    /\ mu' = IF dbs = {d} THEN Free ELSE Closer
    /\ UNCHANGED <<closed, queries, writeScopes, ctxVars, dbMu, lockCheck, lockingError,
                   rbfVars, faults>>

-----------------------------------------------------------------------------
Step(c) ==
    \/ BeginWrite(c) \/ BeginFails(c)
    \/ \E d \in DB, checkpoint \in BOOLEAN : EndTx(c, d, checkpoint)
    \/ \E d \in DB : CommitFails(c, d)
    \/ EndContext(c)

Progress ==
    \/ \E c \in Ctx : Step(c) \/ Woken(c) \/ Release(c)
    \/ \E d \in DB : CheckpointStep(d) \/ CloseDB(d)

Next ==
    \/ \E c \in Ctx :
           \/ NewQueryContext(c) \/ (\E q \in Scopes : NewWriteQueryContext(c, q))
           \/ Commit(c)
           \/ \E d \in DB : readTx(c, d) \/ writeTx(c, d)
    \/ Progress
    \/ \E d \in DB : CheckpointFails(d)
    \/ Close

Spec == Init /\ [][Next]_vars

\* Goroutines are scheduled and whoever has a context releases it in the end.  A
\* context takes finitely many steps, so it is enough that they do not all stop.
FairSpec == Spec /\ WF_vars(Progress)

-----------------------------------------------------------------------------

\* Two admitted writers never may write the same database, whatever mixture of
\* indexes, fields and shards their scopes were made of, unless both asked for
\* everything: two scopes of AddAll do not overlap (Overlap,
\* query_context.go:569), although the interface says that a scope overlaps
\* another when there is anything both could write (195-198).  Without the
\* exception TLC shows two of them admitted together.
WritersDisjoint ==
    \A c, w \in writeScopes : c # w =>
        \/ scope[c].all /\ scope[w].all
        \/ \A d \in DB : ~(MayWrite(scope[c], d) /\ MayWrite(scope[w], d))

\* "it's actually just plain an error for us to not get the lock inside here"
\* (writeTx): who is refused the write transaction of a database was refused it
\* because that database is dead (a failed Begin leaves lockCheck locked), or
\* asked for everything next to another that did.
NoLockingError ==
    [][\A x \in lockingError' \ lockingError :
           \/ isDead[x[2]]
           \/ /\ scope[x[1]].all
              /\ \E w \in writeScopes \ {x[1]} : scope[w].all]_vars

\* Transactions that rbf has open and that no wrapper of a context leads to.
LeftOpen == {x \in Ctx \X DB : x[1] \in txs[x[2]] /\ wraps[x[1]][x[2]] = "none"}

\* A transaction ends with its context: one that is left open belongs to a
\* context that is under way, or to a commit that failed.
NoneLeftOpen == Cardinality(LeftOpen) <= faults

\* Somebody waits for a database's writer lock or for its transactions, with the
\* store's mutex held, and what it waits for needs that mutex, or a mutex it
\* holds, to end; or it never ends.
Wedged ==
    \/ \E c \in Ctx : st[c] = "begin" /\ \/ rwmu[want[c]] \in Ctx
                                         \/ waitingOn[want[c]] # {}
    \/ mu = Closer /\ \E d \in dbs : txs[d] # {}

InFlight(c) == st[c] \notin {"none", "live", "done"}

\* Unless the store gets wedged as above, no call of a context waits for ever,
\* for admission least of all.
CallsReturn == []~Wedged => \A c \in Ctx : InFlight(c) ~> ~InFlight(c)

=============================================================================
