--------------------------- MODULE TaskPool_proofs ---------------------------
(***************************************************************************)
(* The counters of the pool are exact and blocking never leaves fewer than *)
(* TargetN runnable workers, for every number of goroutines and callers.   *)
(***************************************************************************)
EXTENDS TaskPool, FiniteSetTheorems, TLAPS

\* Who holds p.mu is in Block, between its decrement and its return.
MutexInv == \A g \in Goroutine : pc[g] \in {"block", "spawn"} <=> mu = g

\* Unless the pool is shut down, a worker that is about to swap saw one too many;
\* so unblocked goes below TargetN only in Block, which then adds a worker.
RetireInv == targetN # 0 => \A w \in Worker : pc[w] = "swap" => seen[w] > TargetN

ReserveInv ==
    targetN # 0 =>
        /\ unblocked >= TargetN - 1
        /\ mu = NoOne => unblocked >= TargetN
        /\ \A g \in Goroutine :
             pc[g] = "block" /\ seen[g] >= TargetN => unblocked >= TargetN

\* Close waits only while somebody is alive who will broadcast.
WaitInv == closing = "waiting" => live > 0

PoolInv ==
    /\ TypeOK
    /\ CountsAgree
    /\ MutexInv
    /\ RetireInv
    /\ ReserveInv
    /\ WaitInv

-----------------------------------------------------------------------------
\* The sets that are counted are finite.
LEMMA FiniteCounts ==
    /\ IsFiniteSet(Live) /\ Cardinality(Live) \in Nat
    /\ IsFiniteSet(Running) /\ Cardinality(Running) \in Nat
    /\ IsFiniteSet(BlockedCaller) /\ Cardinality(BlockedCaller) \in Nat
<1>1. IsFiniteSet(Worker) /\ IsFiniteSet(Caller)
  BY PoolAssumption
<1>2. Live \subseteq Worker /\ Running \subseteq Worker /\ BlockedCaller \subseteq Caller
  BY DEF Live, Running, BlockedCaller
<1>3. IsFiniteSet(Live) /\ IsFiniteSet(Running) /\ IsFiniteSet(BlockedCaller)
  BY <1>1, <1>2, FS_Subset
<1> QED
  BY <1>3, FS_CardinalityType

\* An element more is one more.
LEMMA OneMore ==
    ASSUME NEW S, IsFiniteSet(S), NEW T, NEW x, x \notin S, T = S \cup {x}
    PROVE  Cardinality(T) = Cardinality(S) + 1
BY FS_AddElement

\* An element less is one less.
LEMMA OneLess ==
    ASSUME NEW S, IsFiniteSet(S), NEW T, NEW x, x \in S, T = S \ {x}
    PROVE  Cardinality(T) = Cardinality(S) - 1
BY FS_RemoveElement, FS_CardinalityType

-----------------------------------------------------------------------------
\* The invariant holds when NewPool returns.
LEMMA PoolInvInit == Init => PoolInv
<1> SUFFICES ASSUME Init PROVE PoolInv
  OBVIOUS
<1>1. PICK S \in SUBSET Worker :
        /\ Cardinality(S) = TargetN
        /\ pc = [g \in Goroutine |-> IF g \in S THEN "load"
                                     ELSE IF g \in Worker THEN "free" ELSE "idle"]
  BY DEF Init
<1>2. Live = S /\ Running = S /\ BlockedCaller = {}
  BY <1>1, PoolAssumption DEF Live, Running, BlockedCaller, Goroutine, RunningPC, BlockingPC
<1>3. Cardinality(BlockedCaller) = 0
  BY <1>2, FS_EmptySet
<1>4. TargetN \in Nat
  BY PoolAssumption, FS_CardinalityType
<1>5. TypeOK
  BY <1>1, <1>4, PoolAssumption DEF TypeOK, Init, Goroutine, RunningPC, BlockingPC
<1>6. CountsAgree
  BY <1>1, <1>2, <1>3, <1>4 DEF CountsAgree, Init
<1>7. MutexInv /\ RetireInv
  BY <1>1, PoolAssumption DEF MutexInv, RetireInv, Init, Goroutine
<1>8. ReserveInv /\ WaitInv
  BY <1>1, <1>4 DEF ReserveInv, WaitInv, Init, Goroutine
<1> QED
  BY <1>5, <1>6, <1>7, <1>8 DEF PoolInv

\* Every step of every goroutine keeps the types.
LEMMA TypeOKNext == PoolInv /\ [Next]_vars => TypeOK'
<1> SUFFICES ASSUME PoolInv, [Next]_vars PROVE TypeOK'
  OBVIOUS
<1> USE PoolAssumption DEF PoolInv, TypeOK, Goroutine, RunningPC, BlockingPC
<1>0. TargetN \in Nat
  BY FS_CardinalityType
<1>1. ASSUME NEW w \in Worker, LoadUnblocked(w) PROVE TypeOK'
  BY <1>1 DEF LoadUnblocked
<1>2. ASSUME NEW w \in Worker, LoadTarget(w) PROVE TypeOK'
  BY <1>2 DEF LoadTarget, Forget
<1>3. ASSUME NEW w \in Worker, Retire(w) PROVE TypeOK'
  BY <1>3 DEF Retire, Forget
<1>4. ASSUME NEW w \in Worker, Exit(w) PROVE TypeOK'
  <2>1. w \in Live
    BY <1>4 DEF Exit, Live
  <2>2. live > 0
    BY <2>1, FiniteCounts, FS_EmptySet DEF CountsAgree
  <2> QED
    BY <1>4, <2>2 DEF Exit
<1>5. ASSUME NEW w \in Worker, StepEnds(w) PROVE TypeOK'
  BY <1>5 DEF StepEnds
<1>6. ASSUME NEW g \in Goroutine, Block(g) PROVE TypeOK'
  BY <1>6 DEF Block, MayBlock
<1>7. ASSUME NEW g \in Goroutine, BlockTarget(g) PROVE TypeOK'
  BY <1>7 DEF BlockTarget, Forget
<1>8. ASSUME NEW g \in Goroutine, AddWorker(g) PROVE TypeOK'
  BY <1>8 DEF AddWorker
<1>9. ASSUME NEW g \in Goroutine, Unblock(g) PROVE TypeOK'
  BY <1>9 DEF Unblock
<1>10. ASSUME Shutdown \/ Close \/ CloseWakes \/ UNCHANGED vars PROVE TypeOK'
  BY <1>10, <1>0 DEF Shutdown, Close, CloseWakes, vars
<1> QED
  BY <1>1, <1>2, <1>3, <1>4, <1>5, <1>6, <1>7, <1>8, <1>9, <1>10
     DEF Next, WorkStep, BlockStep

\* Every step changes a counter exactly when it changes the set it counts.
LEMMA CountsAgreeNext == PoolInv /\ [Next]_vars => CountsAgree'
<1> SUFFICES ASSUME PoolInv, [Next]_vars PROVE CountsAgree'
  OBVIOUS
<1> USE PoolAssumption DEF PoolInv
<1>0. /\ unblocked \in Int /\ live \in Nat /\ CountsAgree
      /\ pc \in [Goroutine -> RunningPC \cup BlockingPC \cup {"free", "exit", "idle"}]
      /\ \A w \in Worker : w \in Goroutine /\ w \notin Caller
      /\ \A c \in Caller : c \in Goroutine /\ c \notin Worker
      /\ \A c \in Caller : pc[c] \in BlockingPC \cup {"idle"}
  BY DEF TypeOK, Goroutine
<1>s. ASSUME Live' = Live, Running' = Running, BlockedCaller' = BlockedCaller,
             live' = live, unblocked' = unblocked
      PROVE  CountsAgree'
  BY <1>0, <1>s DEF CountsAgree
<1>1. ASSUME NEW w \in Worker, LoadUnblocked(w) \/ StepEnds(w) PROVE CountsAgree'
  <2>1. /\ Live' = Live /\ Running' = Running /\ BlockedCaller' = BlockedCaller
        /\ live' = live /\ unblocked' = unblocked
    BY <1>1, <1>0 DEF LoadUnblocked, StepEnds, Live, Running, BlockedCaller, RunningPC, BlockingPC
  <2> QED
    BY <2>1, <1>s
<1>2. ASSUME NEW w \in Worker, LoadTarget(w) PROVE CountsAgree'
  <2>1. /\ Live' = Live /\ Running' = Running /\ BlockedCaller' = BlockedCaller
        /\ live' = live /\ unblocked' = unblocked
    BY <1>2, <1>0 DEF LoadTarget, Live, Running, BlockedCaller, RunningPC, BlockingPC
  <2> QED
    BY <2>1, <1>s
<1>3. ASSUME NEW w \in Worker, Retire(w), unblocked = seen[w] PROVE CountsAgree'
  <2>1. /\ Live' = Live /\ w \in Running /\ Running' = Running \ {w}
        /\ BlockedCaller' = BlockedCaller
        /\ live' = live /\ unblocked' = unblocked - 1
    BY <1>3, <1>0 DEF Retire, Live, Running, BlockedCaller, RunningPC, BlockingPC
  <2>2. Cardinality(Running') = Cardinality(Running) - 1
    BY <2>1, OneLess, FiniteCounts
  <2> QED
    BY <2>1, <2>2, <1>0, FiniteCounts DEF CountsAgree
<1>4. ASSUME NEW w \in Worker, Retire(w), unblocked # seen[w] PROVE CountsAgree'
  <2>1. /\ Live' = Live /\ Running' = Running /\ BlockedCaller' = BlockedCaller
        /\ live' = live /\ unblocked' = unblocked
    BY <1>4, <1>0 DEF Retire, Live, Running, BlockedCaller, RunningPC, BlockingPC
  <2> QED
    BY <2>1, <1>s
<1>5. ASSUME NEW w \in Worker, Exit(w) PROVE CountsAgree'
  <2>1. /\ w \in Live /\ Live' = Live \ {w} /\ Running' = Running
        /\ BlockedCaller' = BlockedCaller
        /\ live' = live - 1 /\ unblocked' = unblocked
    BY <1>5, <1>0 DEF Exit, Live, Running, BlockedCaller, RunningPC, BlockingPC
  <2>2. Cardinality(Live') = Cardinality(Live) - 1
    BY <2>1, OneLess, FiniteCounts
  <2> QED
    BY <2>1, <2>2, <1>0, FiniteCounts DEF CountsAgree
<1>6. ASSUME NEW g \in Worker, Block(g) PROVE CountsAgree'
  <2>1. /\ Live' = Live /\ g \in Running /\ Running' = Running \ {g}
        /\ BlockedCaller' = BlockedCaller
        /\ live' = live /\ unblocked' = unblocked - 1
    BY <1>6, <1>0 DEF Block, MayBlock, Live, Running, BlockedCaller, RunningPC, BlockingPC
  <2>2. Cardinality(Running') = Cardinality(Running) - 1
    BY <2>1, OneLess, FiniteCounts
  <2> QED
    BY <2>1, <2>2, <1>0, FiniteCounts DEF CountsAgree
<1>7. ASSUME NEW g \in Caller, Block(g) PROVE CountsAgree'
  <2>1. /\ Live' = Live /\ Running' = Running
        /\ g \notin BlockedCaller /\ BlockedCaller' = BlockedCaller \cup {g}
        /\ live' = live /\ unblocked' = unblocked - 1
    BY <1>7, <1>0 DEF Block, MayBlock, Live, Running, BlockedCaller, RunningPC, BlockingPC
  <2>2. Cardinality(BlockedCaller') = Cardinality(BlockedCaller) + 1
    BY <2>1, OneMore, FiniteCounts
  <2> QED
    BY <2>1, <2>2, <1>0, FiniteCounts DEF CountsAgree
<1>8. ASSUME NEW g \in Goroutine, BlockTarget(g) PROVE CountsAgree'
  <2>1. /\ Live' = Live /\ Running' = Running /\ BlockedCaller' = BlockedCaller
        /\ live' = live /\ unblocked' = unblocked
    BY <1>8, <1>0 DEF BlockTarget, Live, Running, BlockedCaller, RunningPC, BlockingPC
  <2> QED
    BY <2>1, <1>s
<1>9. ASSUME NEW g \in Goroutine, AddWorker(g) PROVE CountsAgree'
  <2>1. PICK w \in Worker : pc[w] = "free" /\ pc' = [pc EXCEPT ![g] = "blocked", ![w] = "load"]
    BY <1>9 DEF AddWorker
  <2>2. pc[g] = "spawn" /\ g # w /\ live' = live + 1 /\ unblocked' = unblocked + 1
    BY <1>9, <2>1 DEF AddWorker
  <2>3. \A x \in Goroutine : pc'[x] = IF x = g THEN "blocked" ELSE IF x = w THEN "load" ELSE pc[x]
    BY <2>1, <2>2, <1>0
  <2>4. w \notin Live /\ Live' = Live \cup {w}
    BY <2>1, <2>2, <2>3, <1>0 DEF Live
  <2>5. w \notin Running /\ Running' = Running \cup {w}
    BY <2>1, <2>2, <2>3, <1>0 DEF Running, RunningPC
  <2>6. BlockedCaller' = BlockedCaller
    BY <2>1, <2>2, <2>3, <1>0 DEF BlockedCaller, BlockingPC
  <2>7. /\ Cardinality(Live') = Cardinality(Live) + 1
        /\ Cardinality(Running') = Cardinality(Running) + 1
    BY <2>4, <2>5, OneMore, FiniteCounts
  <2> QED
    BY <2>2, <2>6, <2>7, <1>0, FiniteCounts DEF CountsAgree
<1>10. ASSUME NEW g \in Worker, Unblock(g) PROVE CountsAgree'
  <2>1. /\ Live' = Live /\ g \notin Running /\ Running' = Running \cup {g}
        /\ BlockedCaller' = BlockedCaller
        /\ live' = live /\ unblocked' = unblocked + 1
    BY <1>10, <1>0 DEF Unblock, Live, Running, BlockedCaller, RunningPC, BlockingPC
  <2>2. Cardinality(Running') = Cardinality(Running) + 1
    BY <2>1, OneMore, FiniteCounts
  <2> QED
    BY <2>1, <2>2, <1>0, FiniteCounts DEF CountsAgree
<1>11. ASSUME NEW g \in Caller, Unblock(g) PROVE CountsAgree'
  <2>1. /\ Live' = Live /\ Running' = Running
        /\ g \in BlockedCaller /\ BlockedCaller' = BlockedCaller \ {g}
        /\ live' = live /\ unblocked' = unblocked + 1
    BY <1>11, <1>0 DEF Unblock, Live, Running, BlockedCaller, RunningPC, BlockingPC
  <2>2. Cardinality(BlockedCaller') = Cardinality(BlockedCaller) - 1
    BY <2>1, OneLess, FiniteCounts
  <2> QED
    BY <2>1, <2>2, <1>0, FiniteCounts DEF CountsAgree
<1>12. ASSUME Shutdown \/ Close \/ CloseWakes \/ UNCHANGED vars PROVE CountsAgree'
  <2>1. /\ Live' = Live /\ Running' = Running /\ BlockedCaller' = BlockedCaller
        /\ live' = live /\ unblocked' = unblocked
    BY <1>12 DEF Shutdown, Close, CloseWakes, vars, Live, Running, BlockedCaller
  <2> QED
    BY <2>1, <1>s
<1> QED
  BY <1>1, <1>2, <1>3, <1>4, <1>5, <1>6, <1>7, <1>8, <1>9, <1>10, <1>11, <1>12
     DEF Next, WorkStep, BlockStep, Goroutine

\* Every step keeps the rest of the invariant.
LEMMA RestNext == PoolInv /\ [Next]_vars => MutexInv' /\ RetireInv' /\ ReserveInv' /\ WaitInv'
<1> SUFFICES ASSUME PoolInv, [Next]_vars PROVE MutexInv' /\ RetireInv' /\ ReserveInv' /\ WaitInv'
  OBVIOUS
<1> DEFINE Rest == MutexInv /\ RetireInv /\ ReserveInv /\ WaitInv
<1>0. /\ TargetN \in Nat /\ TargetN > 0
      /\ \A w \in Worker : w \in Goroutine /\ w # NoOne
      /\ \A g \in Goroutine : g # NoOne
  BY PoolAssumption, FS_CardinalityType DEF Goroutine
<1>00. TypeOK /\ MutexInv /\ RetireInv /\ ReserveInv /\ WaitInv
  BY DEF PoolInv
<1>t. /\ targetN \in {0, TargetN} /\ unblocked \in Int /\ live \in Nat
      /\ seen \in [Goroutine -> Int]
      /\ pc \in [Goroutine -> RunningPC \cup BlockingPC \cup {"free", "exit", "idle"}]
  BY <1>00 DEF TypeOK
<1>1. ASSUME NEW w \in Worker, LoadUnblocked(w) PROVE Rest'
  BY <1>0, <1>00, <1>t, <1>1 DEF LoadUnblocked, MutexInv, RetireInv, ReserveInv, WaitInv
<1>2. ASSUME NEW w \in Worker, LoadTarget(w) PROVE Rest'
  BY <1>0, <1>00, <1>t, <1>2 DEF LoadTarget, Forget, MutexInv, RetireInv, ReserveInv, WaitInv
<1>3. ASSUME NEW w \in Worker, Retire(w) PROVE Rest'
  BY <1>0, <1>00, <1>t, <1>3 DEF Retire, Forget, MutexInv, RetireInv, ReserveInv, WaitInv
<1>4. ASSUME NEW w \in Worker, Exit(w) PROVE Rest'
  <2>1. live' \in Nat
    BY TypeOKNext DEF TypeOK
  <2> QED
    BY <1>0, <1>00, <1>t, <1>4, <2>1 DEF Exit, MutexInv, RetireInv, ReserveInv, WaitInv
<1>5. ASSUME NEW w \in Worker, StepEnds(w) PROVE Rest'
  BY <1>0, <1>00, <1>t, <1>5 DEF StepEnds, MutexInv, RetireInv, ReserveInv, WaitInv
<1>6. ASSUME NEW g \in Goroutine, Block(g) PROVE Rest'
  BY <1>0, <1>00, <1>t, <1>6 DEF Block, MayBlock, MutexInv, RetireInv, ReserveInv, WaitInv
<1>7. ASSUME NEW g \in Goroutine, BlockTarget(g) PROVE Rest'
  BY <1>0, <1>00, <1>t, <1>7 DEF BlockTarget, Forget, MutexInv, RetireInv, ReserveInv, WaitInv
<1>8. ASSUME NEW g \in Goroutine, AddWorker(g) PROVE Rest'
  BY <1>0, <1>00, <1>t, <1>8 DEF AddWorker, MutexInv, RetireInv, ReserveInv, WaitInv
<1>9. ASSUME NEW g \in Goroutine, Unblock(g) PROVE Rest'
  BY <1>0, <1>00, <1>t, <1>9 DEF Unblock, MutexInv, RetireInv, ReserveInv, WaitInv
<1>10. ASSUME Shutdown \/ Close \/ CloseWakes \/ UNCHANGED vars PROVE Rest'
  BY <1>0, <1>00, <1>t, <1>10
     DEF Shutdown, Close, CloseWakes, vars, MutexInv, RetireInv, ReserveInv, WaitInv
<1> QED
  BY <1>1, <1>2, <1>3, <1>4, <1>5, <1>6, <1>7, <1>8, <1>9, <1>10
     DEF Next, WorkStep, BlockStep

\* The invariant is inductive.
LEMMA PoolInvHolds == Spec => []PoolInv
<1>1. PoolInv /\ [Next]_vars => PoolInv'
  BY TypeOKNext, CountsAgreeNext, RestNext DEF PoolInv
<1> QED
  BY <1>1, PoolInvInit, PTL DEF Spec

\* The state is always well typed.
THEOREM PoolTypeCorrect == Spec => []TypeOK
<1>1. PoolInv => TypeOK
  BY DEF PoolInv
<1> QED
  BY <1>1, PoolInvHolds, PTL

\* live and unblocked (pool.go) count exactly the goroutines they stand for at
\* every instant, for any number of workers, callers and interleavings.
THEOREM CountersAreExact == Spec => []CountsAgree
<1>1. PoolInv => CountsAgree
  BY DEF PoolInv
<1> QED
  BY <1>1, PoolInvHolds, PTL

\* Unless the pool is shut down, TargetN workers are not blocked whenever nobody is
\* inside Block: retiring workers never take more than the surplus.
THEOREM PoolNeverStalls == Spec => []EnoughWorkers
<1>1. PoolInv => EnoughWorkers
  <2> SUFFICES ASSUME PoolInv, targetN # 0, mu = NoOne PROVE Cardinality(Running) >= TargetN
    BY DEF EnoughWorkers
  <2>1. unblocked >= TargetN /\ unblocked \in Int
    BY DEF PoolInv, ReserveInv, TypeOK
  <2>2. TargetN \in Nat
    BY PoolAssumption, FS_CardinalityType
  <2> QED
    BY <2>1, <2>2, FiniteCounts DEF PoolInv, CountsAgree
<1> QED
  BY <1>1, PoolInvHolds, PTL

\* Close never waits for a broadcast that has already been sent: while it waits, a
\* worker is alive, and the last one to exit wakes it.
THEOREM CloseMissesNoWakeup == Spec => []CloseIsWoken
<1>1. PoolInv => CloseIsWoken
  BY FS_EmptySet DEF PoolInv, CloseIsWoken, WaitInv, CountsAgree, TypeOK
<1> QED
  BY <1>1, PoolInvHolds, PTL
=============================================================================
