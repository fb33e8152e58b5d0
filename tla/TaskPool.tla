------------------------------ MODULE TaskPool ------------------------------
(***************************************************************************)
(* The worker pool of the executor (task/pool.go): goroutines that run a   *)
(* step over and over.  A goroutine that is about to wait for a database   *)
(* lock calls Block, and a new worker takes its place; when it calls       *)
(* Unblock there may be one too many, and a worker that finds so retires.  *)
(* The counters are atomics that are also read and changed without p.mu:   *)
(* every atomic access is a step.                                          *)
(*                                                                         *)
(* Block is called from Qcx.GetTx, by workers and by goroutines that are   *)
(* no workers (imports), the callers.                                      *)
(***************************************************************************)
EXTENDS Integers, FiniteSets

CONSTANTS
    Worker,      \* goroutines that run Pool.work, bound: as many as can be alive
    Caller,      \* other goroutines that call Block and Unblock
    TargetN,     \* the argument of NewPool
    MaxCall,     \* bound: calls of Block by callers
    NoOne

ASSUME PoolAssumption ==
    /\ IsFiniteSet(Worker) /\ IsFiniteSet(Caller)
    /\ Worker \cap Caller = {} /\ NoOne \notin Worker \cup Caller
    /\ TargetN \in 1..Cardinality(Worker)
    /\ MaxCall \in Nat

VARIABLES
    targetN, unblocked, live,   \* the atomics
    mu,                         \* who holds p.mu
    pc,                         \* where each goroutine is
    seen,                       \* the value of unblocked it saw
    closing,                    \* "no", "waiting" (on p.cond), "woken" or "closed"
    calls

vars == <<targetN, unblocked, live, mu, pc, seen, closing, calls>>

Goroutine == Worker \cup Caller

\* Workers: "free" (no goroutine), "load", "target", "swap", "step", "exit".
\* Both, in and after Block: "block", "spawn", "blocked".  Callers: "idle".
RunningPC == {"load", "target", "swap", "step"}
BlockingPC == {"block", "spawn", "blocked"}

Running == {w \in Worker : pc[w] \in RunningPC}
Live == {w \in Worker : pc[w] # "free"}
BlockedCaller == {c \in Caller : pc[c] \in BlockingPC}

TypeOK ==
    /\ targetN \in {0, TargetN}
    /\ unblocked \in Int /\ live \in Nat
    /\ mu \in Goroutine \cup {NoOne}
    /\ pc \in [Goroutine -> RunningPC \cup BlockingPC \cup {"free", "exit", "idle"}]
    /\ \A w \in Worker : pc[w] # "idle"
    /\ \A c \in Caller : pc[c] \in BlockingPC \cup {"idle"}
    /\ seen \in [Goroutine -> Int]
    /\ closing \in {"no", "waiting", "woken", "closed"}
    /\ calls \in Nat

\* NewPool has added its workers.
Init ==
    /\ targetN = TargetN /\ unblocked = TargetN /\ live = TargetN
    /\ mu = NoOne
    /\ \E S \in SUBSET Worker :
         /\ Cardinality(S) = TargetN
         /\ pc = [g \in Goroutine |-> IF g \in S THEN "load"
                                      ELSE IF g \in Worker THEN "free" ELSE "idle"]
    /\ seen = [g \in Goroutine |-> 0]
    /\ closing = "no"
    /\ calls = 0

\* A local variable that is not used any more.
Forget(g) == seen' = [seen EXCEPT ![g] = 0]

-----------------------------------------------------------------------------
(* work: the loop of a worker *)

LoadUnblocked(w) ==
    /\ pc[w] = "load"
    /\ seen' = [seen EXCEPT ![w] = unblocked]
    /\ pc' = [pc EXCEPT ![w] = "target"]
    /\ UNCHANGED <<targetN, unblocked, live, mu, closing, calls>>

LoadTarget(w) ==
    /\ pc[w] = "target"
    /\ IF seen[w] > targetN
       THEN pc' = [pc EXCEPT ![w] = "swap"] /\ UNCHANGED seen
       ELSE pc' = [pc EXCEPT ![w] = "step"] /\ Forget(w)
    /\ UNCHANGED <<targetN, unblocked, live, mu, closing, calls>>

\* Mutant: the counter is decremented whatever it is now.
RetireBlindly(w) ==
    /\ pc[w] = "swap"
    /\ unblocked' = unblocked - 1
    /\ pc' = [pc EXCEPT ![w] = "exit"]
    /\ Forget(w)
    /\ UNCHANGED <<targetN, live, mu, closing, calls>>

\* CompareAndSwap: the worker takes itself out, or looks again.
Retire(w) ==
    /\ pc[w] = "swap"
    /\ IF unblocked = seen[w]
       THEN unblocked' = unblocked - 1 /\ pc' = [pc EXCEPT ![w] = "exit"]
       ELSE pc' = [pc EXCEPT ![w] = "load"] /\ UNCHANGED unblocked
    /\ Forget(w)
    /\ UNCHANGED <<targetN, live, mu, closing, calls>>

\* Mutant: the last worker tells nobody.
ExitSilently(w) ==
    /\ pc[w] = "exit" /\ mu = NoOne
    /\ live' = live - 1
    /\ pc' = [pc EXCEPT ![w] = "free"]
    /\ UNCHANGED <<targetN, unblocked, mu, seen, closing, calls>>

\* The deferred function, under p.mu; the last worker broadcasts on p.cond.
Exit(w) ==
    /\ pc[w] = "exit" /\ mu = NoOne
    /\ live' = live - 1
    /\ closing' = IF live' = 0 /\ closing = "waiting" THEN "woken" ELSE closing
    /\ pc' = [pc EXCEPT ![w] = "free"]
    /\ UNCHANGED <<targetN, unblocked, mu, seen, calls>>

StepEnds(w) ==
    /\ pc[w] = "step"
    /\ pc' = [pc EXCEPT ![w] = "load"]
    /\ UNCHANGED <<targetN, unblocked, live, mu, seen, closing, calls>>

-----------------------------------------------------------------------------
(* Block and Unblock, called in a step of a worker or by a caller *)

\* A worker in its step, or a caller; a free worker is left for addWorker.
MayBlock(g) ==
    /\ Live # Worker
    /\ \/ g \in Worker /\ pc[g] = "step"
       \/ g \in Caller /\ pc[g] = "idle" /\ calls < MaxCall

Block(g) ==
    /\ MayBlock(g) /\ mu = NoOne
    /\ mu' = g
    /\ unblocked' = unblocked - 1
    /\ seen' = [seen EXCEPT ![g] = unblocked']
    /\ pc' = [pc EXCEPT ![g] = "block"]
    /\ calls' = IF g \in Caller THEN calls + 1 ELSE calls
    /\ UNCHANGED <<targetN, live, closing>>

BlockTarget(g) ==
    /\ pc[g] = "block"
    /\ IF seen[g] < targetN
       THEN pc' = [pc EXCEPT ![g] = "spawn"] /\ UNCHANGED mu
       ELSE pc' = [pc EXCEPT ![g] = "blocked"] /\ mu' = NoOne
    /\ Forget(g)
    /\ UNCHANGED <<targetN, unblocked, live, closing, calls>>

\* Mutant: a worker more, and the live count as before.
AddUncounted(g) ==
    /\ pc[g] = "spawn"
    /\ \E w \in Worker :
         /\ pc[w] = "free"
         /\ pc' = [pc EXCEPT ![g] = "blocked", ![w] = "load"]
    /\ unblocked' = unblocked + 1
    /\ mu' = NoOne
    /\ UNCHANGED <<targetN, live, seen, closing, calls>>

\* addWorker, and Block returns.
AddWorker(g) ==
    /\ pc[g] = "spawn"
    /\ \E w \in Worker :
         /\ pc[w] = "free"
         /\ pc' = [pc EXCEPT ![g] = "blocked", ![w] = "load"]
    /\ live' = live + 1
    /\ unblocked' = unblocked + 1
    /\ mu' = NoOne
    /\ UNCHANGED <<targetN, seen, closing, calls>>

Unblock(g) ==
    /\ pc[g] = "blocked"
    /\ unblocked' = unblocked + 1
    /\ pc' = [pc EXCEPT ![g] = IF g \in Worker THEN "step" ELSE "idle"]
    /\ UNCHANGED <<targetN, live, mu, seen, closing, calls>>

-----------------------------------------------------------------------------
Shutdown ==
    /\ targetN' = 0
    /\ UNCHANGED <<unblocked, live, mu, pc, seen, closing, calls>>

\* Close shuts down and waits, on p.cond and without p.mu, for live to be 0.
Close ==
    /\ closing = "no" /\ mu = NoOne
    /\ targetN' = 0
    /\ closing' = IF live > 0 THEN "waiting" ELSE "closed"
    /\ UNCHANGED <<unblocked, live, mu, pc, seen, calls>>

CloseWakes ==
    /\ closing = "woken" /\ mu = NoOne
    /\ closing' = IF live > 0 THEN "waiting" ELSE "closed"
    /\ UNCHANGED <<targetN, unblocked, live, mu, pc, seen, calls>>

WorkStep(w) == LoadUnblocked(w) \/ LoadTarget(w) \/ Retire(w) \/ Exit(w) \/ StepEnds(w)

BlockStep(g) == BlockTarget(g) \/ AddWorker(g) \/ Unblock(g)

Next ==
    \/ \E w \in Worker : WorkStep(w)
    \/ \E g \in Goroutine : Block(g) \/ BlockStep(g)
    \/ Shutdown \/ Close \/ CloseWakes

Spec == Init /\ [][Next]_vars

\* Goroutines are scheduled, steps end, what a blocked goroutine waits for
\* comes, and a sync.Mutex starves nobody.
FairSpec ==
    /\ Spec
    /\ \A w \in Worker : /\ WF_vars(LoadUnblocked(w) \/ LoadTarget(w) \/ Retire(w))
                         /\ SF_vars(Exit(w)) /\ SF_vars(StepEnds(w))
    /\ \A g \in Goroutine : WF_vars(BlockStep(g))
    /\ SF_vars(CloseWakes)

-----------------------------------------------------------------------------
\* The counters are right at every instant, however atomics and critical
\* sections interleave: live counts the goroutines, and unblocked the workers
\* that run less the callers that block.
CountsAgree ==
    /\ live = Cardinality(Live)
    /\ unblocked = Cardinality(Running) - Cardinality(BlockedCaller)

\* Blocking cannot stall the pool: unless it is shut down, outside Block there are
\* always TargetN workers that are not blocked, and retiring never goes below.
EnoughWorkers == targetN # 0 /\ mu = NoOne => Cardinality(Running) >= TargetN

\* Close returns only when the goroutines it waited for are gone, and it does not
\* miss the last one: whoever still waits will be woken by a worker that is alive.
CloseIsWoken == closing = "waiting" => Live # {}

\* Close returns once callers stop calling.
CloseReturns == closing = "waiting" ~> closing = "closed"
=============================================================================
