----------------------------- MODULE MapReduce -----------------------------
(***************************************************************************)
(* A query over many shards (executor.go): mapReduce groups the shards by  *)
(* node, one goroutine per group has its node map them, shard by shard on  *)
(* that node's workers, and the responses are reduced.  The shards of a    *)
(* node that refuses the connection are grouped again over the others.     *)
(*                                                                         *)
(* A remote node does what the local one does, for its group only.  What   *)
(* mapFn and reduceFn compute is left out: a result is the bag of shards   *)
(* in it.  Workers take any job at any time (module TaskPool has them).    *)
(***************************************************************************)
EXTENDS Integers, Sequences, FiniteSets, FiniteSetsExt

CONSTANTS Node, Local,  \* Local coordinates the query
          Shard,
          ShardNodes,   \* [Shard -> Seq(Node)]: the owners, primary first
          ReplicaN,
          MaxDown,      \* bound on nodes that refuse connections
          MaxClose,     \* bound on executors that are closed
          MaxError      \* bound on errors of mapFn

ASSUME MapReduceAssumption ==
    /\ Local \in Node /\ IsFiniteSet(Shard) /\ ReplicaN \in Nat
    /\ ShardNodes \in [Shard -> {s \in Seq(Node) : Len(s) = ReplicaN}]
    /\ \A s \in Shard, x, y \in 1..ReplicaN :         \* successive nodes of the ring
           ShardNodes[s][x] = ShardNodes[s][y] => x = y

VARIABLES
    limited,    \* opt.MaxMemory > 0: the groups of a mapper call run one by one
    down,       \* nodes that refuse connections
    shutdown,   \* nodes whose executor is being closed
    workClosed, \* nodes whose work channel is closed
    nodes,      \* nodes that have not refused
    expected,   \* shards without a response
    result,     \* shard -> how often it was reduced
    status,     \* of mapReduce: "new", "running", "waiting" (deferred Wait), "returned"
    err,        \* what it returns
    canceled,   \* the context is done
    parentDone, \* the caller's is
    egErr,      \* first error of the errgroup
    calls,      \* number of mapper calls
    tasks,      \* <<call, node>> -> goroutine
    errors      \* errors of mapFn so far

vars == <<limited, down, shutdown, workClosed, nodes, expected, result, status, err,
          canceled, parentDone, egErr, calls, tasks, errors>>
env == <<limited, parentDone, down, shutdown, workClosed>>
reducer == <<nodes, expected, result, status, err, calls>>

NoneReduced == [s \in Shard |-> 0]

Init ==
    /\ limited \in BOOLEAN
    /\ down = {} /\ shutdown = {} /\ workClosed = {}
    /\ nodes = Node
    /\ expected = Cardinality(Shard)
    /\ result = NoneReduced
    /\ status = "new" /\ err = "nil" /\ canceled = FALSE /\ parentDone = FALSE /\ egErr = "nil"
    /\ calls = 0
    /\ tasks = [t \in {} |-> 0]
    /\ errors = 0

-----------------------------------------------------------------------------
(***************************************************************************)
(* shardsByNode and mapper.                                                *)
(***************************************************************************)
\* Which of a shard's owners are among the candidates; the first one gets the shard.
Candidates(s, ns) == {x \in 1..ReplicaN : ShardNodes[s][x] \in ns}
errShardUnavailable(shards, ns) == \E s \in shards : Candidates(s, ns) = {}
shardsByNode(n, shards, ns) == {s \in shards : ShardNodes[s][Min(Candidates(s, ns))] = n}

\* A goroutine: its shards, those given to workers and not done, done and not
\* received, and reduced.
NewTask(shards, last) ==
    [shards |-> shards, last |-> last, pc |-> "start", todo |-> shards, given |-> {},
     done |-> {}, reduced |-> {}, err |-> "nil"]

\* known are nodes whose state is known not to be STARTED.
mapper(old, shards, ns, known, last) ==
    LET group(n) == shardsByNode(n, shards, ns \ known)
        new == {n \in ns \ known : group(n) # {}}
    IN  /\ calls' = calls + 1
        /\ tasks' = [t \in DOMAIN old \cup ({calls + 1} \X new) |->
                        IF t \in DOMAIN old THEN old[t] ELSE NewTask(group(t[2]), last)]

\* The function returns: the deferred one cancels, then waits for the goroutines.
Returns(e) ==
    /\ status' = "waiting"
    /\ err' = e

Start ==
    /\ status = "new"
    /\ \E known \in SUBSET down :
           IF errShardUnavailable(Shard, nodes \ known)
           THEN Returns("unavailable") /\ UNCHANGED <<calls, tasks>>
           ELSE /\ mapper(tasks, Shard, nodes, known, ReplicaN = 1)
                /\ status' = "running" /\ UNCHANGED err
    /\ UNCHANGED <<env, nodes, expected, result, canceled, egErr, errors>>

(***************************************************************************)
(* A goroutine, and mapperLocal on its node.                               *)
(***************************************************************************)
Set(t, task) == tasks' = [tasks EXCEPT ![t] = task]

\* The errgroup keeps the first error and cancels the context.
GoReturns(t, e) ==
    /\ tasks' = [tasks EXCEPT ![t].pc = "over"]
    /\ egErr' = IF egErr = "nil" THEN e ELSE egErr
    /\ canceled' = (canceled \/ e # "nil")

\* With a memory limit, the other groups of the call have ended or not begun.
Turn(t) ==
    limited => \A u \in DOMAIN tasks : u[1] = t[1] /\ u # t => tasks[u].pc \in {"start", "over"}

\* The connection is refused, or the context is done before it is made, or
\* mapperLocal begins: it counts itself in activeMappers.
Connect(t) ==
    LET k == tasks[t]
    IN  /\ k.pc = "start" /\ Turn(t)
        /\ \/ t[2] # Local /\ t[2] \in down
              /\ Set(t, [k EXCEPT !.pc = "respond", !.err = "connection refused"])
           \/ t[2] # Local /\ canceled
              /\ Set(t, [k EXCEPT !.pc = "respond", !.err = "canceled"])
           \/ t[2] \notin down \ {Local}
              /\ Set(t, [k EXCEPT !.pc = "counted"])
        /\ UNCHANGED <<env, reducer, canceled, egErr, errors>>

\* The request to a remote node is canceled; that node finds out later.
Abandon(t) ==
    /\ t[2] # Local /\ canceled /\ tasks[t].pc \in {"counted", "giving", "gathering"}
    /\ Set(t, [tasks[t] EXCEPT !.pc = "respond", !.err = "canceled"])
    /\ UNCHANGED <<env, reducer, canceled, egErr, errors>>

\* mapperLocal looks at e.shutdown once it has counted itself.
CheckShutdown(t) ==
    LET k == tasks[t]
    IN  /\ k.pc = "counted"
        /\ Set(t, IF t[2] \in shutdown THEN [k EXCEPT !.pc = "respond", !.err = "shutdown"]
                  ELSE [k EXCEPT !.pc = "giving"])
        /\ UNCHANGED <<env, reducer, canceled, egErr, errors>>

\* A select: a job goes to the workers, or the loop ends for good.
GiveJob(t) ==
    LET k == tasks[t]
    IN  /\ k.pc = "giving"
        /\ \/ \E s \in k.todo :
                  Set(t, [k EXCEPT !.todo = @ \ {s}, !.given = @ \cup {s}])
           \/ /\ k.todo = {} \/ canceled \/ t[2] \in shutdown
              /\ Set(t, [k EXCEPT !.pc = "gathering"])
        /\ UNCHANGED <<env, reducer, canceled, egErr, errors>>

\* doOneJob: a response for every job, which its buffered channel takes.
doOneJob(t) ==
    LET k == tasks[t]
    IN  /\ \E s \in k.given :
              \/ /\ ~canceled
                 /\ Set(t, [k EXCEPT !.given = @ \ {s}, !.done = @ \cup {<<s, "nil">>}])
                 /\ UNCHANGED errors
              \/ /\ canceled
                 /\ Set(t, [k EXCEPT !.given = @ \ {s}, !.done = @ \cup {<<s, "canceled">>}])
                 /\ UNCHANGED errors
              \/ /\ ~canceled /\ errors < MaxError
                 /\ errors' = errors + 1
                 /\ Set(t, [k EXCEPT !.given = @ \ {s}, !.done = @ \cup {<<s, "failed">>}])
        /\ UNCHANGED <<env, reducer, canceled, egErr>>

\* mapperLocal receives a response; when the context is done it drops results.
Gather(t) ==
    LET k == tasks[t]
    IN  /\ k.pc = "gathering"
        /\ \E r \in k.done :
               Set(t, [k EXCEPT !.done = @ \ {r},
                                !.err = IF @ = "nil" THEN r[2] ELSE @,
                                !.reduced = IF r[2] = "nil" /\ ~canceled THEN @ \cup {r[1]}
                                            ELSE @])
        /\ UNCHANGED <<env, reducer, canceled, egErr, errors>>

\* Mutant: jobs that no worker has answered yet are not waited for.
AllAnsweredOrCanceled(t) ==
    canceled \/ tasks[t].given \cup {r[1] : r \in tasks[t].done} = {}

AllAnswered(t) == tasks[t].given \cup {r[1] : r \in tasks[t].done} = {}

\* mapperLocal returns, and does not say that shards are missing.
MapperLocalReturns(t) ==
    /\ tasks[t].pc = "gathering" /\ AllAnswered(t)
    /\ Set(t, [tasks[t] EXCEPT !.pc = "respond"])
    /\ UNCHANGED <<env, reducer, canceled, egErr, errors>>

\* Mutant: a goroutine whose response nobody receives waits on.
WithdrawOverLimit(t) ==
    /\ tasks[t].pc = "respond" /\ limited /\ tasks[t].reduced # {}
    /\ GoReturns(t, "memory")
    /\ UNCHANGED <<env, reducer, errors>>

\* The goroutine gives up when the context is done, or its result is too large.
Withdraw(t) ==
    /\ tasks[t].pc = "respond"
    /\ \/ canceled /\ GoReturns(t, "canceled")
       \/ limited /\ tasks[t].reduced # {} /\ GoReturns(t, "memory")
    /\ UNCHANGED <<env, reducer, errors>>

(***************************************************************************)
(* mapReduce receives a response.                                          *)
(***************************************************************************)
Sent(t) == [tasks EXCEPT ![t].pc = "sent"]

\* Mutant: the shards are mapped again on the node that refused them.
RemainingAll(n) == nodes

Remaining(n) == nodes \ {n}

\* Mutant: all the shards of the query are mapped again.
RetriedAll(t) == Shard

Retried(t) == tasks[t].shards

Refused(t) ==
    LET k == tasks[t]
        ns == Remaining(t[2])
    IN  /\ status = "running" /\ k.pc = "respond" /\ k.err = "connection refused"
        /\ nodes' = ns
        /\ \E known \in SUBSET down :
               IF errShardUnavailable(Retried(t), ns \ known)
               THEN Returns(k.err) /\ tasks' = Sent(t) /\ UNCHANGED calls
               ELSE mapper(Sent(t), Retried(t), ns, known, TRUE) /\ UNCHANGED <<status, err>>
        /\ UNCHANGED <<env, expected, result, canceled, egErr, errors>>

Reduce(t) ==
    LET k == tasks[t]
    IN  /\ status = "running" /\ k.pc = "respond" /\ k.err # "connection refused"
        /\ tasks' = Sent(t)
        /\ IF k.err # "nil" THEN Returns(k.err) /\ UNCHANGED <<expected, result>>
           ELSE /\ expected' = expected - Cardinality(k.shards)
                /\ result' = [s \in Shard |-> result[s] + IF s \in k.reduced THEN 1 ELSE 0]
                /\ UNCHANGED <<status, err>>
        /\ UNCHANGED <<env, nodes, calls, canceled, egErr, errors>>

\* Its goroutine goes on: on the last attempt its error cancels all the others.
AfterSend(t) ==
    /\ tasks[t].pc = "sent"
    /\ GoReturns(t, IF tasks[t].last THEN tasks[t].err ELSE "nil")
    /\ UNCHANGED <<env, reducer, errors>>

\* The other case of the select, and the end of the loop.
Done ==
    /\ status = "running"
    /\ \/ canceled /\ expected > 0 /\ Returns("canceled")
       \/ expected <= 0 /\ Returns("nil")
    /\ UNCHANGED <<env, nodes, expected, result, calls, canceled, egErr, tasks, errors>>

\* The deferred function: cancel, Wait, and the errgroup's error if there is no other.
Cancel ==
    /\ status = "waiting" /\ ~canceled
    /\ canceled' = TRUE
    /\ UNCHANGED <<env, reducer, egErr, tasks, errors>>

AllOver == \A t \in DOMAIN tasks : tasks[t].pc = "over"

Return ==
    /\ status = "waiting" /\ canceled /\ AllOver
    /\ status' = "returned"
    /\ err' = IF err = "nil" THEN egErr ELSE err
    /\ UNCHANGED <<env, nodes, expected, result, calls, canceled, egErr, tasks, errors>>

(***************************************************************************)
(* The rest of the world.                                                  *)
(***************************************************************************)
NodeFails(n) ==
    /\ n \notin down \cup {Local} /\ Cardinality(down) < MaxDown /\ status # "returned"
    /\ down' = down \cup {n}
    /\ UNCHANGED <<limited, parentDone, shutdown, workClosed, reducer, canceled, egErr, tasks, errors>>

CallerCancels ==
    /\ status = "running" /\ ~parentDone
    /\ parentDone' = TRUE /\ canceled' = TRUE
    /\ UNCHANGED <<limited, down, shutdown, workClosed, reducer, egErr, tasks, errors>>

\* executor.Close
CloseExecutor(n) ==
    /\ n \notin shutdown /\ Cardinality(shutdown) < MaxClose
    /\ shutdown' = shutdown \cup {n}
    /\ UNCHANGED <<limited, parentDone, down, workClosed, reducer, canceled, egErr, tasks, errors>>

\* Mutant: a mapper counts itself once it has handed out its jobs.
MappersGathering(n) == {t \in DOMAIN tasks : t[2] = n /\ tasks[t].pc = "gathering"}

activeMappers(n) ==
    {t \in DOMAIN tasks : t[2] = n /\ tasks[t].pc \in {"counted", "giving", "gathering"}}

CloseWork(n) ==
    /\ n \in shutdown \ workClosed /\ activeMappers(n) = {}
    /\ workClosed' = workClosed \cup {n}
    /\ UNCHANGED <<limited, parentDone, down, shutdown, reducer, canceled, egErr, tasks, errors>>

-----------------------------------------------------------------------------
TaskStep(t) ==
    \/ Connect(t) \/ Abandon(t) \/ CheckShutdown(t) \/ GiveJob(t) \/ doOneJob(t) \/ Gather(t)
    \/ MapperLocalReturns(t) \/ Withdraw(t) \/ Refused(t) \/ Reduce(t) \/ AfterSend(t)

Progress ==
    \/ \E t \in DOMAIN tasks : TaskStep(t)
    \/ Done \/ Cancel \/ Return
    \/ \E n \in Node : CloseWork(n)

Next ==
    \/ Start \/ Progress \/ CallerCancels
    \/ \E n \in Node : NodeFails(n) \/ CloseExecutor(n)

Spec == Init /\ [][Next]_vars

\* Goroutines and workers are scheduled, mapFn returns.  A query takes finitely
\* many steps, so that it is enough that something happens.
FairSpec == Spec /\ WF_vars(Progress)

-----------------------------------------------------------------------------

Returned(e) == status = "returned" /\ err = e

\* A query that succeeds has reduced every shard exactly once, however often shards
\* were mapped again: one that was dropped or counted twice makes it fail.  An
\* executor that is being closed is the exception (see the hazards), and a caller
\* that does not want the answer.
AnswerComplete ==
    /\ \A s \in Shard : result[s] <= 1
    /\ Returned("nil") /\ shutdown = {} /\ ~parentDone => \A s \in Shard : result[s] = 1

\* "mapReduce has to ensure that it never returns before any work it spawned has
\* terminated": when it has returned, no worker has a job of this query.
NoWorkLeft ==
    status = "returned" => \A t \in DOMAIN tasks : t[2] = Local => tasks[t].given = {}

\* A mapper that hands out jobs never finds the work channel closed, which would
\* be a panic.
NoSendOnClosed ==
    \A t \in DOMAIN tasks : t[2] = Local /\ tasks[t].pc = "giving" => Local \notin workClosed

\* Nothing else went wrong than that nodes refused connections.
OnlyRefusals == shutdown = {} /\ ~parentDone /\ errors = 0 /\ ~limited

\* One node that refuses connections fails no query when there are replicas.
FailsOver ==
    OnlyRefusals /\ Cardinality(down) <= 1 /\ ReplicaN > 1 /\ status = "returned" => err = "nil"

\* Every query returns and every executor that is being closed gets closed.
EverythingEnds ==
    /\ (status # "new") ~> (status = "returned")
    /\ (Local \in shutdown) ~> (Local \in workClosed)

=============================================================================
