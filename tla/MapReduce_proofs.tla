-------------------------- MODULE MapReduce_proofs --------------------------
(***************************************************************************)
(* What mapReduce leaves behind when it returns and what it sends on, for  *)
(* any number of nodes, shards, replicas and attempts.                     *)
(***************************************************************************)
EXTENDS MapReduce, FiniteSetTheorems, TLAPS

\* A goroutine as it may be: it hands out jobs only while the channel of its node
\* is open, and outside mapperLocal no worker has a job of the local one.
GoodTask(t, r) ==
    /\ "pc" \in DOMAIN r /\ "given" \in DOMAIN r
    /\ r.pc = "giving" => t[2] \notin workClosed
    /\ t[2] = Local /\ r.pc \notin {"giving", "gathering"} => r.given = {}

\* Why the properties stay true: the channel is closed after shutdown only, and
\* the deferred Wait has seen all goroutines end.
WorkInv ==
    /\ workClosed \subseteq shutdown
    /\ \A t \in DOMAIN tasks : GoodTask(t, tasks[t])
    /\ status = "returned" => AllOver

\* To begin with there is no goroutine.
LEMMA WorkInvInit == Init => WorkInv
BY DEF Init, WorkInv

\* A step that changes one goroutine into another good one keeps the invariant.
LEMMA OneTaskKept ==
    ASSUME WorkInv, NEW t \in DOMAIN tasks, NEW k, GoodTask(t, k),
           tasks' = [tasks EXCEPT ![t] = k],
           UNCHANGED env, status' = status \/ status' = "waiting",
           status = "returned" => k.pc = "over"
    PROVE  WorkInv'
<1>1. /\ DOMAIN tasks' = DOMAIN tasks /\ tasks'[t] = k
      /\ \A u \in DOMAIN tasks : u # t => tasks'[u] = tasks[u]
  OBVIOUS
<1>2. workClosed' = workClosed /\ shutdown' = shutdown
  BY DEF env
<1>3. \A u \in DOMAIN tasks' : GoodTask(u, tasks'[u])
  BY <1>1 DEF WorkInv
<1>4. (\A u \in DOMAIN tasks : GoodTask(u, tasks[u]))'
  BY <1>2, <1>3 DEF GoodTask
<1>5. status' = "returned" => AllOver'
  BY <1>1 DEF WorkInv, AllOver
<1> QED BY <1>2, <1>4, <1>5 DEF WorkInv

\* So does one that leaves the goroutines alone, and the channels.
LEMMA NoTaskKept ==
    ASSUME WorkInv, tasks' = tasks, workClosed' = workClosed,
           shutdown \subseteq shutdown',
           status' = status \/ status' \in {"waiting", "running"}
    PROVE  WorkInv'
<1>1. (\A u \in DOMAIN tasks : GoodTask(u, tasks[u]))'
  BY DEF WorkInv, GoodTask
<1>2. AllOver' = AllOver
  BY DEF AllOver
<1> QED BY <1>1, <1>2 DEF WorkInv

\* A goroutine that has just been started is good.
LEMMA NewTaskGood ==
    ASSUME NEW t, NEW shards, NEW last
    PROVE  GoodTask(t, NewTask(shards, last))
BY DEF GoodTask, NewTask

\* A mapper call adds goroutines to good ones.
LEMMA MapperKept ==
    ASSUME WorkInv, NEW old, NEW shards, NEW ns, NEW known, NEW last,
           \A t \in DOMAIN old : GoodTask(t, old[t]),
           mapper(old, shards, ns, known, last),
           UNCHANGED env, status' # "returned"
    PROVE  WorkInv'
<1> DEFINE group(n) == shardsByNode(n, shards, ns \ known)
           new == {n \in ns \ known : group(n) # {}}
<1>1. tasks' = [t \in DOMAIN old \cup ({calls + 1} \X new) |->
                   IF t \in DOMAIN old THEN old[t] ELSE NewTask(group(t[2]), last)]
  BY DEF mapper
<1> HIDE DEF group, new
<1>2. \A t \in DOMAIN tasks' : GoodTask(t, tasks'[t])
  BY <1>1, NewTaskGood
<1>3. workClosed' = workClosed /\ shutdown' = shutdown
  BY DEF env
<1>4. (\A t \in DOMAIN tasks : GoodTask(t, tasks[t]))'
  BY <1>2, <1>3 DEF GoodTask
<1> QED BY <1>3, <1>4 DEF WorkInv

\* The steps of a goroutine and of its node's mapperLocal and workers.
LEMMA LocalStepsKept ==
    ASSUME WorkInv, NEW t \in DOMAIN tasks,
           \/ Connect(t) \/ Abandon(t) \/ CheckShutdown(t) \/ GiveJob(t) \/ doOneJob(t)
           \/ Gather(t) \/ MapperLocalReturns(t) \/ Withdraw(t) \/ AfterSend(t)
    PROVE  WorkInv'
<1> DEFINE k == tasks[t]
<1>g. GoodTask(t, k) /\ (status = "returned" => k.pc = "over")
  BY DEF WorkInv, AllOver
<1>1. CASE Connect(t)
  <2>1. PICK r : k.pc = "start" /\ tasks' = [tasks EXCEPT ![t] = r]
            /\ GoodTask(t, r)
    BY <1>1, <1>g DEF Connect, Set, GoodTask
  <2>2. UNCHANGED env /\ status' = status
    BY <1>1 DEF Connect, reducer
  <2> QED BY <2>1, <2>2, <1>g, OneTaskKept
<1>2. CASE Abandon(t)
  <2>1. GoodTask(t, [k EXCEPT !.pc = "respond", !.err = "canceled"])
    BY <1>2, <1>g DEF Abandon, GoodTask
  <2>2. UNCHANGED env /\ status' = status /\ k.pc # "over"
        /\ tasks' = [tasks EXCEPT ![t] = [k EXCEPT !.pc = "respond", !.err = "canceled"]]
    BY <1>2 DEF Abandon, reducer, Set
  <2> QED BY <2>1, <2>2, <1>g, OneTaskKept
<1>3. CASE CheckShutdown(t)
  <2>1. /\ GoodTask(t, [k EXCEPT !.pc = "respond", !.err = "shutdown"])
        /\ t[2] \notin shutdown => GoodTask(t, [k EXCEPT !.pc = "giving"])
    BY <1>3, <1>g DEF CheckShutdown, GoodTask, WorkInv
  <2>2. UNCHANGED env /\ status' = status /\ k.pc # "over"
    BY <1>3 DEF CheckShutdown, reducer
  <2>3. \/ tasks' = [tasks EXCEPT ![t] = [k EXCEPT !.pc = "respond", !.err = "shutdown"]]
        \/ t[2] \notin shutdown /\ tasks' = [tasks EXCEPT ![t] = [k EXCEPT !.pc = "giving"]]
    BY <1>3 DEF CheckShutdown, Set
  <2> QED BY <2>1, <2>2, <2>3, <1>g, OneTaskKept
<1>4. CASE GiveJob(t)
  <2>1. \A s : GoodTask(t, [k EXCEPT !.todo = @ \ {s}, !.given = @ \cup {s}])
    BY <1>4, <1>g DEF GiveJob, GoodTask
  <2>2. GoodTask(t, [k EXCEPT !.pc = "gathering"])
    BY <1>4, <1>g DEF GiveJob, GoodTask
  <2>3. UNCHANGED env /\ status' = status /\ k.pc # "over"
    BY <1>4 DEF GiveJob, reducer
  <2>4. \/ \E s : tasks' = [tasks EXCEPT ![t] = [k EXCEPT !.todo = @ \ {s}, !.given = @ \cup {s}]]
        \/ tasks' = [tasks EXCEPT ![t] = [k EXCEPT !.pc = "gathering"]]
    BY <1>4 DEF GiveJob, Set
  <2> QED BY <2>1, <2>2, <2>3, <2>4, <1>g, OneTaskKept
<1>5. CASE doOneJob(t)
  <2>1. \A s, e : /\ GoodTask(t, [k EXCEPT !.given = @ \ {s}, !.done = @ \cup {<<s, e>>}])
                  /\ [k EXCEPT !.given = @ \ {s}, !.done = @ \cup {<<s, e>>}].pc = k.pc
    BY <1>g DEF GoodTask
  <2>2. UNCHANGED env /\ status' = status
    BY <1>5 DEF doOneJob, reducer
  <2>3. \E s, e : tasks' = [tasks EXCEPT ![t] =
                        [k EXCEPT !.given = @ \ {s}, !.done = @ \cup {<<s, e>>}]]
    BY <1>5 DEF doOneJob, Set
  <2> QED BY <2>1, <2>2, <2>3, <1>g, OneTaskKept
<1>6. CASE Gather(t)
  <2>1. \A d, e, r : GoodTask(t, [k EXCEPT !.done = d, !.err = e, !.reduced = r])
    BY <1>g DEF GoodTask
  <2>2. UNCHANGED env /\ status' = status /\ k.pc # "over"
    BY <1>6 DEF Gather, reducer
  <2>3. \E d, e, r : tasks' = [tasks EXCEPT ![t] = [k EXCEPT !.done = d, !.err = e, !.reduced = r]]
    <3>1. PICK r \in k.done :
              tasks' = [tasks EXCEPT ![t] =
                           [k EXCEPT !.done = @ \ {r},
                                     !.err = IF @ = "nil" THEN r[2] ELSE @,
                                     !.reduced = IF r[2] = "nil" /\ ~canceled THEN @ \cup {r[1]}
                                                 ELSE @]]
      BY <1>6 DEF Gather, Set
    <3>2. WITNESS k.done \ {r}, IF k.err = "nil" THEN r[2] ELSE k.err,
                  IF r[2] = "nil" /\ ~canceled THEN k.reduced \cup {r[1]} ELSE k.reduced
    <3> QED BY <3>1
  <2> QED BY <2>1, <2>2, <2>3, <1>g, OneTaskKept
<1>7. CASE MapperLocalReturns(t)
  <2>1. GoodTask(t, [k EXCEPT !.pc = "respond"])
    BY <1>7, <1>g DEF MapperLocalReturns, AllAnswered, GoodTask
  <2>2. UNCHANGED env /\ status' = status /\ k.pc # "over"
        /\ tasks' = [tasks EXCEPT ![t] = [k EXCEPT !.pc = "respond"]]
    BY <1>7 DEF MapperLocalReturns, reducer, Set
  <2> QED BY <2>1, <2>2, <1>g, OneTaskKept
<1>8. CASE Withdraw(t) \/ AfterSend(t)
  <2>1. k.pc \in {"respond", "sent"} /\ UNCHANGED env /\ status' = status
        /\ tasks' = [tasks EXCEPT ![t] = [k EXCEPT !.pc = "over"]]
    BY <1>8 DEF Withdraw, AfterSend, GoReturns, reducer
  <2>2. GoodTask(t, [k EXCEPT !.pc = "over"])
    BY <2>1, <1>g DEF GoodTask
  <2> QED BY <2>1, <2>2, <1>g, OneTaskKept
<1> QED BY <1>1, <1>2, <1>3, <1>4, <1>5, <1>6, <1>7, <1>8

\* A goroutine whose response was received is good, and so are the others.
LEMMA SentGood ==
    ASSUME WorkInv, NEW t \in DOMAIN tasks, tasks[t].pc = "respond"
    PROVE  /\ GoodTask(t, [tasks[t] EXCEPT !.pc = "sent"])
           /\ Sent(t) = [tasks EXCEPT ![t] = [tasks[t] EXCEPT !.pc = "sent"]]
           /\ \A u \in DOMAIN Sent(t) : GoodTask(u, Sent(t)[u])
<1>1. GoodTask(t, tasks[t])
  BY DEF WorkInv
<1>2. GoodTask(t, [tasks[t] EXCEPT !.pc = "sent"])
  BY <1>1 DEF GoodTask
<1>3. Sent(t) = [tasks EXCEPT ![t] = [tasks[t] EXCEPT !.pc = "sent"]]
  BY DEF Sent
<1>4. \A u \in DOMAIN Sent(t) : GoodTask(u, Sent(t)[u])
  BY <1>2, <1>3 DEF WorkInv
<1> QED BY <1>2, <1>3, <1>4

\* What mapReduce does with a response.
LEMMA ResponsesKept ==
    ASSUME WorkInv, NEW t \in DOMAIN tasks, Refused(t) \/ Reduce(t)
    PROVE  WorkInv'
<1>1. /\ status = "running" /\ tasks[t].pc = "respond"
      /\ UNCHANGED env /\ (status' = status \/ status' = "waiting")
  BY DEF Refused, Reduce, Returns
<1>2. CASE tasks' = Sent(t)
  BY <1>1, <1>2, SentGood, OneTaskKept
<1>3. ASSUME NEW ns, NEW known, mapper(Sent(t), Retried(t), ns, known, TRUE)
      PROVE  WorkInv'
  BY <1>1, <1>3, SentGood, MapperKept
<1>4. \/ tasks' = Sent(t)
      \/ \E ns, known : mapper(Sent(t), Retried(t), ns, known, TRUE)
  BY DEF Refused, Reduce
<1> QED BY <1>2, <1>3, <1>4

\* Every step keeps the invariant.
LEMMA WorkInvNext == WorkInv /\ [Next]_vars => WorkInv'
<1> SUFFICES ASSUME WorkInv, [Next]_vars PROVE WorkInv'
  OBVIOUS
<1>1. CASE Start
  <2>1. UNCHANGED env /\ status' \in {"waiting", "running"}
    BY <1>1 DEF Start, Returns
  <2>2. CASE tasks' = tasks
    BY <2>1, <2>2, NoTaskKept DEF env
  <2>3. ASSUME NEW known, mapper(tasks, Shard, nodes, known, ReplicaN = 1)
        PROVE  WorkInv'
    BY <2>1, <2>3, MapperKept DEF WorkInv
  <2>4. tasks' = tasks \/ \E known : mapper(tasks, Shard, nodes, known, ReplicaN = 1)
    BY <1>1 DEF Start
  <2> QED BY <2>2, <2>3, <2>4
<1>2. ASSUME NEW t \in DOMAIN tasks, TaskStep(t) PROVE WorkInv'
  BY <1>2, LocalStepsKept, ResponsesKept DEF TaskStep
<1>3. CASE Done \/ Cancel \/ CallerCancels
  <2>1. /\ tasks' = tasks /\ workClosed' = workClosed /\ shutdown' = shutdown
        /\ status' = status \/ status' = "waiting"
    BY <1>3 DEF Done, Cancel, CallerCancels, Returns, env, reducer
  <2> QED BY <2>1, NoTaskKept
<1>4. CASE Return
  <2>1. AllOver /\ tasks' = tasks /\ workClosed' = workClosed /\ shutdown' = shutdown
    BY <1>4 DEF Return, env
  <2>2. AllOver' /\ (\A u \in DOMAIN tasks : GoodTask(u, tasks[u]))'
    BY <2>1 DEF AllOver, WorkInv, GoodTask
  <2> QED BY <2>1, <2>2 DEF WorkInv
<1>5. ASSUME NEW n \in Node, NodeFails(n) \/ CloseExecutor(n) PROVE WorkInv'
  <2>1. /\ tasks' = tasks /\ workClosed' = workClosed /\ shutdown \subseteq shutdown'
        /\ status' = status
    BY <1>5 DEF NodeFails, CloseExecutor, reducer
  <2> QED BY <2>1, NoTaskKept
<1>6. ASSUME NEW n \in Node, CloseWork(n) PROVE WorkInv'
  <2>1. /\ n \in shutdown /\ workClosed' = workClosed \cup {n} /\ shutdown' = shutdown
        /\ tasks' = tasks /\ status' = status
    BY <1>6 DEF CloseWork, reducer
  <2>2. \A u \in DOMAIN tasks : tasks[u].pc = "giving" => u[2] # n
    BY <1>6 DEF CloseWork, activeMappers
  <2>3. (\A u \in DOMAIN tasks : GoodTask(u, tasks[u]))'
    BY <2>1, <2>2 DEF WorkInv, GoodTask
  <2> QED BY <2>1, <2>3 DEF WorkInv, AllOver
<1>7. CASE UNCHANGED vars
  BY <1>7, NoTaskKept DEF vars
<1> QED
  BY <1>1, <1>2, <1>3, <1>4, <1>5, <1>6, <1>7 DEF Next, Progress

\* The invariant holds throughout.
LEMMA WorkInvHolds == Spec => []WorkInv
BY WorkInvInit, WorkInvNext, PTL DEF Spec

\* mapperLocal never sends on a work channel that executor.Close has closed: it
\* counts itself in activeMappers before it looks at shutdown.
THEOREM NoSendOnClosedHolds == Spec => []NoSendOnClosed
<1>1. WorkInv => NoSendOnClosed
  BY DEF WorkInv, GoodTask, NoSendOnClosed
<1> QED BY <1>1, WorkInvHolds, PTL

\* When mapReduce has returned no worker of its node has a job of the query:
\* mapperLocal gets an answer for every job it handed out, and the deferred Wait
\* one from every goroutine.
THEOREM NoWorkLeftHolds == Spec => []NoWorkLeft
<1>1. WorkInv => NoWorkLeft
  BY DEF WorkInv, GoodTask, NoWorkLeft, AllOver
<1> QED BY <1>1, WorkInvHolds, PTL

(***************************************************************************)
(* The answer.                                                             *)
(***************************************************************************)

\* Where a goroutine is whose response nobody has received and that has not
\* given up.
Live == {"start", "counted", "giving", "gathering", "respond"}

Missing == {s \in Shard : result[s] = 0}

\* A goroutine has some shards and does nothing with others.
TaskOK(k) ==
    /\ DOMAIN k = {"shards", "last", "pc", "todo", "given", "done", "reduced", "err"}
    /\ k.shards \subseteq Shard /\ k.shards # {}
    /\ k.todo \subseteq k.shards /\ k.given \subseteq k.shards /\ k.reduced \subseteq k.shards
    /\ k.done \subseteq k.shards \X {"nil", "canceled", "failed"}

\* No shard of a goroutine that has met no error is lost on its way from todo to
\* reduced.
Covers(k) ==
    k.err = "nil" =>
        /\ \A s \in k.shards : \/ s \in k.todo \cup k.given \cup k.reduced
                               \/ \E r \in k.done : r[1] = s
        /\ k.pc \in {"gathering", "respond"} => k.todo = {}
        /\ k.pc = "respond" => k.given = {} /\ k.done = {}

\* Shards are with one goroutine at most, and with none once they are reduced.
TasksInv ==
    /\ calls \in Nat /\ \A t \in DOMAIN tasks : t[1] \in 1..calls
    /\ \A t \in DOMAIN tasks : TaskOK(tasks[t])
    /\ result \in [Shard -> {0, 1}]
    /\ \A t, u \in DOMAIN tasks : t # u /\ tasks[t].pc \in Live /\ tasks[u].pc \in Live =>
           tasks[t].shards \cap tasks[u].shards = {}
    /\ \A t \in DOMAIN tasks : tasks[t].pc \in Live => tasks[t].shards \subseteq Missing
    /\ status = "new" => DOMAIN tasks = {} /\ Missing = Shard

\* No executor is being closed, the caller waits, and no goroutine has returned an
\* error.
Quiet == shutdown = {} /\ ~parentDone /\ egErr = "nil"

\* Then nothing is canceled before mapReduce has its answer, expected counts the
\* shards that are missing, and mapReduce stops without an error only when none is.
QuietInv ==
    /\ Quiet /\ status \in {"new", "running"} =>
           /\ ~canceled /\ expected = Cardinality(Missing)
           /\ \A t \in DOMAIN tasks : tasks[t].pc \in Live => Covers(tasks[t])
    /\ Quiet /\ status \in {"waiting", "returned"} /\ err = "nil" => Missing = {}
    /\ Returned("nil") => egErr = "nil"
    /\ status \in {"new", "running", "waiting", "returned"}

AnswerInv == WorkInv /\ TasksInv /\ QuietInv /\ errors \in Nat

\* One node refuses connections at most, and there are replicas.
Calm == OnlyRefusals /\ Cardinality(down) <= 1 /\ ReplicaN > 1

\* A goroutine that was refused can be replaced: it was not the last attempt, for
\* that one does not go to the node that is down.
TaskCalm(t, k) ==
    /\ k.err \in {"nil", "connection refused"}
    /\ k.err = "connection refused" => t[2] \in down /\ ~k.last
    /\ k.last => \E d \in down : d # t[2]
    /\ k.pc \in Live => \A r \in k.done : r[2] = "nil"

\* Why nothing fails then.
CalmInv ==
    /\ IsFiniteSet(down)
    /\ Calm => /\ Node \ nodes \subseteq down /\ err = "nil" /\ egErr = "nil"
               /\ \A t \in DOMAIN tasks : TaskCalm(t, tasks[t])
               /\ status \in {"waiting", "returned"} =>
                      \A t \in DOMAIN tasks : tasks[t].pc \notin Live

\* What a step of a goroutine, of its mapperLocal or of a worker may do to it.
Moves(t, k, new) ==
    /\ TaskOK(new) /\ new.shards = k.shards /\ new.last = k.last
    /\ new.pc \in Live <=> k.pc \in Live
    /\ k.pc = "over" => new.pc = "over"
    /\ ~canceled /\ shutdown = {} /\ k.pc \in Live /\ Covers(k) => Covers(new)
    /\ /\ errors' = 0 /\ (\A d, e \in down : d = e) /\ TaskCalm(t, k)
       /\ k.pc \in Live => ~canceled /\ shutdown = {}
       => TaskCalm(t, new)

\* Each of these steps moves one goroutine.
LEMMA StepMoves ==
    ASSUME NEW t \in DOMAIN tasks, TaskOK(tasks[t]), errors \in Nat,
           \/ Connect(t) \/ Abandon(t) \/ CheckShutdown(t) \/ GiveJob(t) \/ doOneJob(t)
           \/ Gather(t) \/ MapperLocalReturns(t)
    PROVE  \E new : Moves(t, tasks[t], new) /\ tasks' = [tasks EXCEPT ![t] = new]
<1> DEFINE k == tasks[t]
           Goal == \E new : Moves(t, k, new) /\ tasks' = [tasks EXCEPT ![t] = new]
<1> SUFFICES Goal
  OBVIOUS
<1>k. TaskOK(k)
  OBVIOUS
<1>1. CASE Connect(t)
  <2>0. k.pc = "start"
    BY <1>1 DEF Connect
  <2>1. CASE t[2] \in down /\ tasks' = [tasks EXCEPT ![t] = [k EXCEPT !.pc = "respond", !.err = "connection refused"]]
    <3>1. Moves(t, k, [k EXCEPT !.pc = "respond", !.err = "connection refused"])
      BY <1>k, <2>0, <2>1 DEF Moves, TaskOK, Live, Covers, TaskCalm
    <3> QED BY <2>1, <3>1
  <2>2. CASE canceled /\ tasks' = [tasks EXCEPT ![t] = [k EXCEPT !.pc = "respond", !.err = "canceled"]]
    <3>1. Moves(t, k, [k EXCEPT !.pc = "respond", !.err = "canceled"])
      BY <1>k, <2>0, <2>2 DEF Moves, TaskOK, Live
    <3> QED BY <2>2, <3>1
  <2>3. CASE tasks' = [tasks EXCEPT ![t] = [k EXCEPT !.pc = "counted"]]
    <3>1. Moves(t, k, [k EXCEPT !.pc = "counted"])
      BY <1>k, <2>0 DEF Moves, TaskOK, Live, Covers, TaskCalm
    <3> QED BY <2>3, <3>1
  <2> QED BY <1>1, <2>1, <2>2, <2>3 DEF Connect, Set
<1>2. CASE Abandon(t)
  <2>1. canceled /\ k.pc \in Live /\ k.pc # "over"
        /\ tasks' = [tasks EXCEPT ![t] = [k EXCEPT !.pc = "respond", !.err = "canceled"]]
    BY <1>2 DEF Abandon, Set, Live
  <2>2. Moves(t, k, [k EXCEPT !.pc = "respond", !.err = "canceled"])
    BY <1>k, <2>1 DEF Moves, TaskOK, Live
  <2> QED BY <2>1, <2>2
<1>3. CASE CheckShutdown(t)
  <2>1. k.pc = "counted"
    BY <1>3 DEF CheckShutdown
  <2>2. CASE t[2] \in shutdown
    <3>1. tasks' = [tasks EXCEPT ![t] = [k EXCEPT !.pc = "respond", !.err = "shutdown"]]
      BY <1>3, <2>2 DEF CheckShutdown, Set
    <3>2. Moves(t, k, [k EXCEPT !.pc = "respond", !.err = "shutdown"])
      BY <1>k, <2>1, <2>2 DEF Moves, TaskOK, Live
    <3> QED BY <3>1, <3>2
  <2>3. CASE t[2] \notin shutdown
    <3>1. tasks' = [tasks EXCEPT ![t] = [k EXCEPT !.pc = "giving"]]
      BY <1>3, <2>3 DEF CheckShutdown, Set
    <3>2. Moves(t, k, [k EXCEPT !.pc = "giving"])
      BY <1>k, <2>1 DEF Moves, TaskOK, Live, Covers, TaskCalm
    <3> QED BY <3>1, <3>2
  <2> QED BY <2>2, <2>3
<1>4. CASE GiveJob(t)
  <2>0. k.pc = "giving"
    BY <1>4 DEF GiveJob
  <2>1. ASSUME NEW s \in k.todo,
               tasks' = [tasks EXCEPT ![t] = [k EXCEPT !.todo = @ \ {s}, !.given = @ \cup {s}]]
        PROVE  Goal
    <3>1. Moves(t, k, [k EXCEPT !.todo = @ \ {s}, !.given = @ \cup {s}])
      BY <1>k, <2>0, <2>1 DEF Moves, TaskOK, Live, Covers, TaskCalm
    <3> QED BY <2>1, <3>1
  <2>2. CASE /\ k.todo = {} \/ canceled \/ t[2] \in shutdown
             /\ tasks' = [tasks EXCEPT ![t] = [k EXCEPT !.pc = "gathering"]]
    <3>1. Moves(t, k, [k EXCEPT !.pc = "gathering"])
      BY <1>k, <2>0, <2>2 DEF Moves, TaskOK, Live, Covers, TaskCalm
    <3> QED BY <2>2, <3>1
  <2> QED BY <1>4, <2>1, <2>2 DEF GiveJob, Set
<1>5. CASE doOneJob(t)
  <2> DEFINE Did(s, e) == [k EXCEPT !.given = @ \ {s}, !.done = @ \cup {<<s, e>>}]
  <2>0. PICK s \in k.given :
            \/ Set(t, Did(s, "nil"))
            \/ Set(t, Did(s, "canceled")) /\ canceled
            \/ Set(t, Did(s, "failed")) /\ errors' = errors + 1
    BY <1>5 DEF doOneJob
  <2>1. PICK e \in {"nil", "canceled", "failed"} :
            /\ tasks' = [tasks EXCEPT ![t] = Did(s, e)]
            /\ e = "failed" => errors' # 0
            /\ e = "canceled" => canceled
    <3> HIDE DEF Did
    <3>1. CASE Set(t, Did(s, "failed")) /\ errors' = errors + 1
      BY <3>1 DEF Set
    <3> QED BY <2>0, <3>1 DEF Set
  <2> DEFINE new == [k EXCEPT !.given = @ \ {s}, !.done = @ \cup {<<s, e>>}]
  <2>2. /\ DOMAIN new = DOMAIN k /\ new.shards = k.shards /\ new.last = k.last /\ new.pc = k.pc
        /\ new.todo = k.todo /\ new.given = k.given \ {s} /\ new.done = k.done \cup {<<s, e>>}
        /\ new.reduced = k.reduced /\ new.err = k.err
    BY <1>k DEF TaskOK
  <2> HIDE DEF new
  <2>3. TaskOK(new)
    BY <1>k, <2>2 DEF TaskOK
  <2>4. ASSUME Covers(k) PROVE Covers(new)
    <3>1. ASSUME NEW x \in new.shards, new.err = "nil"
          PROVE  x \in new.todo \cup new.given \cup new.reduced \/ \E r \in new.done : r[1] = x
      <4>1. CASE x = s
        <5>1. <<s, e>> \in new.done /\ <<s, e>>[1] = x
          BY <2>2, <4>1
        <5> QED BY <5>1
      <4>2. CASE x # s
        BY <2>2, <2>4, <3>1, <4>2 DEF Covers
      <4> QED BY <4>1, <4>2
    <3> QED BY <2>1, <2>2, <2>4, <3>1 DEF Covers
  <2>5. ASSUME errors' = 0, TaskCalm(t, k), k.pc \in Live => ~canceled PROVE TaskCalm(t, new)
    <3>1. k.pc \in Live => e = "nil"
      BY <2>1, <2>5
    <3>2. <<s, e>>[2] = e
      OBVIOUS
    <3>3. k.pc \in Live => \A r \in new.done : r[2] = "nil"
      BY <2>2, <2>5, <3>1, <3>2 DEF TaskCalm
    <3> QED BY <2>2, <2>5, <3>3 DEF TaskCalm
  <2>6. Moves(t, k, new)
    BY <2>2, <2>3, <2>4, <2>5 DEF Moves
  <2> QED BY <2>1, <2>6 DEF new
<1>6. CASE Gather(t)
  <2>1. PICK r \in k.done :
            tasks' = [tasks EXCEPT ![t] =
                         [k EXCEPT !.done = @ \ {r},
                                   !.err = IF @ = "nil" THEN r[2] ELSE @,
                                   !.reduced = IF r[2] = "nil" /\ ~canceled THEN @ \cup {r[1]}
                                               ELSE @]]
    BY <1>6 DEF Gather, Set
  <2> DEFINE new == [k EXCEPT !.done = @ \ {r},
                              !.err = IF @ = "nil" THEN r[2] ELSE @,
                              !.reduced = IF r[2] = "nil" /\ ~canceled THEN @ \cup {r[1]} ELSE @]
  <2>2. /\ DOMAIN new = DOMAIN k /\ new.shards = k.shards /\ new.last = k.last
        /\ new.pc = "gathering" /\ k.pc = "gathering"
        /\ new.todo = k.todo /\ new.given = k.given /\ new.done = k.done \ {r}
        /\ new.reduced = (IF r[2] = "nil" /\ ~canceled THEN k.reduced \cup {r[1]} ELSE k.reduced)
        /\ new.err = IF k.err = "nil" THEN r[2] ELSE k.err
    BY <1>6, <1>k DEF TaskOK, Gather
  <2> HIDE DEF new
  <2>3. TaskOK(new)
    BY <1>k, <2>1, <2>2 DEF TaskOK
  <2>4. ASSUME ~canceled, Covers(k) PROVE Covers(new)
    BY <2>2, <2>4 DEF Covers
  <2>5. ASSUME TaskCalm(t, k) PROVE TaskCalm(t, new)
    BY <2>1, <2>2, <2>5 DEF TaskCalm, Live
  <2>6. Moves(t, k, new)
    BY <2>2, <2>3, <2>4, <2>5 DEF Moves
  <2> QED BY <2>1, <2>6 DEF new
<1>7. CASE MapperLocalReturns(t)
  <2>1. k.pc = "gathering" /\ tasks' = [tasks EXCEPT ![t] = [k EXCEPT !.pc = "respond"]]
    BY <1>7 DEF MapperLocalReturns, Set
  <2>2. k.given = {} /\ k.done = {}
    BY <1>7 DEF MapperLocalReturns, AllAnswered
  <2>3. Moves(t, k, [k EXCEPT !.pc = "respond"])
    BY <1>k, <2>1, <2>2 DEF Moves, TaskOK, Live, Covers, TaskCalm
  <2> QED BY <2>1, <2>3
<1> QED BY <1>1, <1>2, <1>3, <1>4, <1>5, <1>6, <1>7

\* A step that changes one goroutine, and not its shards, keeps shards apart.
LEMMA OneTaskShards ==
    ASSUME TasksInv, NEW t \in DOMAIN tasks, NEW new, TaskOK(new),
           new.shards = tasks[t].shards, new.pc \in Live => tasks[t].pc \in Live,
           tasks' = [tasks EXCEPT ![t] = new], UNCHANGED <<calls, result>>,
           status' = status \/ status' = "waiting"
    PROVE  TasksInv'
<1>1. /\ DOMAIN tasks' = DOMAIN tasks /\ tasks'[t] = new
      /\ \A u \in DOMAIN tasks : u # t => tasks'[u] = tasks[u]
  OBVIOUS
<1>2. /\ \A u \in DOMAIN tasks : TaskOK(tasks'[u]) /\ tasks'[u].shards = tasks[u].shards
      /\ \A u \in DOMAIN tasks : tasks'[u].pc \in Live => tasks[u].pc \in Live
  BY <1>1 DEF TasksInv
<1>3. Missing' = Missing
  BY DEF Missing
<1>4. status' # "new"
  BY DEF TasksInv
<1>5. (\A u \in DOMAIN tasks : TaskOK(tasks[u]))'
  BY <1>1, <1>2
<1>6. (\A u, v \in DOMAIN tasks : u # v /\ tasks[u].pc \in Live /\ tasks[v].pc \in Live =>
           tasks[u].shards \cap tasks[v].shards = {})'
  BY <1>1, <1>2 DEF TasksInv
<1>7. (\A u \in DOMAIN tasks : tasks[u].pc \in Live => tasks[u].shards \subseteq Missing)'
  BY <1>1, <1>2, <1>3 DEF TasksInv
<1> QED BY <1>1, <1>4, <1>5, <1>6, <1>7 DEF TasksInv

\* A move keeps the invariant of the answer.
LEMMA MoveKept ==
    ASSUME TasksInv, QuietInv, NEW t \in DOMAIN tasks, NEW new,
           Moves(t, tasks[t], new), tasks' = [tasks EXCEPT ![t] = new],
           UNCHANGED <<env, reducer, canceled, egErr>>
    PROVE  TasksInv' /\ QuietInv'
<1>1. /\ DOMAIN tasks' = DOMAIN tasks /\ tasks'[t] = new
      /\ \A u \in DOMAIN tasks : u # t => tasks'[u] = tasks[u]
  OBVIOUS
<1>2. TasksInv'
  BY OneTaskShards DEF Moves, reducer
<1>3. /\ Quiet' = Quiet /\ Missing' = Missing /\ Returned("nil")' = Returned("nil")
      /\ UNCHANGED <<status, err, expected, canceled, egErr, shutdown>>
  BY DEF Quiet, Missing, Returned, env, reducer
<1>4. ASSUME Quiet, status \in {"new", "running"}, NEW u \in DOMAIN tasks, tasks'[u].pc \in Live
      PROVE  Covers(tasks'[u])
  <2>1. ~canceled /\ shutdown = {}
    BY <1>4 DEF QuietInv, Quiet
  <2>2. tasks[u].pc \in Live => Covers(tasks[u])
    BY <1>4 DEF QuietInv
  <2> QED BY <1>1, <1>4, <2>1, <2>2 DEF Moves
<1>5. (Quiet /\ status \in {"new", "running"} =>
           \A u \in DOMAIN tasks : tasks[u].pc \in Live => Covers(tasks[u]))'
  BY <1>1, <1>3, <1>4
<1> QED BY <1>2, <1>3, <1>5 DEF QuietInv

\* So does the end of a goroutine, for whatever reason.
LEMMA EndKept ==
    ASSUME WorkInv, TasksInv, QuietInv, NEW t \in DOMAIN tasks, NEW e,
           tasks[t].pc # "over", GoReturns(t, e), UNCHANGED <<env, reducer>>
    PROVE  TasksInv' /\ QuietInv'
<1> DEFINE new == [tasks[t] EXCEPT !.pc = "over"]
<1>1. tasks' = [tasks EXCEPT ![t] = new]
  BY DEF GoReturns
<1>2. TaskOK(new) /\ new.shards = tasks[t].shards /\ new.pc \notin Live
  BY DEF TasksInv, TaskOK, Live
<1> HIDE DEF new
<1>3. TasksInv'
  BY <1>1, <1>2, OneTaskShards DEF reducer
<1>4. \A u \in DOMAIN tasks' : u \in DOMAIN tasks /\ (tasks'[u].pc \in Live => tasks'[u] = tasks[u])
  BY <1>1, <1>2
<1>5. Missing' = Missing /\ UNCHANGED <<status, err, expected, shutdown, parentDone>>
  BY DEF Missing, env, reducer
<1>6. Quiet' => Quiet /\ (~canceled => ~canceled')
  BY <1>5 DEF Quiet, GoReturns
<1>7. status # "returned"
  BY DEF WorkInv, AllOver
<1>8. (Quiet /\ status \in {"new", "running"} =>
           \A u \in DOMAIN tasks : tasks[u].pc \in Live => Covers(tasks[u]))'
  BY <1>4, <1>5, <1>6 DEF QuietInv
<1> QED BY <1>3, <1>5, <1>6, <1>7, <1>8 DEF QuietInv, Returned

\* The goroutines of a mapper call: the ones there were, and new ones that share
\* the shards between them.
LEMMA MapperTasks ==
    ASSUME NEW old, NEW shards, NEW ns, NEW known, NEW last,
           mapper(old, shards, ns, known, last)
    PROVE  /\ DOMAIN old \subseteq DOMAIN tasks' /\ calls' = calls + 1
           /\ \A t \in DOMAIN old : tasks'[t] = old[t]
           /\ \A t \in DOMAIN tasks' \ DOMAIN old :
                  /\ t[1] = calls + 1 /\ t[2] \in ns \ known
                  /\ \E g : g \subseteq shards /\ g # {} /\ tasks'[t] = NewTask(g, last)
           /\ \A t, u \in DOMAIN tasks' \ DOMAIN old :
                  t # u => tasks'[t].shards \cap tasks'[u].shards = {}
<1> DEFINE first(s) == ShardNodes[s][Min(Candidates(s, ns \ known))]
           group(n) == {s \in shards : first(s) = n}
           new == {n \in ns \ known : group(n) # {}}
<1>1. /\ calls' = calls + 1
      /\ tasks' = [t \in DOMAIN old \cup ({calls + 1} \X new) |->
                      IF t \in DOMAIN old THEN old[t] ELSE NewTask(group(t[2]), last)]
  BY DEF mapper, shardsByNode
<1>2. \A n \in new : n \in ns \ known /\ group(n) # {} /\ group(n) \subseteq shards
  OBVIOUS
<1>3. \A n, m : n # m => group(n) \cap group(m) = {}
  OBVIOUS
<1> HIDE DEF group, new
<1>4. \A t \in DOMAIN tasks' \ DOMAIN old :
          /\ t[1] = calls + 1 /\ t[2] \in new /\ t = <<calls + 1, t[2]>>
          /\ tasks'[t] = NewTask(group(t[2]), last)
  BY <1>1
<1>5. \A t, u \in DOMAIN tasks' \ DOMAIN old :
          t # u => tasks'[t].shards \cap tasks'[u].shards = {}
  <2> SUFFICES ASSUME NEW t \in DOMAIN tasks' \ DOMAIN old, NEW u \in DOMAIN tasks' \ DOMAIN old,
                      t # u
               PROVE  tasks'[t].shards \cap tasks'[u].shards = {}
    OBVIOUS
  <2>1. t[2] # u[2]
    BY <1>4
  <2>2. tasks'[t].shards = group(t[2]) /\ tasks'[u].shards = group(u[2])
    BY <1>4 DEF NewTask
  <2> QED BY <1>3, <2>1, <2>2
<1> QED BY <1>1, <1>2, <1>4, <1>5

\* A mapper call keeps the invariant of the answer, when the goroutine that had its
\* shards is done with them, or none had.
LEMMA MapperAnswer ==
    ASSUME TasksInv, QuietInv, NEW old, NEW shards, NEW ns, NEW known, NEW last,
           mapper(old, shards, ns, known, last),
           DOMAIN old = DOMAIN tasks, shards \subseteq Missing,
           \A t \in DOMAIN tasks : TaskOK(old[t]) /\ (old[t].pc \in Live => old[t] = tasks[t]),
           \A t \in DOMAIN tasks : old[t].pc \in Live => tasks[t].shards \cap shards = {},
           status \in {"new", "running"}, status' = "running",
           UNCHANGED <<env, expected, result, err, canceled, egErr>>
    PROVE  TasksInv' /\ QuietInv'
<1> DEFINE fresh == DOMAIN tasks' \ DOMAIN tasks
<1>1. /\ DOMAIN tasks \subseteq DOMAIN tasks' /\ calls' = calls + 1
      /\ \A t \in DOMAIN tasks : tasks'[t] = old[t]
      /\ \A t \in fresh : /\ t[1] = calls + 1
                          /\ \E g : g \subseteq shards /\ g # {} /\ tasks'[t] = NewTask(g, last)
      /\ \A t, u \in fresh : t # u => tasks'[t].shards \cap tasks'[u].shards = {}
  BY MapperTasks
<1>2. Missing' = Missing /\ Missing \subseteq Shard /\ Quiet' = Quiet
  BY DEF Missing, Quiet, env
<1>3. \A t \in fresh : /\ TaskOK(tasks'[t]) /\ tasks'[t].shards \subseteq shards
                       /\ Covers(tasks'[t])
  <2> SUFFICES ASSUME NEW t \in fresh
               PROVE  TaskOK(tasks'[t]) /\ tasks'[t].shards \subseteq shards /\ Covers(tasks'[t])
    OBVIOUS
  <2>1. PICK g : g \subseteq shards /\ g # {} /\ tasks'[t] = NewTask(g, last)
    BY <1>1
  <2> QED BY <1>2, <2>1 DEF TaskOK, Covers, NewTask
<1>4. \A t \in DOMAIN tasks' : t \in DOMAIN tasks \/ t \in fresh
  OBVIOUS
<1> HIDE DEF fresh
<1>5. (calls \in Nat /\ \A t \in DOMAIN tasks : t[1] \in 1..calls)'
  BY <1>1, <1>4 DEF TasksInv
<1>6. (\A t \in DOMAIN tasks : TaskOK(tasks[t]))'
  BY <1>1, <1>3, <1>4
<1>7. (\A t, u \in DOMAIN tasks : t # u /\ tasks[t].pc \in Live /\ tasks[u].pc \in Live =>
           tasks[t].shards \cap tasks[u].shards = {})'
  <2> SUFFICES ASSUME NEW t \in DOMAIN tasks', NEW u \in DOMAIN tasks', t # u,
                      tasks'[t].pc \in Live, tasks'[u].pc \in Live
               PROVE  tasks'[t].shards \cap tasks'[u].shards = {}
    OBVIOUS
  <2>1. CASE t \in DOMAIN tasks /\ u \in DOMAIN tasks
    BY <1>1, <2>1 DEF TasksInv
  <2>2. CASE t \in fresh /\ u \in fresh
    BY <1>1, <2>2
  <2>3. CASE t \in DOMAIN tasks /\ u \in fresh
    BY <1>1, <1>3, <2>3
  <2>4. CASE t \in fresh /\ u \in DOMAIN tasks
    BY <1>1, <1>3, <2>4
  <2> QED BY <1>4, <2>1, <2>2, <2>3, <2>4
<1>8. (\A t \in DOMAIN tasks : tasks[t].pc \in Live => tasks[t].shards \subseteq Missing)'
  BY <1>1, <1>2, <1>3, <1>4 DEF TasksInv
<1>9. TasksInv'
  BY <1>5, <1>6, <1>7, <1>8 DEF TasksInv
<1>10. (Quiet => \A t \in DOMAIN tasks : tasks[t].pc \in Live => Covers(tasks[t]))'
  <2> SUFFICES ASSUME Quiet, NEW t \in DOMAIN tasks', tasks'[t].pc \in Live
               PROVE  Covers(tasks'[t])
    BY <1>2
  <2>1. CASE t \in DOMAIN tasks
    BY <1>1, <2>1 DEF QuietInv
  <2> QED BY <1>3, <1>4, <2>1
<1>11. QuietInv'
  BY <1>2, <1>10 DEF QuietInv, Returned
<1> QED BY <1>9, <1>11

\* mapReduce takes a response of a goroutine that no longer has its shards.
LEMMA SentKept ==
    ASSUME NEW t \in DOMAIN tasks, TaskOK(tasks[t])
    PROVE  /\ DOMAIN Sent(t) = DOMAIN tasks
           /\ Sent(t) = [tasks EXCEPT ![t] = [tasks[t] EXCEPT !.pc = "sent"]]
           /\ TaskOK([tasks[t] EXCEPT !.pc = "sent"])
           /\ [tasks[t] EXCEPT !.pc = "sent"].shards = tasks[t].shards
           /\ [tasks[t] EXCEPT !.pc = "sent"].pc \notin Live
           /\ Sent(t)[t] = [tasks[t] EXCEPT !.pc = "sent"]
           /\ \A u \in DOMAIN tasks : u # t => Sent(t)[u] = tasks[u]
BY DEF Sent, TaskOK, Live

\* When mapReduce stops with an error nothing more is claimed of its answer.
LEMMA StopKept ==
    ASSUME TasksInv, NEW t \in DOMAIN tasks, NEW e, e # "nil", Returns(e), tasks' = Sent(t),
           UNCHANGED <<env, result, calls, egErr>>
    PROVE  TasksInv' /\ QuietInv'
<1>1. TaskOK(tasks[t])
  BY DEF TasksInv
<1>2. TasksInv'
  BY <1>1, SentKept, OneTaskShards DEF Returns
<1>3. QuietInv'
  BY DEF QuietInv, Returns, Returned
<1> QED BY <1>2, <1>3

\* Responses keep the invariant.
LEMMA RefusedAnswer ==
    ASSUME TasksInv, QuietInv, NEW t \in DOMAIN tasks, Refused(t)
    PROVE  TasksInv' /\ QuietInv'
<1>1. /\ status = "running" /\ tasks[t].pc = "respond" /\ tasks[t].err = "connection refused"
      /\ UNCHANGED <<env, expected, result, canceled, egErr>>
  BY DEF Refused
<1>2. TaskOK(tasks[t]) /\ tasks[t].pc \in Live
  BY <1>1 DEF TasksInv, Live
<1>3. CASE Returns(tasks[t].err) /\ tasks' = Sent(t) /\ UNCHANGED calls
  BY <1>1, <1>3, StopKept
<1>4. ASSUME NEW ns, NEW known, mapper(Sent(t), Retried(t), ns, known, TRUE),
             UNCHANGED <<status, err>>
      PROVE  TasksInv' /\ QuietInv'
  <2>1. Retried(t) \subseteq Missing
    BY <1>2 DEF TasksInv, Retried
  <2>2. \A u \in DOMAIN tasks : /\ TaskOK(Sent(t)[u])
                                /\ Sent(t)[u].pc \in Live => Sent(t)[u] = tasks[u] /\ u # t
    BY <1>2, SentKept DEF TasksInv
  <2>3. \A u \in DOMAIN tasks : Sent(t)[u].pc \in Live => tasks[u].shards \cap Retried(t) = {}
    BY <1>2, <2>2 DEF TasksInv, Retried
  <2>4. DOMAIN Sent(t) = DOMAIN tasks
    BY <1>2, SentKept
  <2> QED BY <1>1, <1>4, <2>1, <2>2, <2>3, <2>4, MapperAnswer
<1> QED BY <1>3, <1>4 DEF Refused

\* A response is reduced once, and its shards are no longer missing.
LEMMA ReduceAnswer ==
    ASSUME TasksInv, QuietInv, NEW t \in DOMAIN tasks, Reduce(t)
    PROVE  TasksInv' /\ QuietInv'
<1> DEFINE k == tasks[t]
<1>1. /\ status = "running" /\ k.pc = "respond" /\ tasks' = Sent(t)
      /\ UNCHANGED <<env, calls, canceled, egErr>>
  BY DEF Reduce
<1>2. TaskOK(k) /\ k.pc \in Live /\ k.shards \subseteq Missing /\ k.reduced \subseteq k.shards
  BY <1>1 DEF TasksInv, Live, TaskOK
<1>3. CASE k.err # "nil"
  <2>1. Returns(k.err) /\ UNCHANGED <<expected, result>>
    BY <1>3 DEF Reduce
  <2> QED BY <1>1, <1>3, <2>1, StopKept
<1>4. CASE k.err = "nil"
  <2>1. /\ expected' = expected - Cardinality(k.shards)
        /\ result' = [s \in Shard |-> result[s] + IF s \in k.reduced THEN 1 ELSE 0]
        /\ UNCHANGED <<status, err>>
    BY <1>4 DEF Reduce
  <2>2. Missing' = Missing \ k.reduced /\ result' \in [Shard -> {0, 1}]
    BY <1>2, <2>1 DEF Missing, TasksInv
  <2>3. /\ DOMAIN tasks' = DOMAIN tasks
        /\ \A u \in DOMAIN tasks : TaskOK(tasks'[u])
        /\ \A u \in DOMAIN tasks : tasks'[u].pc \in Live => u # t /\ tasks'[u] = tasks[u]
    BY <1>1, <1>2, SentKept DEF TasksInv
  <2>4. (\A u \in DOMAIN tasks : tasks[u].pc \in Live => tasks[u].shards \subseteq Missing)'
    BY <1>2, <2>2, <2>3 DEF TasksInv
  <2>5. TasksInv'
    BY <1>1, <2>1, <2>2, <2>3, <2>4 DEF TasksInv
  <2>6. Quiet' = Quiet
    BY <1>1 DEF Quiet, env
  <2>7. ASSUME Quiet PROVE expected' = Cardinality(Missing')
    <3>1. Covers(k) /\ expected = Cardinality(Missing)
      BY <1>1, <1>2, <2>7 DEF QuietInv
    <3>2. k.reduced = k.shards
      BY <1>1, <1>2, <1>4, <3>1 DEF Covers
    <3>3. IsFiniteSet(Missing)
      BY FS_Subset, MapReduceAssumption DEF Missing
    <3>4. Missing \cap k.shards = k.shards
      BY <1>2
    <3>5. Cardinality(Missing \ k.shards) = Cardinality(Missing) - Cardinality(k.shards)
      BY <3>3, <3>4, FS_Difference
    <3> QED BY <2>1, <2>2, <3>1, <3>2, <3>5
  <2>8. (Quiet => \A u \in DOMAIN tasks : tasks[u].pc \in Live => Covers(tasks[u]))'
    BY <1>1, <2>3, <2>6 DEF QuietInv
  <2>9. QuietInv'
    BY <1>1, <2>1, <2>6, <2>7, <2>8 DEF QuietInv, Returned
  <2> QED BY <2>5, <2>9
<1> QED BY <1>3, <1>4

\* A step that leaves goroutines and answer alone keeps the invariant.
LEMMA RestKept ==
    ASSUME TasksInv, QuietInv, tasks' = tasks, UNCHANGED <<reducer, egErr>>,
           shutdown \subseteq shutdown', parentDone => parentDone',
           \/ canceled' = canceled
           \/ status = "waiting"
           \/ parentDone'
    PROVE  TasksInv' /\ QuietInv'
<1>1. /\ Missing' = Missing /\ (Quiet' => Quiet) /\ Returned("nil")' = Returned("nil")
      /\ UNCHANGED <<status, err, expected, calls, result>>
  BY DEF Missing, Quiet, Returned, reducer
<1>2. TasksInv'
  BY <1>1 DEF TasksInv
<1>3. (Quiet /\ status \in {"new", "running"} => ~canceled)'
  BY <1>1 DEF QuietInv, Quiet
<1>4. QuietInv'
  BY <1>1, <1>3 DEF QuietInv
<1> QED BY <1>2, <1>4

\* The first mapper call, or none.
LEMMA StartAnswer ==
    ASSUME TasksInv, QuietInv, Start
    PROVE  TasksInv' /\ QuietInv'
<1>1. status = "new" /\ UNCHANGED <<env, expected, result, canceled, egErr>>
  BY DEF Start
<1>2. CASE Returns("unavailable") /\ UNCHANGED <<calls, tasks>>
  <2>1. Missing' = Missing
    BY <1>1 DEF Missing
  <2>2. TasksInv'
    BY <1>1, <1>2, <2>1 DEF TasksInv, Returns
  <2>3. QuietInv'
    BY <1>2 DEF QuietInv, Returns, Returned
  <2> QED BY <2>2, <2>3
<1>3. ASSUME NEW known, mapper(tasks, Shard, nodes, known, ReplicaN = 1),
             status' = "running", UNCHANGED err
      PROVE  TasksInv' /\ QuietInv'
  <2>1. DOMAIN tasks = {} /\ Missing = Shard
    BY <1>1 DEF TasksInv
  <2> QED BY <1>1, <1>3, <2>1, MapperAnswer
<1> QED BY <1>2, <1>3 DEF Start

\* Every step keeps the invariant of the answer.
LEMMA AnswerInvNext == AnswerInv /\ [Next]_vars => AnswerInv'
<1> SUFFICES ASSUME AnswerInv, [Next]_vars PROVE AnswerInv'
  OBVIOUS
<1> USE DEF AnswerInv
<1>w. WorkInv'
  BY WorkInvNext
<1>e. errors' \in Nat
  <2>1. ASSUME NEW t \in DOMAIN tasks, TaskStep(t) PROVE errors' \in Nat
    <3>1. errors' = errors \/ errors' = errors + 1
      BY <2>1 DEF TaskStep, Connect, Abandon, CheckShutdown, GiveJob, doOneJob, Gather,
                  MapperLocalReturns, Withdraw, Refused, Reduce, AfterSend
    <3> QED BY <3>1
  <2>2. ASSUME NEW n \in Node, NodeFails(n) \/ CloseExecutor(n) \/ CloseWork(n)
        PROVE  errors' = errors
    BY <2>2 DEF NodeFails, CloseExecutor, CloseWork
  <2>3. CASE Start \/ Done \/ Cancel \/ Return \/ CallerCancels \/ UNCHANGED vars
    BY <2>3 DEF Start, Done, Cancel, Return, CallerCancels, vars
  <2> QED BY <2>1, <2>2, <2>3 DEF Next, Progress
<1>1. CASE Start
  BY <1>1, <1>w, <1>e, StartAnswer
<1>2. ASSUME NEW t \in DOMAIN tasks, TaskStep(t) PROVE AnswerInv'
  <2>0. TaskOK(tasks[t])
    BY DEF TasksInv
  <2>1. CASE \/ Connect(t) \/ Abandon(t) \/ CheckShutdown(t) \/ GiveJob(t) \/ doOneJob(t)
             \/ Gather(t) \/ MapperLocalReturns(t)
    <3>1. PICK new : Moves(t, tasks[t], new) /\ tasks' = [tasks EXCEPT ![t] = new]
      BY <2>0, <2>1, StepMoves
    <3>2. UNCHANGED <<env, reducer, canceled, egErr>>
      BY <2>1 DEF Connect, Abandon, CheckShutdown, GiveJob, doOneJob, Gather, MapperLocalReturns
    <3> QED BY <1>w, <1>e, <3>1, <3>2, MoveKept
  <2>2. CASE Withdraw(t) \/ AfterSend(t)
    <3>1. PICK e : GoReturns(t, e)
      BY <2>2 DEF Withdraw, AfterSend
    <3>2. tasks[t].pc # "over" /\ UNCHANGED <<env, reducer>>
      BY <2>2 DEF Withdraw, AfterSend
    <3> QED BY <1>w, <1>e, <3>1, <3>2, EndKept
  <2> QED BY <1>2, <1>w, <1>e, <2>1, <2>2, RefusedAnswer, ReduceAnswer DEF TaskStep
<1>3. CASE Done
  <2>1. /\ status = "running" /\ status' = "waiting"
        /\ UNCHANGED <<env, expected, result, calls, canceled, egErr, tasks>>
    BY <1>3 DEF Done, Returns
  <2>2. Missing' = Missing /\ Quiet' = Quiet
    BY <2>1 DEF Missing, Quiet, env
  <2>3. ASSUME Quiet, err' = "nil" PROVE Missing = {}
    <3>1. expected <= 0 /\ expected = Cardinality(Missing)
      BY <1>3, <2>1, <2>3 DEF Done, Returns, QuietInv
    <3>2. IsFiniteSet(Missing)
      BY FS_Subset, MapReduceAssumption DEF Missing
    <3>3. Cardinality(Missing) \in Nat
      BY <3>2, FS_CardinalityType
    <3> QED BY <3>1, <3>2, <3>3, FS_EmptySet
  <2>4. TasksInv'
    BY <2>1, <2>2 DEF TasksInv
  <2>5. QuietInv'
    BY <2>1, <2>2, <2>3 DEF QuietInv, Returned
  <2> QED BY <1>w, <1>e, <2>4, <2>5
<1>4. CASE Return
  <2>1. /\ status = "waiting" /\ status' = "returned"
        /\ err' = (IF err = "nil" THEN egErr ELSE err)
        /\ UNCHANGED <<env, expected, result, calls, canceled, egErr, tasks>>
    BY <1>4 DEF Return
  <2>2. Missing' = Missing /\ Quiet' = Quiet
    BY <2>1 DEF Missing, Quiet, env
  <2>3. TasksInv'
    BY <2>1, <2>2 DEF TasksInv
  <2>4. QuietInv'
    BY <2>1, <2>2 DEF QuietInv, Returned
  <2> QED BY <1>w, <1>e, <2>3, <2>4
<1>5. CASE Cancel \/ CallerCancels \/ UNCHANGED vars
  <2>1. /\ tasks' = tasks /\ UNCHANGED <<reducer, egErr>> /\ shutdown' = shutdown
        /\ parentDone => parentDone'
        /\ canceled' = canceled \/ status = "waiting" \/ parentDone'
    BY <1>5 DEF Cancel, CallerCancels, vars, reducer, env
  <2> QED BY <1>w, <1>e, <2>1, RestKept
<1>6. ASSUME NEW n \in Node, NodeFails(n) \/ CloseExecutor(n) \/ CloseWork(n) PROVE AnswerInv'
  <2>1. /\ tasks' = tasks /\ UNCHANGED <<reducer, egErr, canceled, parentDone>>
        /\ shutdown \subseteq shutdown'
    BY <1>6 DEF NodeFails, CloseExecutor, CloseWork, reducer
  <2> QED BY <1>w, <1>e, <2>1, RestKept
<1> QED BY <1>1, <1>2, <1>3, <1>4, <1>5, <1>6 DEF Next, Progress

\* To begin with every shard is missing.
LEMMA AnswerInvInit == Init => AnswerInv
<1> SUFFICES ASSUME Init PROVE AnswerInv
  OBVIOUS
<1>1. Missing = Shard /\ result \in [Shard -> {0, 1}] /\ DOMAIN tasks = {}
  BY DEF Init, Missing, NoneReduced
<1>2. TasksInv
  BY <1>1 DEF Init, TasksInv
<1>3. QuietInv
  BY <1>1 DEF Init, QuietInv, Returned
<1> QED BY <1>2, <1>3, WorkInvInit DEF Init, AnswerInv

\* What was said of goroutines and shards holds throughout.
LEMMA AnswerInvHolds == Spec => []AnswerInv
BY AnswerInvInit, AnswerInvNext, PTL DEF Spec

\* A query that succeeds has reduced every shard once: the shards of a goroutine
\* that was refused go to goroutines that have no others in common, and expected
\* reaches zero only with the last missing shard.
THEOREM AnswerCompleteHolds == Spec => []AnswerComplete
<1>1. AnswerInv => AnswerComplete
  <2> SUFFICES ASSUME AnswerInv PROVE AnswerComplete
    OBVIOUS
  <2>1. \A s \in Shard : result[s] \in {0, 1}
    BY DEF AnswerInv, TasksInv
  <2>2. ASSUME Returned("nil"), shutdown = {}, ~parentDone PROVE \A s \in Shard : result[s] = 1
    <3>1. Missing = {}
      BY <2>2 DEF AnswerInv, QuietInv, Quiet, Returned
    <3> QED BY <2>1, <3>1 DEF Missing
  <2> QED BY <2>1, <2>2 DEF AnswerComplete
<1> QED BY <1>1, AnswerInvHolds, PTL

(***************************************************************************)
(* Failing over.                                                           *)
(***************************************************************************)

\* Nodes only stop answering, and what goes wrong stays wrong.
LEMMA CalmBefore ==
    ASSUME AnswerInv, CalmInv, [Next]_vars
    PROVE  /\ down \subseteq down' /\ IsFiniteSet(down')
           /\ Calm' => Calm /\ errors' = 0
<1>1. /\ down' = down \/ \E n : down' = down \cup {n}
      /\ shutdown \subseteq shutdown' /\ (parentDone => parentDone') /\ limited' = limited
      /\ errors' = errors \/ errors' = errors + 1
  <2>1. ASSUME NEW t \in DOMAIN tasks, TaskStep(t)
        PROVE  UNCHANGED env /\ (errors' = errors \/ errors' = errors + 1)
    BY <2>1 DEF TaskStep, Connect, Abandon, CheckShutdown, GiveJob, doOneJob, Gather,
                MapperLocalReturns, Withdraw, Refused, Reduce, AfterSend
  <2>2. ASSUME NEW n \in Node, NodeFails(n) \/ CloseExecutor(n) \/ CloseWork(n)
        PROVE  /\ down' = down \/ down' = down \cup {n}
               /\ shutdown \subseteq shutdown' /\ UNCHANGED <<parentDone, limited, errors>>
    BY <2>2 DEF NodeFails, CloseExecutor, CloseWork
  <2>3. CASE Start \/ Done \/ Cancel \/ Return \/ UNCHANGED vars
    BY <2>3 DEF Start, Done, Cancel, Return, vars, env
  <2>4. CASE CallerCancels
    BY <2>4 DEF CallerCancels
  <2> QED BY <2>1, <2>2, <2>3, <2>4 DEF Next, Progress, env
<1>2. IsFiniteSet(down')
  BY <1>1, FS_AddElement DEF CalmInv
<1>3. down \subseteq down'
  BY <1>1
<1>4. Cardinality(down) <= Cardinality(down') /\ Cardinality(down) \in Nat /\ Cardinality(down') \in Nat
  BY <1>2, <1>3, FS_Subset, FS_CardinalityType DEF CalmInv
<1>5. errors' = 0 => errors = 0
  BY <1>1 DEF AnswerInv
<1> QED BY <1>1, <1>2, <1>3, <1>4, <1>5 DEF Calm, OnlyRefusals

\* One node at most is down.
LEMMA OneDown ==
    ASSUME CalmInv, Calm, NEW d \in down, NEW e \in down
    PROVE  d = e
<1>1. IsFiniteSet(down) /\ Cardinality(down) <= 1
  BY DEF CalmInv, Calm
<1>2. Cardinality(down) \in Nat
  BY <1>1, FS_CardinalityType
<1>3. Cardinality(down) # 0
  BY <1>1, FS_EmptySet
<1>4. PICK x : down = {x}
  BY <1>1, <1>2, <1>3, FS_Singleton
<1> QED BY <1>4

\* Then every shard has an owner that answers.
LEMMA OwnerLeft ==
    ASSUME CalmInv, Calm, NEW shards \in SUBSET Shard, NEW ns, Node \ ns \subseteq down
    PROVE  ~errShardUnavailable(shards, ns)
<1> SUFFICES ASSUME NEW s \in Shard PROVE Candidates(s, ns) # {}
  BY DEF errShardUnavailable
<1>1. 1 \in 1..ReplicaN /\ 2 \in 1..ReplicaN
  BY MapReduceAssumption DEF Calm
<1>2. ShardNodes[s][1] \in Node /\ ShardNodes[s][2] \in Node
  BY <1>1, MapReduceAssumption
<1>3. ShardNodes[s][1] # ShardNodes[s][2]
  BY <1>1, MapReduceAssumption
<1>4. ShardNodes[s][1] \in ns \/ ShardNodes[s][2] \in ns
  BY <1>2, <1>3, OneDown
<1> QED BY <1>1, <1>4 DEF Candidates

\* While a goroutine is at work nothing is canceled.
LEMMA CalmLive ==
    ASSUME AnswerInv, CalmInv, Calm
    PROVE  /\ status \in {"new", "running"} => ~canceled
           /\ \A t \in DOMAIN tasks : tasks[t].pc \in Live => ~canceled /\ shutdown = {}
<1>1. Quiet
  BY DEF CalmInv, Calm, Quiet, OnlyRefusals
<1>2. status \in {"new", "running", "waiting", "returned"}
  BY DEF AnswerInv, QuietInv
<1> QED BY <1>1, <1>2 DEF AnswerInv, QuietInv, CalmInv, Quiet

\* A goroutine stays calm when more nodes are down.
LEMMA TaskCalmKept ==
    ASSUME NEW t, NEW k, TaskCalm(t, k), down \subseteq down'
    PROVE  TaskCalm(t, k)'
BY DEF TaskCalm

\* A mapper call gives the goroutines that it starts a node that answers, when it
\* is the last.
LEMMA MapperCalm ==
    ASSUME NEW old, NEW shards, NEW ns, NEW known, NEW last,
           mapper(old, shards, ns, known, last),
           last => \E d \in down : d \notin ns,
           \A t \in DOMAIN old : TaskCalm(t, old[t])
    PROVE  \A t \in DOMAIN tasks' : TaskCalm(t, tasks'[t])
<1> SUFFICES ASSUME NEW t \in DOMAIN tasks' PROVE TaskCalm(t, tasks'[t])
  OBVIOUS
<1>1. CASE t \in DOMAIN old
  BY <1>1, MapperTasks
<1>2. CASE t \notin DOMAIN old
  <2>1. t[2] \in ns /\ \E g : tasks'[t] = NewTask(g, last)
    BY <1>2, MapperTasks
  <2>2. tasks'[t].err = "nil" /\ tasks'[t].done = {} /\ tasks'[t].last = last
    BY <2>1 DEF NewTask
  <2>3. "nil" # "connection refused"
    OBVIOUS
  <2> QED BY <2>1, <2>2, <2>3, Zenon DEF TaskCalm
<1> QED BY <1>1, <1>2

\* Every step keeps the invariant of failing over.
LEMMA CalmInvNext == AnswerInv /\ CalmInv /\ [Next]_vars => CalmInv'
<1> SUFFICES ASSUME AnswerInv, CalmInv, [Next]_vars PROVE CalmInv'
  OBVIOUS
<1> DEFINE Rest == /\ Node \ nodes' \subseteq down /\ err' = "nil" /\ egErr' = "nil"
                   /\ \A t \in DOMAIN tasks' : TaskCalm(t, tasks'[t])
                   /\ status' \in {"waiting", "returned"} =>
                          \A t \in DOMAIN tasks' : tasks'[t].pc \notin Live
<1>1. down \subseteq down' /\ IsFiniteSet(down') /\ (Calm' => Calm /\ errors' = 0)
  BY CalmBefore
<1> SUFFICES ASSUME Calm, errors' = 0 PROVE Rest
  <2>1. ASSUME Calm' PROVE (\A t \in DOMAIN tasks : TaskCalm(t, tasks[t]))'
    <3>1. \A t \in DOMAIN tasks' : TaskCalm(t, tasks'[t])
      BY <1>1, <2>1
    <3> QED BY <1>1, <3>1 DEF TaskCalm
  <2> QED BY <1>1, <2>1 DEF CalmInv
<1>2. /\ Node \ nodes \subseteq down /\ err = "nil" /\ egErr = "nil"
      /\ \A t \in DOMAIN tasks : TaskCalm(t, tasks[t])
      /\ status \in {"waiting", "returned"} => \A t \in DOMAIN tasks : tasks[t].pc \notin Live
      /\ \A t \in DOMAIN tasks : TaskOK(tasks[t])
  BY DEF CalmInv, AnswerInv, TasksInv
<1>3. /\ status \in {"new", "running"} => ~canceled
      /\ \A t \in DOMAIN tasks : tasks[t].pc \in Live => ~canceled /\ shutdown = {}
  BY CalmLive
<1>4. \A d, e \in down : d = e
  BY OneDown
<1> HIDE DEF Rest
<1>5. CASE Start
  <2>1. PICK known \in SUBSET down :
            IF errShardUnavailable(Shard, nodes \ known)
            THEN Returns("unavailable") /\ UNCHANGED <<calls, tasks>>
            ELSE /\ mapper(tasks, Shard, nodes, known, ReplicaN = 1)
                 /\ status' = "running" /\ UNCHANGED err
    BY <1>5 DEF Start
  <2>2. ~errShardUnavailable(Shard, nodes \ known)
    BY <1>2, OwnerLeft
  <2>3. mapper(tasks, Shard, nodes, known, ReplicaN = 1) /\ status' = "running" /\ UNCHANGED err
    BY <2>1, <2>2
  <2>4. ~(ReplicaN = 1)
    BY DEF Calm
  <2>5. \A t \in DOMAIN tasks' : TaskCalm(t, tasks'[t])
    BY <1>2, <2>3, <2>4, MapperCalm
  <2>6. UNCHANGED <<nodes, egErr>>
    BY <1>5 DEF Start
  <2> QED BY <1>2, <2>3, <2>5, <2>6 DEF Rest
<1>6. ASSUME NEW t \in DOMAIN tasks, TaskStep(t) PROVE Rest
  <2> DEFINE k == tasks[t]
  <2>0. TaskOK(k) /\ TaskCalm(t, k)
    BY <1>2
  <2>1. CASE \/ Connect(t) \/ Abandon(t) \/ CheckShutdown(t) \/ GiveJob(t) \/ doOneJob(t)
             \/ Gather(t) \/ MapperLocalReturns(t)
    <3>1. PICK new : Moves(t, k, new) /\ tasks' = [tasks EXCEPT ![t] = new]
      BY <2>0, <2>1, StepMoves DEF AnswerInv
    <3>2. UNCHANGED <<env, reducer, canceled, egErr>>
      BY <2>1 DEF Connect, Abandon, CheckShutdown, GiveJob, doOneJob, Gather, MapperLocalReturns
    <3>3. TaskCalm(t, new) /\ (new.pc \in Live <=> k.pc \in Live)
      BY <1>3, <1>4, <2>0, <3>1 DEF Moves
    <3>4. \A u \in DOMAIN tasks' : /\ u \in DOMAIN tasks /\ TaskCalm(u, tasks'[u])
                                   /\ tasks'[u].pc \in Live => tasks[u].pc \in Live
      BY <1>2, <3>1, <3>3
    <3>5. UNCHANGED <<nodes, err, status, egErr>>
      BY <3>2 DEF reducer
    <3> QED BY <1>2, <3>4, <3>5 DEF Rest
  <2>2. CASE Withdraw(t)
    <3>1. k.pc \in Live /\ (canceled \/ limited)
      BY <2>2 DEF Withdraw, Live
    <3> QED BY <1>3, <3>1 DEF Calm, OnlyRefusals
  <2>3. CASE AfterSend(t)
    <3>1. tasks' = [tasks EXCEPT ![t] = [k EXCEPT !.pc = "over"]] /\ UNCHANGED reducer
      BY <2>3 DEF AfterSend, GoReturns
    <3>2. k.last => k.err = "nil"
      BY <2>0 DEF TaskCalm
    <3>3. GoReturns(t, "nil")
      <4>1. (IF k.last THEN k.err ELSE "nil") = "nil"
        BY <3>2
      <4> QED BY <2>3, <4>1 DEF AfterSend
    <3>4. egErr' = "nil"
      BY <1>2, <3>3 DEF GoReturns
    <3>5. TaskCalm(t, [k EXCEPT !.pc = "over"]) /\ [k EXCEPT !.pc = "over"].pc \notin Live
      BY <2>0 DEF TaskCalm, TaskOK, Live
    <3>6. \A u \in DOMAIN tasks' : /\ u \in DOMAIN tasks /\ TaskCalm(u, tasks'[u])
                                   /\ tasks'[u].pc \in Live => tasks[u].pc \in Live
      BY <1>2, <3>1, <3>5
    <3>7. UNCHANGED <<nodes, err, status>>
      BY <3>1 DEF reducer
    <3> QED BY <1>2, <3>4, <3>6, <3>7 DEF Rest
  <2>s. /\ DOMAIN Sent(t) = DOMAIN tasks
        /\ \A u \in DOMAIN tasks : TaskCalm(u, Sent(t)[u])
    <3>1. TaskCalm(t, [k EXCEPT !.pc = "sent"])
      BY <2>0 DEF TaskCalm, TaskOK, Live
    <3> QED BY <1>2, <2>0, <3>1, SentKept
  <2>4. CASE Refused(t)
    <3>1. /\ status = "running" /\ k.err = "connection refused" /\ nodes' = nodes \ {t[2]}
          /\ UNCHANGED egErr
      BY <2>4 DEF Refused, Remaining
    <3>2. t[2] \in down
      BY <2>0, <3>1 DEF TaskCalm
    <3>3. PICK known \in SUBSET down :
              IF errShardUnavailable(Retried(t), (nodes \ {t[2]}) \ known)
              THEN Returns(k.err) /\ tasks' = Sent(t) /\ UNCHANGED calls
              ELSE /\ mapper(Sent(t), Retried(t), nodes \ {t[2]}, known, TRUE)
                   /\ UNCHANGED <<status, err>>
      BY <2>4 DEF Refused, Remaining
    <3>4. Retried(t) \subseteq Shard /\ Node \ ((nodes \ {t[2]}) \ known) \subseteq down
      BY <1>2, <2>0, <3>2 DEF Retried, TaskOK
    <3>5. ~errShardUnavailable(Retried(t), (nodes \ {t[2]}) \ known)
      BY <3>4, OwnerLeft
    <3>6. mapper(Sent(t), Retried(t), nodes \ {t[2]}, known, TRUE) /\ UNCHANGED <<status, err>>
      BY <3>3, <3>5
    <3>7. \A u \in DOMAIN tasks' : TaskCalm(u, tasks'[u])
      <4>1. \E d \in down : d \notin nodes \ {t[2]}
        BY <3>2
      <4>2. \A u \in DOMAIN Sent(t) : TaskCalm(u, Sent(t)[u])
        BY <2>s
      <4> QED BY <3>6, <4>1, <4>2, MapperCalm, Zenon
    <3> QED BY <1>2, <3>1, <3>2, <3>6, <3>7 DEF Rest
  <2>5. CASE Reduce(t)
    <3>1. k.err = "nil"
      BY <2>0, <2>5 DEF Reduce, TaskCalm
    <3>2. /\ status = "running" /\ tasks' = Sent(t)
          /\ UNCHANGED <<nodes, egErr, status, err>>
      BY <2>5, <3>1 DEF Reduce
    <3> QED BY <1>2, <2>s, <3>2 DEF Rest
  <2> QED BY <1>6, <2>1, <2>2, <2>3, <2>4, <2>5 DEF TaskStep
<1>7. CASE Done
  <2>1. status = "running" /\ ~canceled
    BY <1>3, <1>7 DEF Done
  <2>2. status' = "waiting" /\ err' = "nil" /\ UNCHANGED <<nodes, egErr, tasks, result, env>>
    BY <1>7, <2>1 DEF Done, Returns
  <2>3. AnswerInv'
    BY AnswerInvNext
  <2>4. Missing' = {}
    <3>1. Quiet'
      BY <1>2, <2>2 DEF Quiet, Calm, OnlyRefusals, env
    <3> QED BY <2>2, <2>3, <3>1 DEF AnswerInv, QuietInv
  <2>5. Missing = {}
    BY <2>2, <2>4 DEF Missing
  <2>6. \A t \in DOMAIN tasks : tasks[t].pc \notin Live
    BY <2>5 DEF AnswerInv, TasksInv, TaskOK
  <2> QED BY <1>2, <2>2, <2>6 DEF Rest
<1>8. CASE Return
  <2>1. status = "waiting" /\ err' = "nil" /\ UNCHANGED <<nodes, egErr, tasks>>
    BY <1>2, <1>8 DEF Return
  <2> QED BY <1>2, <2>1 DEF Rest
<1>9. CASE Cancel \/ CallerCancels \/ UNCHANGED vars
  <2>1. UNCHANGED <<nodes, err, status, egErr, tasks>>
    BY <1>9 DEF Cancel, CallerCancels, vars, reducer
  <2> QED BY <1>2, <2>1 DEF Rest
<1>10. ASSUME NEW n \in Node, NodeFails(n) \/ CloseExecutor(n) \/ CloseWork(n) PROVE Rest
  <2>1. UNCHANGED <<nodes, err, status, egErr, tasks>>
    BY <1>10 DEF NodeFails, CloseExecutor, CloseWork, reducer
  <2> QED BY <1>2, <2>1 DEF Rest
<1> QED BY <1>5, <1>6, <1>7, <1>8, <1>9, <1>10 DEF Next, Progress

\* One node that refuses connections fails no query when shards have replicas:
\* every shard has an owner that answers, the first attempt is not the last one,
\* and the second does not go to that node.
THEOREM FailsOverHolds == Spec => []FailsOver
<1>1. Init => CalmInv
  BY FS_EmptySet DEF Init, CalmInv
<1>2. AnswerInv /\ CalmInv /\ [Next]_vars => CalmInv'
  BY CalmInvNext
<1>3. Spec => []CalmInv
  BY <1>1, <1>2, AnswerInvHolds, PTL DEF Spec
<1>4. CalmInv => FailsOver
  BY DEF CalmInv, Calm, FailsOver
<1> QED BY <1>3, <1>4, PTL
=============================================================================
