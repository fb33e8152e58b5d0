------------------------- MODULE TransactionManager -------------------------
(***************************************************************************)
(* The transaction manager of one node (transaction.go).                   *)
(*                                                                         *)
(* Clients start transactions, finish them and push their deadlines back.  *)
(* An exclusive transaction waits, inactive, until it is the only one      *)
(* left.  A background goroutine, the deadline checker, finishes expired   *)
(* transactions, but only runs while somebody waits for one to go away.    *)
(*                                                                         *)
(* Every method runs under tm.mu, so each is one action.  The goroutine    *)
(* gives the lock up between a pass over the deadlines, its sleep and its  *)
(* last assignment to checkingDeadlines, so it is three actions.           *)
(***************************************************************************)
EXTENDS Integers, FiniteSets

CONSTANTS
    ID,        \* transaction ids
    Timeout,   \* the timeouts clients ask for, in clock ticks
    Checker,   \* names for goroutines running deadlineChecker
    LastCall,  \* bound: no deadline is set after this time
    MaxTime    \* bound: the clock stops here

ASSUME TimeAssumption ==
    /\ Timeout \subseteq Nat
    /\ LastCall \in Nat
    /\ MaxTime \in Nat

ASSUME IDAssumption == IsFiniteSet(ID)

VARIABLES
    store,              \* the TransactionStore: id -> transaction or NoTrns
    checkingDeadlines,  \* tm.checkingDeadlines
    checker,            \* where each deadlineChecker goroutine is
    wakeAt,             \* earliest end of that goroutine's time.Sleep
    panicked,           \* the sanity check of finish failed
    now                 \* time.Now()

vars == <<store, checkingDeadlines, checker, wakeAt, panicked, now>>

Transaction ==
    [Active : BOOLEAN, Exclusive : BOOLEAN, Timeout : Nat, Deadline : Nat]

\* An id with no entry in the store.
NoTrns == [Active |-> FALSE, Exclusive |-> FALSE, Timeout |-> 0, Deadline |-> -1]

TypeOK ==
    /\ store \in [ID -> Transaction \cup {NoTrns}]
    /\ checkingDeadlines \in BOOLEAN
    /\ checker \in [Checker -> {"none", "check", "sleep", "stop"}]
    /\ wakeAt \in [Checker -> Nat]
    /\ panicked \in BOOLEAN
    /\ now \in Nat

-----------------------------------------------------------------------------
\* The keys of the map that store.List returns, for a store s.
List(s) == {id \in ID : s[id] # NoTrns}

\* Mutant: only a running exclusive transaction turns others away.
HasActiveExclusive(s) == \E id \in List(s) : s[id].Exclusive /\ s[id].Active

HasExclusive(s) == \E id \in List(s) : s[id].Exclusive

Put(s, id, trns) == [s EXCEPT ![id] = trns]

\* Mutants of finish: it activates without counting what remains, or never.
FinishActivatesEarly(s, ids) ==
    [id \in ID |->
        IF id \in ids THEN NoTrns
        ELSE IF id \in List(s) /\ s[id].Exclusive
             THEN [s[id] EXCEPT !.Active = TRUE,
                                !.Deadline = now + s[id].Timeout]
             ELSE s[id]]
FinishNeverActivates(s, ids) ==
    [id \in ID |-> IF id \in ids THEN NoTrns ELSE s[id]]

\* finish removes ids; when a single exclusive transaction remains, it becomes
\* active and its deadline starts again.
Finish_(s, ids) ==
    LET rest == List(s) \ ids IN
    [id \in ID |->
        IF id \in ids THEN NoTrns
        ELSE IF rest = {id} /\ s[id].Exclusive
             THEN [s[id] EXCEPT !.Active = TRUE,
                                !.Deadline = now + s[id].Timeout]
             ELSE s[id]]

\* The panic of finish: some order of removing ids one by one leaves an
\* exclusive transaction alone that was active already.
FinishPanics(s, ids) ==
    \E e \in List(s) :
        /\ s[e].Exclusive /\ s[e].Active
        /\ ids \ {e} # {}
        /\ List(s) \ ids \subseteq {e}

\* Mutant: a goroutine is started without looking at the flag.
StartAnotherChecker ==
    /\ checkingDeadlines' = TRUE
    /\ \E c \in Checker :
           /\ checker[c] = "none"
           /\ checker' = [checker EXCEPT ![c] = "check"]

\* startDeadlineChecker: at most one goroutine, guarded by the flag.
StartDeadlineChecker ==
    IF checkingDeadlines
    THEN UNCHANGED <<checkingDeadlines, checker>>
    ELSE /\ checkingDeadlines' = TRUE
         /\ \E c \in Checker :
                /\ checker[c] = "none"
                /\ checker' = [checker EXCEPT ![c] = "check"]

-----------------------------------------------------------------------------
\* NewTransactionManager: an empty store and a first deadline checker.
Init ==
    /\ store = [id \in ID |-> NoTrns]
    /\ checkingDeadlines = TRUE
    /\ \E c \in Checker :
           checker = [d \in Checker |-> IF d = c THEN "check" ELSE "none"]
    /\ wakeAt = [c \in Checker |-> 0]
    /\ panicked = FALSE
    /\ now = 0

\* Start turned away with ErrTransactionExclusive.
StartRefused ==
    /\ HasExclusive(store)
    /\ StartDeadlineChecker
    /\ UNCHANGED <<store, wakeAt, panicked, now>>

\* Start succeeds (with ErrTransactionExists it changes nothing).
Start(id, timeout, exclusive) ==
    /\ now <= LastCall
    /\ ~HasExclusive(store)
    /\ id \notin List(store)
    /\ LET active == ~exclusive \/ List(store) = {} IN
       /\ store' = Put(store, id, [Active |-> active, Exclusive |-> exclusive,
                                   Timeout |-> timeout,
                                   Deadline |-> now + timeout])
       /\ IF exclusive /\ ~active
          THEN StartDeadlineChecker
          ELSE UNCHANGED <<checkingDeadlines, checker>>
    /\ UNCHANGED <<wakeAt, panicked, now>>

Finish(id) ==
    /\ id \in List(store)
    /\ store' = Finish_(store, {id})
    /\ panicked' = (panicked \/ FinishPanics(store, {id}))
    /\ UNCHANGED <<checkingDeadlines, checker, wakeAt, now>>

ResetDeadline(id) ==
    /\ now <= LastCall
    /\ id \in List(store)
    /\ store' = Put(store, id, [store[id] EXCEPT
                                   !.Deadline = now + store[id].Timeout])
    /\ UNCHANGED <<checkingDeadlines, checker, wakeAt, panicked, now>>

\* Mutant: a pass expires waiting transactions too.
ExpiredOrPending == {id \in List(store) : store[id].Deadline <= now}

\* The transactions a pass over the deadlines finishes, and those it finds
\* still running; both from the copy of the store it took at its start.
Expired == {id \in List(store) : store[id].Active /\ store[id].Deadline <= now}
Upcoming == {id \in List(store) : store[id].Active /\ store[id].Deadline > now}

\* One checkDeadlines: the goroutine sleeps until the next deadline it saw, or
\* is told to stop when nobody waits or it saw none.
CheckDeadlines(c) ==
    /\ checker[c] = "check"
    /\ IF ~HasExclusive(store)
       THEN /\ checker' = [checker EXCEPT ![c] = "stop"]
            /\ UNCHANGED <<store, wakeAt, panicked>>
       ELSE /\ store' = IF Expired = {} THEN store ELSE Finish_(store, Expired)
            /\ panicked' = (panicked \/ FinishPanics(store, Expired))
            /\ IF Upcoming = {}
               THEN /\ checker' = [checker EXCEPT ![c] = "stop"]
                    /\ UNCHANGED wakeAt
               ELSE /\ checker' = [checker EXCEPT ![c] = "sleep"]
                    /\ \E id \in Upcoming :
                           /\ \A o \in Upcoming :
                                  store[id].Deadline <= store[o].Deadline
                           /\ wakeAt' = [wakeAt EXCEPT ![c] = store[id].Deadline]
    /\ UNCHANGED <<checkingDeadlines, now>>

Wake(c) ==
    /\ checker[c] = "sleep"
    /\ now >= wakeAt[c]
    /\ checker' = [checker EXCEPT ![c] = "check"]
    /\ UNCHANGED <<store, checkingDeadlines, wakeAt, panicked, now>>

\* The goroutine takes the lock once more to clear the flag, and ends.
StopChecking(c) ==
    /\ checker[c] = "stop"
    /\ checkingDeadlines' = FALSE
    /\ checker' = [checker EXCEPT ![c] = "none"]
    /\ UNCHANGED <<store, wakeAt, panicked, now>>

Tick ==
    /\ now < MaxTime
    /\ now' = now + 1
    /\ UNCHANGED <<store, checkingDeadlines, checker, wakeAt, panicked>>

Client ==
    \/ StartRefused
    \/ \E id \in ID, timeout \in Timeout, exclusive \in BOOLEAN :
           Start(id, timeout, exclusive)
    \/ \E id \in ID : Finish(id) \/ ResetDeadline(id)

Checking == \E c \in Checker : CheckDeadlines(c) \/ Wake(c) \/ StopChecking(c)

Next == Client \/ Checking \/ Tick

Spec == Init /\ [][Next]_vars

\* The runtime schedules the goroutine and time passes.  Nothing is assumed of
\* the clients: whoever was turned away may never ask again.
FairSpec ==
    /\ Spec
    /\ WF_vars(Checking)
    /\ WF_vars(Tick)

-----------------------------------------------------------------------------
\* An exclusive transaction that has become active is the only transaction,
\* there is never a second exclusive one, and one that is not exclusive never
\* waits (the rules of the Transaction type, kept by Start and finish).
Exclusivity ==
    /\ \A e \in List(store) :
           store[e].Exclusive /\ store[e].Active => List(store) = {e}
    /\ \A e, f \in List(store) : store[e].Exclusive /\ store[f].Exclusive => e = f
    /\ \A e \in List(store) : store[e].Exclusive \/ store[e].Active

\* The sanity check of finish never panics, whichever of clients and deadline
\* checker removed the other transactions and in whatever order.
NoPanic == ~panicked

Live(c) == checker[c] # "none"

\* The flag checkingDeadlines and the goroutines agree: at most one goroutine,
\* and one exactly while the flag is set, although the goroutine decides to
\* stop and clears the flag in two critical sections.
OneChecker ==
    /\ \A c, d \in Checker : Live(c) /\ Live(d) => c = d
    /\ checkingDeadlines <=> \E c \in Checker : Live(c)

\* A waiting exclusive transaction gets its whole timeout: the deadline checker
\* (whose pass is the step that changes its pc from "check") removes only active
\* transactions past their deadline, and whoever activates a transaction starts
\* its deadline again at that moment.
WaiterGetsItsTime ==
    [][/\ \A c \in Checker :
              checker[c] = "check" /\ checker'[c] # "check" =>
                  \A id \in List(store) \ List(store') :
                      store[id].Active /\ store[id].Deadline <= now
       /\ \A id \in List(store) :
              ~store[id].Active /\ store'[id].Active =>
                  store'[id].Deadline = now + store[id].Timeout]_vars

Pending(id) == id \in List(store) /\ ~store[id].Active

\* Some goroutine has not decided to stop (it is in checkDeadlines or asleep).
Watched == \E c \in Checker : checker[c] \in {"check", "sleep"}

\* No starvation: once clients stop pushing deadlines back (after LastCall), a
\* waiting exclusive transaction that has a deadline checker is activated or
\* finished, whatever the clients do.  The comments of Start (103-104, 139-143)
\* promise a checker to everybody who waits, but a transaction that starts to
\* wait after the goroutine decided to stop and before it cleared the flag
\* (transaction.go:238-240) gets none until another Start is refused.  Nothing is
\* claimed for it: without "Watched" TLC shows that it may wait for ever.
PendingResolved ==
    \A id \in ID : (Pending(id) /\ Watched) ~> ~Pending(id)

=============================================================================
