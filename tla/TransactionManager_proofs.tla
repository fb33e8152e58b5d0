---------------------- MODULE TransactionManager_proofs ----------------------
(***************************************************************************)
(* Proofs about the transaction manager, for every set of ids, timeouts    *)
(* and goroutines.                                                         *)
(***************************************************************************)
EXTENDS TransactionManager, TLAPS

\* A transaction in the store is typed and is not the absent one.
LEMMA StoredTyped ==
    ASSUME TypeOK, NEW id \in List(store)
    PROVE  /\ id \in ID
           /\ store[id] \in Transaction
BY DEF TypeOK, List

\* The absent transaction is no Transaction: its deadline is negative.
LEMMA NoTrnsIsNone == NoTrns \notin Transaction
<1>1. NoTrns.Deadline = -1
  BY DEF NoTrns
<1>2. \A r \in Transaction : r.Deadline \in Nat
  BY DEF Transaction
<1> QED BY <1>1, <1>2

\* Activating a transaction changes neither its type nor whether it is exclusive.
LEMMA Activated ==
    ASSUME NEW r \in Transaction, NEW d \in Nat
    PROVE  /\ [r EXCEPT !.Active = TRUE, !.Deadline = d] \in Transaction
           /\ [r EXCEPT !.Active = TRUE, !.Deadline = d].Active = TRUE
           /\ [r EXCEPT !.Active = TRUE, !.Deadline = d].Exclusive = r.Exclusive
           /\ [r EXCEPT !.Active = TRUE, !.Deadline = d].Deadline = d
BY DEF Transaction

\* finish keeps the store typed.
LEMMA FinishTyped ==
    ASSUME TypeOK, NEW ids \in SUBSET ID
    PROVE  Finish_(store, ids) \in [ID -> Transaction \cup {NoTrns}]
<1> DEFINE F(id) == Finish_(store, ids)[id]
<1> SUFFICES ASSUME NEW id \in ID
             PROVE  F(id) \in Transaction \cup {NoTrns}
  BY DEF Finish_
<1>1. CASE id \in ids
  BY <1>1 DEF Finish_
<1>2. CASE id \notin ids /\ List(store) \ ids = {id} /\ store[id].Exclusive
  <2>1. id \in List(store)
    BY <1>2
  <2>2. store[id] \in Transaction
    BY <2>1, StoredTyped
  <2>3. F(id) = [store[id] EXCEPT !.Active = TRUE,
                                  !.Deadline = now + store[id].Timeout]
    BY <1>2 DEF Finish_
  <2>4. now + store[id].Timeout \in Nat
    BY <2>2 DEF Transaction, TypeOK
  <2> QED BY <2>2, <2>3, <2>4, Activated
<1>3. CASE id \notin ids /\ ~(List(store) \ ids = {id} /\ store[id].Exclusive)
  <2>1. F(id) = store[id]
    BY <1>3 DEF Finish_
  <2> QED BY <2>1 DEF TypeOK
<1> QED BY <1>1, <1>2, <1>3

\* What finish leaves in the store: the transactions that were not removed,
\* with the same Exclusive; one that changed is the exclusive one left alone.
LEMMA FinishLeaves ==
    ASSUME TypeOK, NEW ids \in SUBSET ID
    PROVE  /\ List(Finish_(store, ids)) = List(store) \ ids
           /\ \A id \in List(store) \ ids :
                 /\ Finish_(store, ids)[id].Exclusive = store[id].Exclusive
                 /\ \/ Finish_(store, ids)[id] = store[id]
                    \/ /\ store[id].Exclusive
                       /\ List(store) \ ids = {id}
                       /\ Finish_(store, ids)[id].Active
<1> DEFINE F(id) == Finish_(store, ids)[id]
<1>1. ASSUME NEW id \in ids
      PROVE  F(id) = NoTrns
  BY <1>1 DEF Finish_
<1>2. ASSUME NEW id \in ID \ ids, id \notin List(store)
      PROVE  F(id) = NoTrns
  <2>1. List(store) \ ids # {id}
    BY <1>2
  <2>2. F(id) = store[id]
    BY <2>1, <1>2 DEF Finish_
  <2> QED BY <2>2, <1>2 DEF List
<1>3. ASSUME NEW id \in List(store) \ ids
      PROVE  /\ F(id) \in Transaction
             /\ F(id).Exclusive = store[id].Exclusive
             /\ \/ F(id) = store[id]
                \/ /\ store[id].Exclusive
                   /\ List(store) \ ids = {id}
                   /\ F(id).Active
  <2>0. id \in ID /\ store[id] \in Transaction \cup {NoTrns} /\ store[id] # NoTrns
    BY <1>3, StoredTyped DEF List
  <2>1. id \in ID /\ store[id] \in Transaction
    BY <2>0
  <2>2. CASE List(store) \ ids = {id} /\ store[id].Exclusive
    <3>1. F(id) = [store[id] EXCEPT !.Active = TRUE,
                                    !.Deadline = now + store[id].Timeout]
      BY <2>2, <2>1, <1>3 DEF Finish_
    <3> DEFINE d == now + store[id].Timeout
    <3>2. d \in Nat
      BY <2>1 DEF Transaction, TypeOK
    <3> DEFINE a == [store[id] EXCEPT !.Active = TRUE, !.Deadline = d]
    <3>3. a \in Transaction /\ a.Active = TRUE /\ a.Exclusive = store[id].Exclusive
      <4> HIDE DEF d
      <4> QED BY <3>2, <2>1, Activated
    <3>4. F(id) = a
      BY <3>1
    <3> HIDE DEF F, a
    <3> QED BY <3>3, <3>4, <2>2, Zenon
  <2>3. CASE ~(List(store) \ ids = {id} /\ store[id].Exclusive)
    <3>1. F(id) = store[id]
      BY <2>3, <2>1, <1>3 DEF Finish_
    <3> QED BY <3>1, <2>1
  <2> QED BY <2>2, <2>3
<1>4. \A id \in ID : F(id) # NoTrns <=> id \in List(store) \ ids
  BY <1>1, <1>2, <1>3, NoTrnsIsNone
<1>5. List(Finish_(store, ids)) = List(store) \ ids
  BY <1>4 DEF List
<1> QED BY <1>3, <1>5

\* What Put leaves in the store.
LEMMA PutLeaves ==
    ASSUME TypeOK, NEW i \in ID, NEW trns \in Transaction
    PROVE  /\ Put(store, i, trns) \in [ID -> Transaction \cup {NoTrns}]
           /\ List(Put(store, i, trns)) = List(store) \cup {i}
           /\ Put(store, i, trns)[i] = trns
           /\ \A id \in ID \ {i} : Put(store, i, trns)[id] = store[id]
BY NoTrnsIsNone DEF TypeOK, Put, List

-----------------------------------------------------------------------------
\* The state of the manager is well typed throughout.
THEOREM TypeCorrect == Spec => []TypeOK
<1>1. Init => TypeOK
  <2> SUFFICES ASSUME Init PROVE TypeOK
    OBVIOUS
  <2>1. PICK c \in Checker :
            checker = [d \in Checker |-> IF d = c THEN "check" ELSE "none"]
    BY DEF Init
  <2>2. checker \in [Checker -> {"none", "check", "sleep", "stop"}]
    BY <2>1
  <2> QED BY <2>2 DEF Init, TypeOK
<1>2. TypeOK /\ [Next]_vars => TypeOK'
  <2> SUFFICES ASSUME TypeOK, [Next]_vars PROVE TypeOK'
    OBVIOUS
  <2>1. ASSUME StartRefused PROVE TypeOK'
    BY <2>1 DEF StartRefused, StartDeadlineChecker, TypeOK
  <2>2. ASSUME NEW id \in ID, NEW timeout \in Timeout, NEW exclusive \in BOOLEAN,
               Start(id, timeout, exclusive)
        PROVE  TypeOK'
    <3> DEFINE trns == [Active |-> ~exclusive \/ List(store) = {},
                        Exclusive |-> exclusive, Timeout |-> timeout,
                        Deadline |-> now + timeout]
    <3>1. trns \in Transaction
      BY TimeAssumption DEF Transaction, TypeOK
    <3>2. store' = Put(store, id, trns)
      BY <2>2 DEF Start
    <3>3. store' \in [ID -> Transaction \cup {NoTrns}]
      BY <3>1, <3>2, PutLeaves
    <3> QED BY <3>3, <2>2 DEF Start, StartDeadlineChecker, TypeOK
  <2>3. ASSUME NEW id \in ID, Finish(id) PROVE TypeOK'
    BY <2>3, FinishTyped DEF Finish, TypeOK
  <2>4. ASSUME NEW id \in ID, ResetDeadline(id) PROVE TypeOK'
    <3> DEFINE trns == [store[id] EXCEPT !.Deadline = now + store[id].Timeout]
    <3>1. store[id] \in Transaction
      BY <2>4, StoredTyped DEF ResetDeadline
    <3>2. trns \in Transaction
      BY <3>1 DEF Transaction, TypeOK
    <3>3. store' \in [ID -> Transaction \cup {NoTrns}]
      BY <2>4, <3>2, PutLeaves DEF ResetDeadline
    <3> QED BY <3>3, <2>4 DEF ResetDeadline, TypeOK
  <2>5. ASSUME NEW c \in Checker, CheckDeadlines(c) PROVE TypeOK'
    <3>1. Expired \in SUBSET ID
      BY DEF Expired, List
    <3>2. store' \in [ID -> Transaction \cup {NoTrns}]
      BY <2>5, <3>1, FinishTyped DEF CheckDeadlines, TypeOK
    <3>3. \A id \in Upcoming : store[id].Deadline \in Nat
      BY StoredTyped DEF Upcoming, Transaction
    <3>4. wakeAt' \in [Checker -> Nat]
      BY <2>5, <3>3 DEF CheckDeadlines, TypeOK
    <3>5. panicked' \in BOOLEAN
      BY <2>5 DEF CheckDeadlines, TypeOK
    <3>6. checker' \in [Checker -> {"none", "check", "sleep", "stop"}]
      BY <2>5 DEF CheckDeadlines, TypeOK
    <3> QED BY <2>5, <3>2, <3>4, <3>5, <3>6 DEF CheckDeadlines, TypeOK
  <2>6. ASSUME NEW c \in Checker, Wake(c) PROVE TypeOK'
    BY <2>6 DEF Wake, TypeOK
  <2>7. ASSUME NEW c \in Checker, StopChecking(c) PROVE TypeOK'
    BY <2>7 DEF StopChecking, TypeOK
  <2>8. ASSUME Tick PROVE TypeOK'
    BY <2>8 DEF Tick, TypeOK
  <2>9. ASSUME UNCHANGED vars PROVE TypeOK'
    BY <2>9 DEF vars, TypeOK
  <2> QED BY <2>1, <2>2, <2>3, <2>4, <2>5, <2>6, <2>7, <2>8, <2>9
          DEF Next, Client, Checking
<1> QED BY <1>1, <1>2, PTL DEF Spec

-----------------------------------------------------------------------------
\* Removing transactions from a store that keeps Exclusivity keeps it.
LEMMA FinishExclusivity ==
    ASSUME TypeOK, Exclusivity, NEW ids \in SUBSET ID,
           store' = Finish_(store, ids)
    PROVE  Exclusivity'
<1>1. /\ List(store') = List(store) \ ids
      /\ \A id \in List(store) \ ids :
            /\ store'[id].Exclusive = store[id].Exclusive
            /\ \/ store'[id] = store[id]
               \/ /\ store[id].Exclusive
                  /\ List(store) \ ids = {id}
                  /\ store'[id].Active
  BY FinishLeaves, Zenon
<1>2. ASSUME NEW e \in List(store'), store'[e].Exclusive, store'[e].Active
      PROVE  List(store') = {e}
  <2>1. e \in List(store) \ ids
    BY <1>1
  <2>2. CASE store'[e] = store[e]
    <3>1. List(store) = {e}
      BY <1>2, <2>1, <2>2, Zenon DEF Exclusivity
    <3> QED BY <3>1, <2>1, <1>1
  <2>3. CASE List(store) \ ids = {e}
    BY <2>3, <1>1
  <2> QED BY <2>1, <2>2, <2>3, <1>1, Zenon
<1>3. ASSUME NEW e \in List(store'), NEW f \in List(store'),
             store'[e].Exclusive, store'[f].Exclusive
      PROVE  e = f
  <2>1. e \in List(store) \ ids /\ f \in List(store) \ ids
    BY <1>1
  <2>2. store[e].Exclusive /\ store[f].Exclusive
    BY <2>1, <1>1, <1>3, Zenon
  <2>3. e \in List(store) /\ f \in List(store)
    BY <2>1
  <2> QED BY <2>2, <2>3, Zenon DEF Exclusivity
<1>4. ASSUME NEW e \in List(store')
      PROVE  store'[e].Exclusive \/ store'[e].Active
  <2>1. e \in List(store) \ ids /\ e \in List(store)
    BY <1>1
  <2> QED BY <2>1, <1>1, Zenon DEF Exclusivity
<1> QED BY <1>2, <1>3, <1>4, Zenon DEF Exclusivity

\* With Exclusivity, no order of removing transactions of the store meets an
\* active exclusive transaction left alone.
LEMMA FinishIsSane ==
    ASSUME Exclusivity, NEW ids \in SUBSET List(store)
    PROVE  ~FinishPanics(store, ids)
<1> SUFFICES ASSUME NEW e \in List(store), store[e].Exclusive, store[e].Active,
                    ids \ {e} # {}
             PROVE  FALSE
  BY DEF FinishPanics
<1>1. List(store) = {e}
  BY Zenon DEF Exclusivity
<1> QED BY <1>1

\* An active exclusive transaction is alone, and finish never panics: the
\* second follows from the first, so they are proved together.
THEOREM ExclusivityHolds == Spec => [](Exclusivity /\ NoPanic)
<1> DEFINE IInv == Exclusivity /\ NoPanic
<1>1. Init => IInv
  BY DEF Init, Exclusivity, NoPanic, List
<1>2. TypeOK /\ IInv /\ [Next]_vars => IInv'
  <2> SUFFICES ASSUME TypeOK, Exclusivity, NoPanic, [Next]_vars PROVE IInv'
    OBVIOUS
  <2>0. ASSUME UNCHANGED <<store, panicked>> PROVE IInv'
    BY <2>0 DEF Exclusivity, NoPanic
  <2>1. ASSUME NEW id \in ID, NEW timeout \in Timeout, NEW exclusive \in BOOLEAN,
               Start(id, timeout, exclusive)
        PROVE  IInv'
    <3> DEFINE active == ~exclusive \/ List(store) = {}
    <3> DEFINE trns == [Active |-> active, Exclusive |-> exclusive,
                        Timeout |-> timeout, Deadline |-> now + timeout]
    <3>1. trns \in Transaction
      BY TimeAssumption DEF Transaction, TypeOK
    <3>2. store' = Put(store, id, trns)
      BY <2>1 DEF Start
    <3>3. trns.Exclusive = exclusive /\ trns.Active = active
      OBVIOUS
    <3>4. /\ List(store') = List(store) \cup {id}
          /\ store'[id] = trns
          /\ \A i \in ID \ {id} : store'[i] = store[i]
      <4> HIDE DEF trns
      <4> QED BY <3>1, <3>2, PutLeaves
    <3>5. \A i \in List(store) : ~store[i].Exclusive
      BY <2>1 DEF Start, HasExclusive
    <3>6. id \notin List(store)
      BY <2>1 DEF Start
    <3>7. \A i \in List(store) : store'[i] = store[i]
      BY <3>4, <3>6 DEF List
    <3>8. store'[id].Exclusive = exclusive /\ store'[id].Active = active
      BY <3>3, <3>4
    <3> HIDE DEF trns
    <3>9. ASSUME NEW e \in List(store'), store'[e].Exclusive
          PROVE  e = id
      BY <3>4, <3>5, <3>7, <3>9, Zenon
    <3>10. ASSUME NEW e \in List(store'), store'[e].Exclusive, store'[e].Active
           PROVE  List(store') = {e}
      <4>1. e = id
        BY <3>9, <3>10
      <4>2. exclusive /\ active
        BY <4>1, <3>8, <3>10, Zenon
      <4>3. List(store) = {}
        BY <4>2
      <4> QED BY <4>1, <4>3, <3>4
    <3>11. ASSUME NEW e \in List(store')
           PROVE  store'[e].Exclusive \/ store'[e].Active
      <4>1. CASE e = id
        BY <4>1, <3>8, Zenon
      <4>2. CASE e \in List(store)
        BY <4>2, <3>7, Zenon DEF Exclusivity
      <4> QED BY <4>1, <4>2, <3>4
    <3>12. Exclusivity'
      BY <3>9, <3>10, <3>11, Zenon DEF Exclusivity
    <3> QED BY <3>12, <2>1 DEF Start, NoPanic
  <2>2. ASSUME NEW id \in ID, Finish(id) PROVE IInv'
    <3>1. Exclusivity'
      BY <2>2, FinishExclusivity DEF Finish
    <3>2. ~FinishPanics(store, {id})
      BY <2>2, FinishIsSane DEF Finish
    <3> QED BY <3>1, <3>2, <2>2 DEF Finish, NoPanic
  <2>3. ASSUME NEW id \in ID, ResetDeadline(id) PROVE IInv'
    <3> DEFINE trns == [store[id] EXCEPT !.Deadline = now + store[id].Timeout]
    <3>1. store[id] \in Transaction
      BY <2>3, StoredTyped DEF ResetDeadline
    <3>2. trns \in Transaction
      BY <3>1 DEF Transaction, TypeOK
    <3>3. trns.Exclusive = store[id].Exclusive /\ trns.Active = store[id].Active
      BY <3>1 DEF Transaction
    <3> HIDE DEF trns
    <3>4. store' = Put(store, id, trns) /\ id \in List(store)
      BY <2>3 DEF ResetDeadline, trns
    <3>5. /\ List(store') = List(store)
          /\ store'[id] = trns
          /\ \A i \in ID \ {id} : store'[i] = store[i]
      BY <3>2, <3>4, PutLeaves
    <3>6. \A i \in List(store) : /\ store'[i].Exclusive = store[i].Exclusive
                                /\ store'[i].Active = store[i].Active
      BY <3>3, <3>5 DEF List
    <3>7. Exclusivity'
      BY <3>5, <3>6, Zenon DEF Exclusivity
    <3> QED BY <3>7, <2>3 DEF ResetDeadline, NoPanic
  <2>4. ASSUME NEW c \in Checker, CheckDeadlines(c) PROVE IInv'
    <3>1. CASE UNCHANGED <<store, panicked>>
      BY <3>1, <2>0
    <3>2. CASE /\ store' = IF Expired = {} THEN store ELSE Finish_(store, Expired)
               /\ panicked' = (panicked \/ FinishPanics(store, Expired))
      <4>1. Expired \in SUBSET List(store) /\ Expired \in SUBSET ID
        BY DEF Expired, List
      <4>2. ~FinishPanics(store, Expired)
        BY <4>1, FinishIsSane
      <4>3. CASE Expired = {}
        <5>1. UNCHANGED store /\ NoPanic'
          BY <4>2, <4>3, <3>2 DEF NoPanic
        <5> QED BY <5>1 DEF Exclusivity
      <4>4. CASE Expired # {}
        <5>1. Exclusivity'
          BY <4>1, <4>4, <3>2, FinishExclusivity
        <5> QED BY <5>1, <4>2, <3>2 DEF NoPanic
      <4> QED BY <4>3, <4>4
    <3> QED BY <3>1, <3>2, <2>4 DEF CheckDeadlines
  <2>5. ASSUME \/ StartRefused \/ Tick \/ UNCHANGED vars
               \/ \E c \in Checker : Wake(c) \/ StopChecking(c)
        PROVE  IInv'
    <3>1. UNCHANGED <<store, panicked>>
      BY <2>5, Zenon DEF StartRefused, Wake, StopChecking, Tick, vars
    <3> QED BY <3>1, <2>0
  <2> HIDE DEF IInv
  <2> QED BY <2>1, <2>2, <2>3, <2>4, <2>5, Zenon DEF Next, Client, Checking
<1> QED BY <1>1, <1>2, TypeCorrect, PTL DEF Spec

\* The sanity check of finish never panics: nobody gets in next to an exclusive
\* transaction that is active, so the one that is left alone never is already.
THEOREM FinishNeverPanics == Spec => []NoPanic
BY ExclusivityHolds, PTL

-----------------------------------------------------------------------------
\* At most one deadline checker runs, and one exactly while the flag is set.
THEOREM OneCheckerHolds == Spec => []OneChecker
<1>1. Init => OneChecker
  <2> SUFFICES ASSUME Init PROVE OneChecker
    OBVIOUS
  <2>1. PICK c \in Checker :
            checker = [d \in Checker |-> IF d = c THEN "check" ELSE "none"]
    BY DEF Init
  <2> QED BY <2>1 DEF Init, OneChecker, Live
<1>2. TypeOK /\ OneChecker /\ [Next]_vars => OneChecker'
  <2> SUFFICES ASSUME TypeOK, OneChecker, [Next]_vars PROVE OneChecker'
    OBVIOUS
  <2> USE DEF OneChecker, Live, TypeOK
  <2>0. ASSUME UNCHANGED <<checkingDeadlines, checker>> PROVE OneChecker'
    BY <2>0
  <2>1. ASSUME StartDeadlineChecker PROVE OneChecker'
    <3>1. CASE checkingDeadlines
      BY <2>1, <3>1, <2>0 DEF StartDeadlineChecker
    <3>2. CASE ~checkingDeadlines
      <4>1. PICK c \in Checker : checker' = [checker EXCEPT ![c] = "check"]
        BY <2>1, <3>2 DEF StartDeadlineChecker
      <4>2. checkingDeadlines' = TRUE
        BY <2>1, <3>2 DEF StartDeadlineChecker
      <4>3. \A d \in Checker : checker[d] = "none"
        BY <3>2
      <4>4. \A d \in Checker : checker'[d] # "none" <=> d = c
        BY <4>1, <4>3
      <4> QED BY <4>2, <4>4
    <3> QED BY <3>1, <3>2
  <2>2. ASSUME NEW c \in Checker, checker[c] # "none", checkingDeadlines' = checkingDeadlines,
               NEW s \in {"check", "sleep", "stop"}, checker' = [checker EXCEPT ![c] = s]
        PROVE  OneChecker'
    <3>1. \A d \in Checker : checker'[d] # "none" <=> checker[d] # "none"
      BY <2>2
    <3> QED BY <3>1, <2>2
  <2>3. ASSUME NEW c \in Checker, StopChecking(c) PROVE OneChecker'
    <3>1. \A d \in Checker : checker'[d] = "none"
      BY <2>3 DEF StopChecking
    <3> QED BY <3>1, <2>3 DEF StopChecking
  <2>4. ASSUME NEW c \in Checker, CheckDeadlines(c) PROVE OneChecker'
    BY <2>4, <2>2 DEF CheckDeadlines
  <2>5. ASSUME NEW c \in Checker, Wake(c) PROVE OneChecker'
    BY <2>5, <2>2 DEF Wake
  <2>6. ASSUME NEW id \in ID, NEW timeout \in Timeout, NEW exclusive \in BOOLEAN,
               Start(id, timeout, exclusive)
        PROVE  StartDeadlineChecker \/ UNCHANGED <<checkingDeadlines, checker>>
    BY <2>6 DEF Start
  <2>7. ASSUME \/ Tick \/ UNCHANGED vars
               \/ \E id \in ID : Finish(id) \/ ResetDeadline(id)
        PROVE  UNCHANGED <<checkingDeadlines, checker>>
    BY <2>7, Zenon DEF Finish, ResetDeadline, Tick, vars
  <2>8. StartRefused => StartDeadlineChecker
    BY DEF StartRefused
  <2> HIDE DEF OneChecker
  <2> QED BY <2>0, <2>1, <2>3, <2>4, <2>5, <2>6, <2>7, <2>8, Zenon
          DEF Next, Client, Checking
<1> QED BY <1>1, <1>2, TypeCorrect, PTL DEF Spec

-----------------------------------------------------------------------------
\* The step half of WaiterGetsItsTime, for a transaction that finish or nobody
\* touched.
LEMMA FinishRestarts ==
    ASSUME TypeOK, NEW ids \in SUBSET ID, store' = Finish_(store, ids),
           NEW id \in List(store), ~store[id].Active, store'[id].Active
    PROVE  store'[id].Deadline = now + store[id].Timeout
<1>1. id \in ID /\ store[id] \in Transaction
  BY StoredTyped
<1>2. CASE id \in ids
  <2>1. store'[id] = NoTrns
    BY <1>1, <1>2 DEF Finish_
  <2> QED BY <2>1 DEF NoTrns
<1>3. CASE id \notin ids /\ List(store) \ ids = {id} /\ store[id].Exclusive
  <2> DEFINE d == now + store[id].Timeout
  <2>1. store'[id] = [store[id] EXCEPT !.Active = TRUE, !.Deadline = d]
    BY <1>1, <1>3 DEF Finish_
  <2>2. d \in Nat
    BY <1>1 DEF Transaction, TypeOK
  <2>3. store'[id].Deadline = d
    <3> HIDE DEF d
    <3>1. [store[id] EXCEPT !.Active = TRUE, !.Deadline = d].Deadline = d
      BY <2>2, <1>1, Activated
    <3> QED BY <2>1, <3>1, Zenon
  <2> QED BY <2>3
<1>4. CASE id \notin ids /\ ~(List(store) \ ids = {id} /\ store[id].Exclusive)
  <2>1. store'[id] = store[id]
    BY <1>1, <1>4 DEF Finish_
  <2> QED BY <2>1
<1> QED BY <1>2, <1>3, <1>4

\* A waiting transaction gets its whole timeout: the deadline checker removes
\* only active transactions past their deadline, and activation restarts the
\* deadline.
THEOREM WaiterGetsItsTimeHolds == Spec => WaiterGetsItsTime
<1> DEFINE Removal == \A c \in Checker :
                          checker[c] = "check" /\ checker'[c] # "check" =>
                              \A id \in List(store) \ List(store') :
                                  store[id].Active /\ store[id].Deadline <= now
<1> DEFINE Restart == \A id \in List(store) :
                          ~store[id].Active /\ store'[id].Active =>
                              store'[id].Deadline = now + store[id].Timeout
<1>1. TypeOK /\ [Next]_vars => [Removal /\ Restart]_vars
  <2> SUFFICES ASSUME TypeOK, Next PROVE Removal /\ Restart
    OBVIOUS
  <2>1. ASSUME UNCHANGED store PROVE Removal /\ Restart
    BY <2>1
  <2>2. ASSUME checker' = checker PROVE Removal
    BY <2>2
  <2>3. ASSUME NEW id \in ID, NEW timeout \in Timeout, NEW exclusive \in BOOLEAN,
               Start(id, timeout, exclusive)
        PROVE  Removal /\ Restart
    <3> DEFINE trns == [Active |-> ~exclusive \/ List(store) = {},
                        Exclusive |-> exclusive, Timeout |-> timeout,
                        Deadline |-> now + timeout]
    <3>1. store' = Put(store, id, trns) /\ id \notin List(store)
      BY <2>3 DEF Start
    <3>2. trns \in Transaction
      BY TimeAssumption DEF Transaction, TypeOK
    <3> HIDE DEF trns
    <3>3. /\ List(store') = List(store) \cup {id}
          /\ \A i \in ID \ {id} : store'[i] = store[i]
      BY <3>1, <3>2, PutLeaves
    <3>4. \A i \in List(store) : store'[i] = store[i]
      BY <3>1, <3>3 DEF List
    <3> QED BY <3>3, <3>4
  <2>4. ASSUME NEW id \in ID, Finish(id) PROVE Removal /\ Restart
    <3>1. Restart
      BY <2>4, FinishRestarts DEF Finish
    <3> QED BY <3>1, <2>2, <2>4 DEF Finish
  <2>5. ASSUME NEW id \in ID, ResetDeadline(id) PROVE Removal /\ Restart
    <3> DEFINE trns == [store[id] EXCEPT !.Deadline = now + store[id].Timeout]
    <3>1. store[id] \in Transaction
      BY <2>5, StoredTyped DEF ResetDeadline
    <3>2. trns \in Transaction /\ trns.Active = store[id].Active
      BY <3>1 DEF Transaction, TypeOK
    <3> HIDE DEF trns
    <3>3. /\ store'[id] = trns
          /\ \A i \in ID \ {id} : store'[i] = store[i]
      BY <2>5, <3>2, PutLeaves DEF ResetDeadline, trns
    <3>4. \A i \in List(store) : store'[i].Active = store[i].Active
      BY <3>2, <3>3 DEF List
    <3>5. Restart
      BY <3>4, Zenon
    <3> QED BY <3>5, <2>2, <2>5 DEF ResetDeadline
  <2>6. ASSUME NEW c \in Checker, CheckDeadlines(c) PROVE Removal /\ Restart
    <3>1. Expired \in SUBSET ID
      BY DEF Expired, List
    <3>2. CASE UNCHANGED store
      BY <3>2, <2>1
    <3>3. CASE store' = Finish_(store, Expired)
      <4>1. Restart
        BY <3>1, <3>3, FinishRestarts
      <4>2. List(store) \ List(store') \subseteq Expired
        BY <3>1, <3>3, FinishLeaves
      <4>3. Removal
        BY <4>2 DEF Expired
      <4> QED BY <4>1, <4>3
    <3> QED BY <3>2, <3>3, <2>6 DEF CheckDeadlines
  <2>7. ASSUME StartRefused \/ Tick \/ \E c \in Checker : Wake(c) \/ StopChecking(c)
        PROVE  UNCHANGED store
    BY <2>7, Zenon DEF StartRefused, Wake, StopChecking, Tick
  <2> HIDE DEF Removal, Restart
  <2> QED BY <2>1, <2>3, <2>4, <2>5, <2>6, <2>7, Zenon DEF Next, Client, Checking
<1> QED BY <1>1, TypeCorrect, PTL DEF Spec, WaiterGetsItsTime
=============================================================================
