----------------------------- MODULE SnapshotDB -----------------------------
(***************************************************************************)
(* What a database with snapshot transactions promises, whatever its files *)
(* and locks look like: there is a current view; a transaction reads, from *)
(* Begin to its end, the view that was current at its Begin; a commit      *)
(* replaces the current view as a whole, by one that was made from the     *)
(* current view; a crash ends all transactions and takes or drops, as a    *)
(* whole, a commit that has not returned.                                  *)
(***************************************************************************)
CONSTANTS TX,     \* transactions
          View,   \* views: the contents of the database
          NoView

VARIABLES current,    \* the view the next transaction gets, also after a restart
          snapshot,   \* transaction -> the view it reads, NoView when it reads none
          pending     \* the view of the commit under way, NoView when there is none

vars == <<current, snapshot, pending>>

Init ==
    /\ current \in View
    /\ snapshot = [t \in TX |-> NoView]
    /\ pending = NoView

Begin(t) ==
    /\ snapshot[t] = NoView
    /\ snapshot' = [snapshot EXCEPT ![t] = current]
    /\ UNCHANGED <<current, pending>>

End(t) ==
    /\ snapshot[t] # NoView
    /\ snapshot' = [snapshot EXCEPT ![t] = NoView]
    /\ UNCHANGED <<current, pending>>

\* A transaction starts to commit.  It is the only one, and no other commit came
\* between its Begin and now.
Prepare(t) ==
    /\ pending = NoView
    /\ snapshot[t] = current
    /\ pending' \in View
    /\ snapshot' = [snapshot EXCEPT ![t] = NoView]
    /\ UNCHANGED current

Commit ==
    /\ pending # NoView
    /\ current' = pending
    /\ pending' = NoView
    /\ UNCHANGED snapshot

Crash ==
    /\ current' \in {current, pending} \ {NoView}
    /\ snapshot' = [t \in TX |-> NoView]
    /\ pending' = NoView

Next ==
    \/ \E t \in TX : Begin(t) \/ End(t) \/ Prepare(t)
    \/ Commit
    \/ Crash

Spec == Init /\ [][Next]_vars
=============================================================================
