------------------------- MODULE DaxStorage_proofs -------------------------
(***************************************************************************)
(* The lock of a resource and what was acknowledged while it changed       *)
(* hands, for any number of nodes and messages, and however often nodes    *)
(* are killed or snapshots fail.                                           *)
(***************************************************************************)
EXTENDS DaxStorage, FiniteSetTheorems, TLAPS

\* There is a Resource for every node, and it has a field locked.
HasLocked == DOMAIN res = Node /\ \A n \in Node : "locked" \in DOMAIN res[n]

\* A node that believes to have the lock made the lock file: while the file
\* stays, nobody else can.
LockFileBacked == \A n \in Node : res[n].locked => lockFile

LockInv == HasLocked /\ LockFileBacked /\ OneOwner

\* No Resource is locked to begin with.
LEMMA LockInvInit == Init => LockInv
BY DEF Init, initialize, LockInv, HasLocked, LockFileBacked, OneOwner

\* Steps that change neither a locked field nor the file keep the invariant.
LEMMA LockUntouched ==
    ASSUME LockInv, lockFile' = lockFile, DOMAIN res' = Node,
           \A k \in Node : "locked" \in DOMAIN res'[k] /\ res'[k].locked = res[k].locked
    PROVE  LockInv'
BY DEF LockInv, HasLocked, LockFileBacked, OneOwner

\* A node that forgets its Resource, with the file removed if it had the lock, or
\* left behind by a node that was killed.
LEMMA LockForgotten ==
    ASSUME LockInv, NEW n \in Node, res' = [res EXCEPT ![n] = initialize],
           lockFile' = lockFile \/ Unlock(n)
    PROVE  LockInv'
<1>1. HasLocked'
  BY DEF LockInv, HasLocked, initialize
<1>2. \A k \in Node : res'[k].locked => k # n /\ res[k].locked
  BY DEF LockInv, HasLocked, initialize
<1>3. ASSUME NEW k \in Node, res'[k].locked PROVE lockFile'
  <2>1. lockFile /\ ~res[n].locked
    BY <1>2, <1>3 DEF LockInv, LockFileBacked, OneOwner
  <2> QED BY <2>1 DEF Unlock
<1> QED BY <1>1, <1>2, <1>3 DEF LockInv, LockFileBacked, OneOwner

\* LoadWriteLog leaves the lock alone.
LEMMA LoadKeepsLock ==
    ASSUME LockInv, NEW n \in Node, NEW next, LoadWriteLog(n, next)
    PROVE  DOMAIN res' = Node /\
           \A k \in Node : "locked" \in DOMAIN res'[k] /\ res'[k].locked = res[k].locked
<1> DEFINE versions == {v \in DOMAIN logs : v > res[n].loadWLsPastVersion}
           v == CHOOSE x \in versions : TRUE
<1>1. \/ res' = res
      \/ res' = [res EXCEPT ![n].latestWLVersion = res[n].loadWLsPastVersion + 1]
      \/ res' = [res EXCEPT ![n].latestWLVersion = v, ![n].dirty = TRUE,
                            ![n].lastWLPos = @ + Len(Unread(n, v))]
  BY Zenon DEF LoadWriteLog
<1> HIDE DEF versions, v
<1>2. CASE res' = res
  BY <1>2 DEF LockInv, HasLocked
<1>3. CASE res' = [res EXCEPT ![n].latestWLVersion = res[n].loadWLsPastVersion + 1]
  BY <1>3 DEF LockInv, HasLocked
<1>4. CASE res' = [res EXCEPT ![n].latestWLVersion = v, ![n].dirty = TRUE,
                              ![n].lastWLPos = @ + Len(Unread(n, v))]
  BY <1>4 DEF LockInv, HasLocked
<1> QED BY <1>1, <1>2, <1>3, <1>4

\* Every step keeps the invariant.
LEMMA LockInvNext == LockInv /\ [Next]_vars => LockInv'
<1> SUFFICES ASSUME LockInv, [Next]_vars PROVE LockInv'
  OBVIOUS
<1>1. ASSUME NEW n \in Node, LoadLatestSnapshot(n) PROVE LockInv'
  <2>1. ~initialize.locked /\ DOMAIN initialize = DOMAIN [initialize EXCEPT
            !.lastWLPos = 0, !.loadWLsPastVersion = LatestSnapshot]
    BY DEF initialize
  <2>2. res' = [res EXCEPT ![n] = res'[n]] /\ ~res'[n].locked /\ "locked" \in DOMAIN res'[n]
    BY <1>1 DEF LoadLatestSnapshot, initialize, LockInv, HasLocked
  <2>3. lockFile' = lockFile
    BY <1>1 DEF LoadLatestSnapshot, disk
  <2>4. \A k \in Node : res'[k].locked => k # n /\ res[k].locked
    BY <2>2 DEF LockInv, HasLocked
  <2>5. HasLocked'
    BY <2>2 DEF LockInv, HasLocked
  <2> QED BY <2>3, <2>4, <2>5 DEF LockInv, LockFileBacked, OneOwner
<1>2. ASSUME NEW n \in Node, FirstLoad(n) \/ SecondLoad(n) PROVE LockInv'
  <2>1. lockFile' = lockFile /\ \E next : LoadWriteLog(n, next)
    BY <1>2 DEF FirstLoad, SecondLoad, disk
  <2> QED BY <2>1, LoadKeepsLock, LockUntouched
<1>3. ASSUME NEW n \in Node, Lock(n) PROVE LockInv'
  <2>1. ~lockFile /\ lockFile' /\ res' = [res EXCEPT ![n].locked = TRUE]
    BY <1>3 DEF Lock
  <2>2. \A k \in Node : ~res[k].locked
    BY <2>1 DEF LockInv, LockFileBacked
  <2>3. HasLocked' /\ \A k \in Node : res'[k].locked => k = n
    BY <2>1, <2>2 DEF LockInv, HasLocked
  <2> QED BY <2>1, <2>3 DEF LockInv, LockFileBacked, OneOwner
<1>4. ASSUME NEW n \in Node, NEW m \in Msg,
             CommitImport(n, m) \/ AppendImport(n, m) \/ ImportRoaringShard(n, m)
      PROVE  LockInv'
  <2>1. lockFile' = lockFile /\ (res' = [res EXCEPT ![n].dirty = TRUE] \/ res' = res)
    BY <1>4 DEF CommitImport, AppendImport, ImportRoaringShard, AppendMessage, disk
  <2> QED BY <2>1, LockUntouched DEF LockInv, HasLocked
<1>5. ASSUME NEW n \in Node, IncrementWLVersion(n) PROVE LockInv'
  <2>1. /\ lockFile' = lockFile
        /\ res' = [res EXCEPT ![n].latestWLVersion = @ + 1, ![n].lastWLPos = -1,
                              ![n].loadWLsPastVersion = -1, ![n].dirty = FALSE]
    BY <1>5 DEF IncrementWLVersion, disk
  <2> QED BY <2>1, LockUntouched DEF LockInv, HasLocked
<1>6. ASSUME NEW n \in Node, NEW s \in snapping[n],
             SnapshotWrite(n, s) \/ SnapshotFails(n, s) \/ SnapshotEnds(n, s)
      PROVE  LockInv'
  <2>1. lockFile' = lockFile /\ res' = res
    BY <1>6 DEF SnapshotWrite, SnapshotFails, SnapshotEnds
  <2> QED BY <2>1, LockUntouched DEF LockInv, HasLocked
<1>7. ASSUME NEW n \in Node, RemoveResource(n) \/ Crash(n) PROVE LockInv'
  <2>1. res' = [res EXCEPT ![n] = initialize] /\ (lockFile' = lockFile \/ Unlock(n))
    BY <1>7 DEF RemoveResource, Crash, Forget, disk
  <2> QED BY <2>1, LockForgotten
<1>8. ASSUME NEW n \in Node, ApplyDirective(n) \/ LockTimesOut(n) PROVE LockInv'
  <2>1. lockFile' = lockFile /\ res' = res
    BY <1>8 DEF ApplyDirective, LockTimesOut, disk
  <2> QED BY <2>1, LockUntouched DEF LockInv, HasLocked
<1>9. CASE UNCHANGED vars
  BY <1>9, LockUntouched DEF vars, LockInv, HasLocked
<1> QED
  BY <1>1, <1>2, <1>3, <1>4, <1>5, <1>6, <1>7, <1>8, <1>9 DEF Next, Load, Import, Snapshot

\* At most one Resource believes to have the lock (Resource.locked), whatever
\* happens to nodes and files: Writelogger.Lock makes the file with O_EXCL, and
\* Resource.Unlock removes it only when the Resource is locked.
THEOREM OneOwnerHolds == Spec => []OneOwner
<1>1. LockInv => OneOwner
  BY DEF LockInv
<1> QED BY <1>1, LockInvInit, LockInvNext, PTL DEF Spec

(***************************************************************************)
(* What was acknowledged.                                                  *)
(***************************************************************************)

\* r has the fields of a Resource, numbers where they are due.
IsResource(r) ==
    /\ DOMAIN r = {"loadWLsPastVersion", "latestWLVersion", "lastWLPos", "locked", "dirty"}
    /\ r.loadWLsPastVersion \in Int /\ r.latestWLVersion \in Int /\ r.lastWLPos \in Int

\* s has the fields of a snapshot under way.
IsSnapshot(s) ==
    DOMAIN s = {"version", "data", "written", "current"} /\ s.version \in Int

\* The type of the state, as far as the properties depend on it.
TypeOK ==
    /\ DOMAIN snaps \subseteq Nat
    /\ DOMAIN logs \subseteq Nat /\ IsFiniteSet(DOMAIN logs)
    /\ \A v \in DOMAIN logs : logs[v] \in Seq(Msg)
    /\ pc \in [Node -> {"none", "assigned", "restored", "loaded", "locked", "ready", "failed"}]
    /\ DOMAIN res = Node /\ \A n \in Node : IsResource(res[n])
    /\ DOMAIN snapping = Node /\ \A n \in Node : \A s \in snapping[n] : IsSnapshot(s)
    /\ DOMAIN logFiles = Node /\ DOMAIN local = Node /\ DOMAIN inflight = Node

\* The greatest version of a snapshot; -1 when there is none.
Greatest(g) ==
    \/ g = -1 /\ DOMAIN snaps = {}
    \/ g \in DOMAIN snaps /\ \A v \in DOMAIN snaps : v <= g

\* A node that is loading restored snapshot g and has replayed the first lastWLPos
\* messages of the log that it found.
Loading(n, g) ==
    /\ res[n].loadWLsPastVersion = g /\ res[n].lastWLPos >= 0
    /\ g # -1 => snaps[g] \subseteq local[n]
    /\ pc[n] = "restored" => res[n].lastWLPos = 0
    /\ pc[n] # "restored" => res[n].latestWLVersion > g
    /\ \A k \in 1..res[n].lastWLPos :
           /\ res[n].latestWLVersion \in DOMAIN logs
           /\ k <= Len(logs[res[n].latestWLVersion])
           /\ logs[res[n].latestWLVersion][k] \in local[n]

\* m is in the snapshot or in a log past it.
Safe(m, g) ==
    \/ g # -1 /\ m \in snaps[g]
    \/ \E v \in DOMAIN logs : v > g /\ \E k \in 1..Len(logs[v]) : logs[v][k] = m

\* Who has loaded has the lock, who has not begun to load does not.  Who has it
\* appends to a log past every snapshot, and its open logs are those in the
\* directory; nobody else has any open.
Logging(n, g) ==
    /\ pc[n] \in {"locked", "ready"} => res[n].locked
    /\ pc[n] \in {"none", "assigned"} => ~res[n].locked
    /\ res[n].locked => /\ res[n].latestWLVersion > g
                        /\ \A v \in DOMAIN logFiles[n] : logFiles[n][v]
    /\ ~res[n].locked => DOMAIN logFiles[n] = {}

\* A database has what it has committed, and all that was acknowledged once it is
\* loaded.
Holding(n) ==
    /\ inflight[n] \subseteq local[n]
    /\ pc[n] = "ready" => acked \subseteq local[n]

\* A snapshot under way: if it is written, the log that it deletes is not past the
\* latest snapshot; if not, it will be the latest and has all that was and what may
\* still be acknowledged.  A node has one at a time while it keeps the resource.
Snapping(n, s, g) ==
    /\ s.written => s.version <= g
    /\ s.current => pc[n] = "ready" /\ s.version = res[n].latestWLVersion - 1
    /\ s.current /\ ~s.written => /\ s.version > g /\ s.version < MaxVersion
                                  /\ acked \cup inflight[n] \subseteq s.data
    /\ \A t \in snapping[n] : s.current /\ t.current => s = t

\* A node as it may be.
NodeGood(n, g) ==
    /\ Logging(n, g)
    /\ Holding(n)
    /\ pc[n] \in {"restored", "loaded", "locked"} => Loading(n, g)
    /\ \A s \in snapping[n] : Snapping(n, s, g)

\* The state, g being the greatest version of a snapshot.
Good(g) ==
    /\ Greatest(g) /\ g < MaxVersion
    /\ \A n \in Node : NodeGood(n, g)
    /\ \A m \in acked : Safe(m, g)

\* While nothing has happened that the code does not cope with.
CurrentInv == LockInv /\ (accidents = {} => TypeOK /\ \E g \in Int : Good(g))

-----------------------------------------------------------------------------
\* The messages that are read from position p on.
LEMMA ReadFrom ==
    ASSUME NEW s \in Seq(Msg), NEW p \in Nat, NEW k \in 1..Len(s), k > p
    PROVE  s[k] \in ToSet(SubSeq(s, p + 1, Len(s)))
<1> DEFINE t == SubSeq(s, p + 1, Len(s))
<1>1. Len(s) \in Nat /\ k - p \in 1..(Len(s) - p)
  OBVIOUS
<1>2. DOMAIN t = 1..(Len(s) - p) /\ t[k - p] = s[k]
  BY <1>1
<1> QED BY <1>1, <1>2 DEF ToSet

\* What is left of a log after p entries has a length; from the start it is the log's.
LEMMA RestLength ==
    ASSUME NEW s \in Seq(Msg), NEW p \in Nat
    PROVE  /\ Len(SubSeq(s, p + 1, Len(s))) \in Nat
           /\ p = 0 => Len(SubSeq(s, p + 1, Len(s))) = Len(s)
OBVIOUS

\* Names of one digit sort as versions do, so List's last file is the greatest.
LEMMA LatestIsGreatest ==
    ASSUME DOMAIN snaps \subseteq Nat, NEW g \in Int, Greatest(g), g <= 9
    PROVE  LatestSnapshot = g
<1>1. CASE DOMAIN snaps = {}
  BY <1>1 DEF LatestSnapshot, Greatest
<1>2. CASE DOMAIN snaps # {}
  <2>1. g \in DOMAIN snaps /\ \A v \in DOMAIN snaps : v \in 0..9 /\ v <= g
    BY <1>2 DEF Greatest
  <2>2. \A v, w \in 0..9 : NameBefore(v, w) <=> v < w
    BY DEF NameBefore, Digits
  <2>3. \A w \in DOMAIN snaps \ {g} : NameBefore(w, g)
    BY <2>1, <2>2
  <2>4. ASSUME NEW v \in DOMAIN snaps, \A w \in DOMAIN snaps \ {v} : NameBefore(w, v)
        PROVE  v = g
    BY <2>1, <2>2, <2>4
  <2>5. LastListed(DOMAIN snaps) = g
    BY <2>1, <2>3, <2>4 DEF LastListed
  <2> QED BY <1>2, <2>5 DEF LatestSnapshot
<1> QED BY <1>1, <1>2

\* Logs past g only grow.
LogsExtend(g) ==
    \A v \in DOMAIN logs : v > g =>
        /\ v \in DOMAIN logs' /\ Len(logs[v]) <= Len(logs'[v])
        /\ \A k \in 1..Len(logs[v]) : logs'[v][k] = logs[v][k]

\* They do when nothing happens to them.
LEMMA SameLogs == ASSUME TypeOK, logs' = logs, NEW g PROVE LogsExtend(g)
BY DEF LogsExtend, TypeOK

\* What is safe stays safe.
LEMMA SafeKept ==
    ASSUME TypeOK, TypeOK', NEW g \in Int, NEW m, Safe(m, g), snaps' = snaps, LogsExtend(g)
    PROVE  Safe(m, g)'
<1>1. CASE g # -1 /\ m \in snaps[g]
  BY <1>1 DEF Safe
<1>2. CASE \E v \in DOMAIN logs : v > g /\ \E k \in 1..Len(logs[v]) : logs[v][k] = m
  <2>3. PICK v \in DOMAIN logs : v > g /\ \E k \in 1..Len(logs[v]) : logs[v][k] = m
    BY <1>2
  <2>1. PICK k \in 1..Len(logs[v]) : logs[v][k] = m
    BY <2>3
  <2>2. v \in DOMAIN logs' /\ Len(logs[v]) \in Nat /\ Len(logs'[v]) \in Nat
        /\ Len(logs[v]) <= Len(logs'[v]) /\ logs'[v][k] = m
    BY <2>1, <2>3 DEF LogsExtend, TypeOK
  <2> QED BY <2>1, <2>2, <2>3 DEF Safe
<1> QED BY <1>1, <1>2 DEF Safe

\* What a loading node has replayed stays so while logs grow and its database does.
LEMMA LoadingKept ==
    ASSUME TypeOK, TypeOK', NEW g \in Int, NEW n \in Node, Loading(n, g),
           pc'[n] \in {"restored", "loaded", "locked"},
           pc'[n] = "restored" <=> pc[n] = "restored",
           res'[n].loadWLsPastVersion = res[n].loadWLsPastVersion,
           res'[n].latestWLVersion = res[n].latestWLVersion,
           res'[n].lastWLPos = res[n].lastWLPos,
           local[n] \subseteq local'[n], snaps' = snaps, LogsExtend(g)
    PROVE  Loading(n, g)'
<1>1. res[n].lastWLPos \in Nat /\ res[n].latestWLVersion \in Int
  BY DEF Loading, TypeOK, IsResource
<1>2. ASSUME NEW k \in 1..res[n].lastWLPos
      PROVE  /\ res[n].latestWLVersion \in DOMAIN logs'
             /\ k <= Len(logs'[res[n].latestWLVersion])
             /\ logs'[res[n].latestWLVersion][k] \in local[n]
  <2> DEFINE v == res[n].latestWLVersion
  <2>1. v \in DOMAIN logs /\ k \in 1..Len(logs[v]) /\ logs[v][k] \in local[n] /\ v > g
    BY <1>1, <1>2 DEF Loading
  <2>2. v \in DOMAIN logs' /\ Len(logs[v]) \in Nat /\ Len(logs'[v]) \in Nat
        /\ Len(logs[v]) <= Len(logs'[v]) /\ logs'[v][k] = logs[v][k]
    BY <2>1 DEF LogsExtend, TypeOK
  <2> QED BY <2>1, <2>2
<1> QED BY <1>1, <1>2 DEF Loading

\* A node that does nothing stays as it was while logs grow and another node, if
\* it is not the one with the lock, imports.
LEMMA NodeKept ==
    ASSUME TypeOK, TypeOK', NEW g \in Int, NEW n \in Node, NodeGood(n, g),
           pc'[n] = pc[n], res'[n] = res[n], local'[n] = local[n],
           inflight'[n] = inflight[n], snapping'[n] = snapping[n],
           logFiles'[n] = logFiles[n] \/ DOMAIN logFiles'[n] = {},
           snaps' = snaps, LogsExtend(g),
           acked' = acked \/ ~res[n].locked
    PROVE  NodeGood(n, g)'
<1>1. ASSUME pc[n] \in {"restored", "loaded", "locked"} PROVE Loading(n, g)'
  BY <1>1, LoadingKept DEF NodeGood
<1>2. pc[n] = "ready" => acked' = acked
  BY DEF NodeGood, Logging
<1>3. Logging(n, g)'
  BY DEF NodeGood, Logging
<1>4. Holding(n)'
  BY <1>2 DEF NodeGood, Holding
<1>5. \A s \in snapping'[n] : Snapping(n, s, g)'
  BY <1>2 DEF NodeGood, Snapping
<1> QED BY <1>1, <1>3, <1>4, <1>5 DEF NodeGood

\* So the state stays good when the node that does something does.
LEMMA StepKept ==
    ASSUME TypeOK, TypeOK', NEW g \in Int, Good(g), NEW n \in Node,
           \A k \in Node \ {n} : /\ pc'[k] = pc[k] /\ res'[k] = res[k] /\ local'[k] = local[k]
                                 /\ inflight'[k] = inflight[k] /\ snapping'[k] = snapping[k]
                                 /\ logFiles'[k] = logFiles[k] \/ DOMAIN logFiles'[k] = {},
           snaps' = snaps, LogsExtend(g), acked' = acked, NodeGood(n, g)'
    PROVE  Good(g)'
<1>1. \A k \in Node : NodeGood(k, g)'
  BY NodeKept DEF Good
<1>2. \A m \in acked : Safe(m, g)'
  BY SafeKept DEF Good
<1>3. Greatest(g)'
  BY DEF Good, Greatest
<1> QED BY <1>1, <1>2, <1>3 DEF Good

\* While a node is not ready, none of its snapshots is of the Resource it has.
LEMMA NotReady ==
    ASSUME NEW g, NEW n, NodeGood(n, g), pc[n] # "ready", snaps' = snaps,
           snapping'[n] = snapping[n]
    PROVE  \A s \in snapping'[n] : Snapping(n, s, g)'
BY DEF NodeGood, Snapping

-----------------------------------------------------------------------------
\* A directive comes.
LEMMA DirectiveKept ==
    ASSUME TypeOK, NEW g \in Int, Good(g), NEW n \in Node, ApplyDirective(n)
    PROVE  TypeOK' /\ Good(g)'
<1>1. /\ pc[n] = "none" /\ pc' = [pc EXCEPT ![n] = "assigned"]
      /\ UNCHANGED <<snaps, logs, res, logFiles, local, inflight, snapping, acked>>
  BY DEF ApplyDirective, Goto, disk
<1>2. TypeOK'
  BY <1>1 DEF TypeOK
<1>3. pc'[n] = "assigned" /\ \A k \in Node \ {n} : pc'[k] = pc[k]
  BY <1>1 DEF TypeOK
<1>4. Logging(n, g)' /\ Holding(n)'
  BY <1>1, <1>3 DEF Good, NodeGood, Logging, Holding
<1>5. \A s \in snapping'[n] : Snapping(n, s, g)'
  BY <1>1, NotReady DEF Good
<1>6. NodeGood(n, g)'
  BY <1>3, <1>4, <1>5 DEF NodeGood
<1> QED BY <1>1, <1>2, <1>3, <1>6, SameLogs, StepKept

\* Loading: a snapshot is restored, over no import that was not appended yet.
LEMMA RestoreKept ==
    ASSUME LockInv, TypeOK, NEW g \in Int, Good(g), MaxVersion <= 10, NEW n \in Node,
           LoadLatestSnapshot(n), accidents' = {}
    PROVE  TypeOK' /\ Good(g)'
<1>1. LatestSnapshot = g
  BY LatestIsGreatest, DaxAssumption DEF Good, TypeOK
<1>2. /\ pc[n] = "assigned" /\ pc' = [pc EXCEPT ![n] = "restored"]
      /\ UNCHANGED <<snaps, logs, logFiles, inflight, snapping, acked>>
      /\ res' = [res EXCEPT ![n] = [initialize EXCEPT !.lastWLPos = 0,
                                                      !.loadWLsPastVersion = g]]
      /\ local' = [local EXCEPT ![n] = IF g = -1 THEN @ ELSE snaps[g]]
      /\ g # -1 => inflight[n] = {}
  BY <1>1 DEF LoadLatestSnapshot, Goto, disk, Noted
<1>3. IsResource([initialize EXCEPT !.lastWLPos = 0, !.loadWLsPastVersion = g])
  BY DEF initialize, IsResource
<1>4. TypeOK'
  BY <1>2, <1>3 DEF TypeOK
<1>5. /\ pc'[n] = "restored" /\ res'[n].lastWLPos = 0 /\ res'[n].loadWLsPastVersion = g
      /\ ~res'[n].locked
      /\ g # -1 => local'[n] = snaps[g]
      /\ g = -1 => local'[n] = local[n]
  BY <1>2 DEF TypeOK, initialize
<1>6. Loading(n, g)'
  BY <1>2, <1>5 DEF Loading
<1>7. Logging(n, g)' /\ Holding(n)'
  BY <1>2, <1>5 DEF Good, NodeGood, Logging, Holding
<1>8. \A s \in snapping'[n] : Snapping(n, s, g)'
  BY <1>2, NotReady DEF Good
<1>9. NodeGood(n, g)'
  BY <1>5, <1>6, <1>7, <1>8 DEF NodeGood
<1>10. \A k \in Node \ {n} : pc'[k] = pc[k] /\ res'[k] = res[k] /\ local'[k] = local[k]
  BY <1>2 DEF TypeOK
<1> QED BY <1>2, <1>4, <1>9, <1>10, SameLogs, StepKept

\* Loading: logs are replayed, before the lock is there and after.
LEMMA LoadKept ==
    ASSUME TypeOK, NEW g \in Int, Good(g), NEW n \in Node, NEW next,
           \/ pc[n] = "restored" /\ next = "loaded"
           \/ pc[n] = "locked" /\ next = "ready",
           LoadWriteLog(n, next), UNCHANGED <<disk, logFiles, inflight, snapping, acked>>
    PROVE  TypeOK' /\ Good(g)'
<1> DEFINE versions == {v \in DOMAIN logs : v > res[n].loadWLsPastVersion}
           c == CHOOSE x \in versions : TRUE
           fails == \/ Cardinality(versions) > 1
                    \/ versions # {} /\ res[n].locked /\ res[n].latestWLVersion # c
<1>1. /\ fails => Goto(n, "failed") /\ UNCHANGED <<res, local>>
      /\ ~fails => Goto(n, next)
      /\ ~fails /\ versions = {} => /\ UNCHANGED local
                                    /\ res' = [res EXCEPT ![n].latestWLVersion =
                                                      res[n].loadWLsPastVersion + 1]
      /\ ~fails /\ versions # {} =>
             /\ res' = [res EXCEPT ![n].latestWLVersion = c, ![n].dirty = TRUE,
                                   ![n].lastWLPos = @ + Len(Unread(n, c))]
             /\ local' = [local EXCEPT ![n] = @ \cup ToSet(Unread(n, c))]
  BY Zenon DEF LoadWriteLog
<1>2. UNCHANGED <<snaps, logs, logFiles, inflight, snapping, acked>> /\ LogsExtend(g)
  BY SameLogs DEF disk
<1>3. Loading(n, g) /\ Logging(n, g) /\ Holding(n) /\ (pc[n] = "locked" => res[n].locked)
      /\ next \in {"loaded", "ready"}
  BY DEF Good, NodeGood, Logging
<1>4. res[n].loadWLsPastVersion = g /\ res[n].lastWLPos \in Nat
      /\ (g # -1 => snaps[g] \subseteq local[n])
  BY <1>3 DEF Loading, TypeOK, IsResource
<1>5. IsFiniteSet(versions) /\ Cardinality(versions) \in Nat
  BY FS_Subset, FS_CardinalityType DEF TypeOK
<1>6. versions # {} => c \in versions
  OBVIOUS
<1>7. c \in versions => c \in DOMAIN logs /\ c \in Nat /\ c > g
                         /\ logs[c] \in Seq(Msg) /\ Len(logs[c]) \in Nat
  BY <1>4 DEF TypeOK
<1>8. \A v \in DOMAIN logs : v > g => v \in versions
  BY <1>4
<1>9. ASSUME versions # {}, ~fails, NEW v \in versions PROVE v = c
  <2>1. Cardinality(versions) = 1
    BY <1>5, <1>9, FS_EmptySet
  <2>2. PICK x : versions = {x}
    BY <1>5, <2>1, FS_Singleton
  <2> QED BY <1>6, <1>9, <2>2
<1> HIDE DEF versions, c
<1>13. ASSUME Logging(n, g)', Holding(n)', pc'[n] = "loaded" => Loading(n, g)',
              pc'[n] \in {"loaded", "ready", "failed"}
       PROVE  NodeGood(n, g)'
  <2>1. \A s \in snapping'[n] : Snapping(n, s, g)'
    BY <1>2, NotReady DEF Good
  <2> QED BY <1>13, <2>1 DEF NodeGood
<1>10. CASE fails
  <2>1. pc' = [pc EXCEPT ![n] = "failed"] /\ res' = res /\ local' = local
    BY <1>1, <1>10 DEF Goto
  <2>2. TypeOK'
    BY <1>2, <2>1 DEF TypeOK
  <2>4. pc'[n] = "failed" /\ \A k \in Node \ {n} : pc'[k] = pc[k]
    BY <2>1 DEF TypeOK
  <2>3. NodeGood(n, g)'
    BY <1>2, <1>3, <1>13, <2>1, <2>4 DEF Logging, Holding
  <2> QED BY <1>2, <2>1, <2>2, <2>3, <2>4, StepKept
<1>11. CASE ~fails /\ versions = {}
  <2>1. /\ pc' = [pc EXCEPT ![n] = next] /\ local' = local
        /\ res' = [res EXCEPT ![n].latestWLVersion = g + 1]
    BY <1>1, <1>4, <1>11 DEF Goto
  <2>8. DOMAIN res' = Node /\ \A k \in Node : IsResource(res'[k])
    BY <2>1 DEF TypeOK, IsResource
  <2>2. TypeOK'
    BY <1>2, <1>3, <2>1, <2>8 DEF TypeOK
  <2>3. \A k \in Node \ {n} : pc'[k] = pc[k] /\ res'[k] = res[k]
    BY <2>1 DEF TypeOK
  <2>4. pc'[n] = next /\ res'[n] = [res[n] EXCEPT !.latestWLVersion = g + 1]
    BY <2>1 DEF TypeOK
  <2>5. /\ res'[n].lastWLPos = res[n].lastWLPos /\ res'[n].loadWLsPastVersion = g
        /\ res'[n].latestWLVersion = g + 1 /\ res'[n].locked = res[n].locked
    BY <1>4, <2>4 DEF TypeOK, IsResource
  <2>6. Logging(n, g)'
    BY <1>2, <1>3, <2>4, <2>5 DEF Logging
  <2>7. ASSUME next = "loaded" PROVE Loading(n, g)'
    <3>1. res'[n].lastWLPos = 0
      BY <1>3, <2>5, <2>7 DEF Loading
    <3> QED BY <1>2, <1>4, <2>1, <2>4, <2>5, <2>7, <3>1 DEF Loading
  <2>9. next = "ready" => acked \subseteq local[n]
    BY <1>4, <1>8, <1>11 DEF Good, Safe
  <2>10. Holding(n)'
    BY <1>2, <1>3, <2>1, <2>4, <2>9 DEF Holding
  <2>11. NodeGood(n, g)'
    BY <1>3, <1>13, <2>4, <2>6, <2>7, <2>10
  <2> QED BY <1>2, <2>1, <2>2, <2>3, <2>11, StepKept
<1>12. CASE ~fails /\ versions # {}
  <2>2. c \in DOMAIN logs /\ c \in Nat /\ c > g /\ logs[c] \in Seq(Msg) /\ Len(logs[c]) \in Nat
    BY <1>6, <1>7, <1>12
  <2>1. /\ pc' = [pc EXCEPT ![n] = next]
        /\ local' = [local EXCEPT ![n] = @ \cup ToSet(Unread(n, c))]
        /\ res' = [res EXCEPT ![n].latestWLVersion = c, ![n].dirty = TRUE,
                              ![n].lastWLPos = @ + Len(Unread(n, c))]
    BY <1>1, <1>12 DEF Goto
  <2>13. Unread(n, c) = SubSeq(logs[c], res[n].lastWLPos + 1, Len(logs[c]))
    <3>1. (IF res[n].lastWLPos > 0 THEN res[n].lastWLPos ELSE 0) = res[n].lastWLPos
      BY <1>4
    <3> QED BY <3>1, Zenon DEF Unread
  <2>14. Len(Unread(n, c)) \in Nat /\ (res[n].lastWLPos = 0 => Len(Unread(n, c)) = Len(logs[c]))
    <3>1. /\ Len(SubSeq(logs[c], res[n].lastWLPos + 1, Len(logs[c]))) \in Nat
          /\ res[n].lastWLPos = 0 =>
                 Len(SubSeq(logs[c], res[n].lastWLPos + 1, Len(logs[c]))) = Len(logs[c])
      <4> HIDE DEF c
      <4> QED BY <1>4, <2>2, RestLength
    <3> QED BY <2>13, <3>1
  <2>12. DOMAIN res' = Node /\ \A k \in Node : IsResource(res'[k])
    BY <2>1, <2>2, <2>14 DEF TypeOK, IsResource
  <2>3. TypeOK'
    BY <1>2, <1>3, <2>1, <2>12 DEF TypeOK
  <2>4. \A k \in Node \ {n} : pc'[k] = pc[k] /\ res'[k] = res[k] /\ local'[k] = local[k]
    BY <2>1 DEF TypeOK
  <2>5. /\ pc'[n] = next /\ local'[n] = local[n] \cup ToSet(Unread(n, c))
        /\ res'[n].latestWLVersion = c
        /\ res'[n].lastWLPos = res[n].lastWLPos + Len(Unread(n, c))
        /\ res'[n].loadWLsPastVersion = g /\ res'[n].locked = res[n].locked
    BY <1>4, <2>1 DEF TypeOK, IsResource
  <2>6. pc[n] = "locked" => res[n].latestWLVersion = c
    BY <1>3, <1>12
  <2>7. ASSUME NEW k \in 1..Len(logs[c]) PROVE logs[c][k] \in local'[n]
    <3>1. CASE k > res[n].lastWLPos
      BY <1>4, <2>2, <2>5, <2>13, <3>1, ReadFrom
    <3>2. CASE k <= res[n].lastWLPos
      <4>1. pc[n] = "locked" /\ k \in 1..res[n].lastWLPos
        BY <1>3, <1>4, <2>2, <3>2 DEF Loading
      <4>2. logs[c][k] \in local[n]
        BY <1>3, <2>6, <4>1 DEF Loading
      <4> QED BY <2>5, <4>2
    <3> QED BY <1>4, <2>2, <3>1, <3>2
  <2>8. g # -1 => snaps[g] \subseteq local'[n]
    BY <1>4, <2>5
  <2>9. ASSUME next = "loaded" PROVE Loading(n, g)'
    <3>1. res'[n].lastWLPos = Len(logs[c])
      BY <1>3, <2>2, <2>5, <2>9, <2>14 DEF Loading
    <3> QED BY <1>2, <2>2, <2>5, <2>7, <2>8, <2>9, <3>1 DEF Loading
  <2>10. ASSUME NEW m \in acked PROVE m \in local'[n]
    <3>1. Safe(m, g)
      BY <2>10 DEF Good
    <3>2. CASE g # -1 /\ m \in snaps[g]
      BY <2>8, <3>2
    <3>3. ASSUME NEW v \in DOMAIN logs, v > g, NEW k \in 1..Len(logs[v]), logs[v][k] = m
          PROVE  m \in local'[n]
      BY <1>8, <1>9, <1>12, <2>7, <3>3
    <3> QED BY <3>1, <3>2, <3>3 DEF Safe
  <2>15. Logging(n, g)'
    BY <1>2, <1>3, <2>2, <2>5 DEF Logging
  <2>16. Holding(n)'
    BY <1>2, <1>3, <2>5, <2>10 DEF Holding
  <2>11. NodeGood(n, g)'
    BY <1>3, <1>13, <2>5, <2>9, <2>15, <2>16
  <2> QED BY <1>2, <2>1, <2>3, <2>4, <2>11, StepKept
<1> QED BY <1>10, <1>11, <1>12

\* Loading: the lock is taken, or somebody else has it for too long.
LEMMA LockKept ==
    ASSUME TypeOK, NEW g \in Int, Good(g), NEW n \in Node, Lock(n) \/ LockTimesOut(n)
    PROVE  TypeOK' /\ Good(g)'
<1>1. UNCHANGED <<snaps, logs, logFiles, local, inflight, snapping, acked>> /\ pc[n] = "loaded"
  BY DEF Lock, LockTimesOut, disk
<1>2. \/ pc' = [pc EXCEPT ![n] = "locked"] /\ res' = [res EXCEPT ![n].locked = TRUE]
      \/ pc' = [pc EXCEPT ![n] = "failed"] /\ res' = res
  BY DEF Lock, LockTimesOut, Goto
<1>3. DOMAIN res' = Node /\ \A k \in Node : IsResource(res'[k])
  BY <1>2 DEF TypeOK, IsResource
<1>4. TypeOK'
  BY <1>1, <1>2, <1>3 DEF TypeOK
<1>5. \A k \in Node \ {n} : pc'[k] = pc[k] /\ res'[k] = res[k]
  BY <1>2 DEF TypeOK
<1>6. Loading(n, g) /\ Logging(n, g) /\ Holding(n)
  BY <1>1 DEF Good, NodeGood
<1>7. /\ res'[n].latestWLVersion = res[n].latestWLVersion
      /\ res'[n].lastWLPos = res[n].lastWLPos
      /\ res'[n].loadWLsPastVersion = res[n].loadWLsPastVersion
      /\ \/ pc'[n] = "failed" /\ res'[n].locked = res[n].locked
         \/ pc'[n] = "locked" /\ res'[n].locked
  BY <1>2 DEF TypeOK, IsResource
<1>8. Loading(n, g)'
  BY <1>1, <1>6, <1>7 DEF Loading
<1>9. Logging(n, g)' /\ Holding(n)'
  BY <1>1, <1>6, <1>7 DEF Logging, Loading, Holding
<1>10. \A s \in snapping'[n] : Snapping(n, s, g)'
  BY <1>1, NotReady DEF Good
<1>11. NodeGood(n, g)'
  BY <1>7, <1>8, <1>9, <1>10 DEF NodeGood
<1> QED BY <1>1, <1>4, <1>5, <1>11, SameLogs, StepKept

-----------------------------------------------------------------------------
\* An import is committed: to a database that no snapshot is reading.
LEMMA CommitKept ==
    ASSUME TypeOK, NEW g \in Int, Good(g), NEW n \in Node, NEW m \in Msg, CommitImport(n, m)
    PROVE  TypeOK' /\ Good(g)'
<1>1. /\ UNCHANGED <<snaps, logs, pc, res, logFiles, snapping, acked>>
      /\ local' = [local EXCEPT ![n] = @ \cup {m}]
      /\ inflight' = [inflight EXCEPT ![n] = @ \cup {m}]
      /\ ~TxHeld(n)
  BY DEF CommitImport, disk
<1>2. TypeOK'
  BY <1>1 DEF TypeOK
<1>3. local'[n] = local[n] \cup {m} /\ inflight'[n] = inflight[n] \cup {m}
  BY <1>1 DEF TypeOK
<1>4. \A k \in Node \ {n} : local'[k] = local[k] /\ inflight'[k] = inflight[k]
  BY <1>1 DEF TypeOK
<1>5. Logging(n, g) /\ Holding(n) /\ \A s \in snapping[n] : Snapping(n, s, g) /\ s.written
  BY <1>1 DEF Good, NodeGood, TxHeld
<1>6. Logging(n, g)' /\ Holding(n)'
  BY <1>1, <1>3, <1>5 DEF Logging, Holding
<1>7. \A s \in snapping'[n] : Snapping(n, s, g)'
  BY <1>1, <1>5 DEF Snapping
<1>8. LogsExtend(g)
  BY <1>1, SameLogs
<1>9. ASSUME pc'[n] \in {"restored", "loaded", "locked"} PROVE Loading(n, g)'
  <2>1. Loading(n, g)
    BY <1>1, <1>9 DEF Good, NodeGood
  <2> QED BY <1>1, <1>2, <1>3, <1>8, <1>9, <2>1, LoadingKept
<1>10. NodeGood(n, g)'
  BY <1>6, <1>7, <1>9 DEF NodeGood
<1> QED BY <1>1, <1>2, <1>4, <1>8, <1>10, StepKept

\* A message goes to a log past the snapshot, in a file that is in the directory.
\* The database has it, and so has a snapshot that is being written.
LEMMA AppendKept ==
    ASSUME LockInv, TypeOK, NEW g \in Int, Good(g), NEW n \in Node, NEW m \in Msg,
           AppendMessage(n, m), accidents' = {}, UNCHANGED <<snaps, pc, snapping>>,
           \/ UNCHANGED local /\ m \in inflight[n]
              /\ inflight' = [inflight EXCEPT ![n] = @ \ {m}]
           \/ local' = [local EXCEPT ![n] = @ \cup {m}] /\ ~TxHeld(n) /\ UNCHANGED inflight
    PROVE  TypeOK' /\ Good(g)'
<1> DEFINE v == res[n].latestWLVersion
           old == IF v \in DOMAIN logs THEN logs[v] ELSE << >>
<1>1. res[n].locked /\ acked' = acked \cup {m} /\ res' = [res EXCEPT ![n].dirty = TRUE]
  BY DEF AppendMessage, Noted
<1>2. Logging(n, g) /\ Holding(n) /\ (\A s \in snapping[n] : Snapping(n, s, g))
      /\ v > g /\ \A w \in DOMAIN logFiles[n] : logFiles[n][w]
  BY <1>1 DEF Good, NodeGood, Logging
<1>3. (IF v \in DOMAIN logFiles[n] THEN logFiles[n][v] ELSE TRUE) = TRUE
      /\ logFiles' = [logFiles EXCEPT ![n] = Put(@, v, TRUE)] /\ logs' = Put(logs, v, Append(old, m))
  BY <1>2 DEF AppendMessage
<1>15. v \in Nat
  <2>1. g >= -1 /\ v \in Int
    BY DEF Good, Greatest, TypeOK, IsResource
  <2> QED BY <1>2, <2>1
<1>4. old \in Seq(Msg) /\ Append(old, m) \in Seq(Msg) /\ Len(old) \in Nat
      /\ Len(Append(old, m)) = Len(old) + 1 /\ Append(old, m)[Len(old) + 1] = m
      /\ \A k \in 1..Len(old) : Append(old, m)[k] = old[k]
  BY DEF TypeOK
<1>6. /\ DOMAIN logs' = DOMAIN logs \cup {v} /\ logs'[v] = Append(old, m)
      /\ \A w \in DOMAIN logs : w # v => logs'[w] = logs[w]
  BY <1>3 DEF Put
<1>7. v \in DOMAIN logs => old = logs[v]
  OBVIOUS
<1> HIDE DEF old
<1>8. LogsExtend(g)
  <2>1. \A w \in DOMAIN logs : Len(logs[w]) \in Nat
    BY DEF TypeOK
  <2> QED BY <1>4, <1>6, <1>7, <2>1 DEF LogsExtend
<1>9. DOMAIN res' = Node /\ \A k \in Node : IsResource(res'[k])
  BY <1>1 DEF TypeOK, IsResource
<1>10. TypeOK'
  <2>1. IsFiniteSet(DOMAIN logs')
    <3>1. IsFiniteSet(DOMAIN logs)
      BY DEF TypeOK
    <3>2. IsFiniteSet(DOMAIN logs \cup {v})
      BY <3>1, FS_AddElement
    <3> QED BY <1>6, <3>2
  <2>2. \A w \in DOMAIN logs' : logs'[w] \in Seq(Msg)
    BY <1>4, <1>6 DEF TypeOK
  <2>3. DOMAIN local' = Node /\ DOMAIN inflight' = Node /\ DOMAIN logFiles' = Node
    BY <1>3 DEF TypeOK
  <2> QED BY <1>1, <1>6, <1>9, <1>15, <2>1, <2>2, <2>3 DEF TypeOK
<1>16. /\ local[n] \cup {m} = local'[n] /\ inflight'[n] \subseteq inflight[n]
       /\ m \in inflight[n] \/ ~TxHeld(n)
  BY <1>2 DEF TypeOK, Holding
<1>17. \A k \in Node \ {n} : /\ pc'[k] = pc[k] /\ res'[k] = res[k] /\ local'[k] = local[k]
                             /\ inflight'[k] = inflight[k] /\ logFiles'[k] = logFiles[k]
  BY <1>1, <1>3 DEF TypeOK
<1>11. ASSUME NEW k \in Node \ {n} PROVE NodeGood(k, g)'
  <2>1. ~res[k].locked
    BY <1>1 DEF LockInv, OneOwner
  <2> QED BY <1>8, <1>10, <1>17, <2>1, NodeKept DEF Good
<1>12. NodeGood(n, g)'
  <2>1. /\ res'[n].latestWLVersion = v /\ res'[n].locked = res[n].locked /\ pc'[n] = pc[n]
        /\ res'[n].lastWLPos = res[n].lastWLPos
        /\ res'[n].loadWLsPastVersion = res[n].loadWLsPastVersion
    BY <1>1 DEF TypeOK, IsResource
  <2>2. \A w \in DOMAIN logFiles'[n] : logFiles'[n][w]
    BY <1>2, <1>3 DEF Put, TypeOK
  <2>3. Logging(n, g)'
    BY <1>1, <1>2, <2>1, <2>2 DEF Logging
  <2>4. Holding(n)'
    BY <1>1, <1>2, <1>16, <2>1 DEF Holding
  <2>5. ASSUME NEW s \in snapping'[n] PROVE Snapping(n, s, g)'
    <3>1. Snapping(n, s, g) /\ s \in snapping[n]
      BY <1>2
    <3>2. ~s.written => m \in inflight[n]
      BY <1>16, <3>1 DEF TxHeld
    <3> QED BY <1>1, <1>16, <2>1, <3>1, <3>2 DEF Snapping
  <2>6. ASSUME pc'[n] \in {"restored", "loaded", "locked"} PROVE Loading(n, g)'
    <3>1. Loading(n, g)
      BY <2>1, <2>6 DEF Good, NodeGood
    <3> QED BY <1>8, <1>10, <1>16, <2>1, <2>6, <3>1, LoadingKept
  <2> QED BY <2>3, <2>4, <2>5, <2>6 DEF NodeGood
<1>13. \A x \in acked' : Safe(x, g)'
  <2>1. Safe(m, g)'
    <3>1. v \in DOMAIN logs' /\ v > g /\ Len(old) + 1 \in 1..Len(logs'[v])
          /\ logs'[v][Len(old) + 1] = m
      BY <1>2, <1>4, <1>6
    <3> QED BY <3>1 DEF Safe
  <2>2. \A x \in acked : Safe(x, g)'
    BY <1>8, <1>10, SafeKept DEF Good
  <2> QED BY <1>1, <2>1, <2>2
<1>14. Greatest(g)'
  BY DEF Good, Greatest
<1> QED BY <1>10, <1>11, <1>12, <1>13, <1>14 DEF Good

\* A message is appended after its commit, or in the transaction that commits it;
\* or the node has lost the resource and the import fails.
LEMMA ImportKept ==
    ASSUME LockInv, TypeOK, NEW g \in Int, Good(g), NEW n \in Node, NEW m \in Msg,
           AppendImport(n, m) \/ ImportRoaringShard(n, m), accidents' = {}
    PROVE  TypeOK' /\ Good(g)'
<1>1. CASE ImportRoaringShard(n, m)
  BY <1>1, AppendKept DEF ImportRoaringShard
<1>2. CASE AppendImport(n, m) /\ AppendMessage(n, m)
  BY <1>2, AppendKept DEF AppendImport
<1>3. CASE AppendImport(n, m) /\ UNCHANGED <<logs, logFiles, res, acked, accidents>>
  <2>1. UNCHANGED <<snaps, logs, pc, res, logFiles, local, snapping, acked>>
        /\ inflight' = [inflight EXCEPT ![n] = @ \ {m}]
    BY <1>3 DEF AppendImport
  <2>2. TypeOK'
    BY <2>1 DEF TypeOK
  <2>3. inflight'[n] \subseteq inflight[n] /\ \A k \in Node \ {n} : inflight'[k] = inflight[k]
    BY <2>1 DEF TypeOK
  <2>4. Logging(n, g)' /\ Holding(n)'
    BY <2>1, <2>3 DEF Good, NodeGood, Logging, Holding
  <2>5. \A s \in snapping'[n] : Snapping(n, s, g)'
    BY <2>1, <2>3 DEF Good, NodeGood, Snapping
  <2>6. pc'[n] \in {"restored", "loaded", "locked"} => Loading(n, g)'
    BY <2>1 DEF Good, NodeGood, Loading
  <2>7. NodeGood(n, g)'
    BY <2>4, <2>5, <2>6 DEF NodeGood
  <2> QED BY <2>1, <2>2, <2>3, <2>7, SameLogs, StepKept
<1> QED BY <1>1, <1>2, <1>3 DEF AppendImport

-----------------------------------------------------------------------------
\* A snapshot begins: later imports go to the log after the one that it covers.
LEMMA IncrementKept ==
    ASSUME TypeOK, NEW g \in Int, Good(g), NEW n \in Node, IncrementWLVersion(n), accidents' = {}
    PROVE  TypeOK' /\ Good(g)'
<1> DEFINE begun == [version |-> res[n].latestWLVersion, data |-> local[n],
                     written |-> FALSE, current |-> TRUE]
<1>1. /\ UNCHANGED <<snaps, logs, pc, logFiles, local, inflight, acked>>
      /\ pc[n] = "ready" /\ res[n].latestWLVersion < MaxVersion
      /\ \A s \in snapping[n] : ~s.current
      /\ snapping' = [snapping EXCEPT ![n] = @ \cup {begun}]
      /\ res' = [res EXCEPT ![n].latestWLVersion = @ + 1, ![n].lastWLPos = -1,
                            ![n].loadWLsPastVersion = -1, ![n].dirty = FALSE]
  BY DEF IncrementWLVersion, disk
<1>2. DOMAIN res' = Node /\ \A k \in Node : IsResource(res'[k])
  BY <1>1 DEF TypeOK, IsResource
<1>3. snapping'[n] = snapping[n] \cup {begun}
      /\ \A k \in Node \ {n} : snapping'[k] = snapping[k] /\ res'[k] = res[k]
  BY <1>1 DEF TypeOK
<1>4. IsSnapshot(begun)
  BY DEF IsSnapshot, TypeOK, IsResource
<1>5. TypeOK'
  BY <1>1, <1>2, <1>3, <1>4 DEF TypeOK
<1>6. res'[n].latestWLVersion = res[n].latestWLVersion + 1 /\ res'[n].locked = res[n].locked
      /\ res[n].latestWLVersion \in Int
  BY <1>1 DEF TypeOK, IsResource
<1>7. Logging(n, g) /\ Holding(n) /\ res[n].latestWLVersion > g
      /\ acked \cup inflight[n] \subseteq local[n]
  BY <1>1 DEF Good, NodeGood, Logging, Holding
<1>8. Logging(n, g)' /\ Holding(n)'
  BY <1>1, <1>6, <1>7 DEF Logging, Holding
<1>9. ASSUME NEW s \in snapping'[n] PROVE Snapping(n, s, g)'
  <2>1. CASE s \in snapping[n]
    <3>1. Snapping(n, s, g) /\ ~s.current
      BY <1>1, <2>1 DEF Good, NodeGood
    <3> QED BY <1>1, <3>1 DEF Snapping
  <2>2. CASE s = begun
    <3>1. s.version = res[n].latestWLVersion /\ s.data = local[n] /\ ~s.written
      BY <2>2
    <3>2. \A t \in snapping'[n] : t.current => t = s
      BY <1>1, <1>3, <2>2
    <3> HIDE DEF begun
    <3> QED BY <1>1, <1>6, <1>7, <3>1, <3>2, DaxAssumption DEF Snapping
  <2> QED BY <1>3, <2>1, <2>2
<1>10. NodeGood(n, g)'
  BY <1>1, <1>8, <1>9 DEF NodeGood
<1> QED BY <1>1, <1>3, <1>5, <1>10, SameLogs, StepKept

\* A snapshot is written, while nobody else loads: it has all that was
\* acknowledged, and its version is greater than any other's.
LEMMA SnapshotWriteKept ==
    ASSUME LockInv, TypeOK, NEW g \in Int, Good(g), NEW n \in Node, NEW s \in snapping[n],
           SnapshotWrite(n, s), accidents' = {}
    PROVE  TypeOK' /\ \E h \in Int : Good(h)'
<1>1. PICK h \in Int : h = s.version
  BY DEF TypeOK, IsSnapshot
<1> DEFINE done == [s EXCEPT !.written = TRUE]
<1>2. /\ UNCHANGED <<logs, pc, res, logFiles, local, inflight, acked>> /\ ~s.written
      /\ s.current /\ snaps' = Put(snaps, h, s.data)
      /\ snapping' = [snapping EXCEPT ![n] = (@ \ {s}) \cup {done}]
      /\ \A k \in Node \ {n} : pc[k] \notin {"restored", "loaded"}
  BY <1>1 DEF SnapshotWrite, Overtakes
<1>3. Snapping(n, s, g) /\ Logging(n, g) /\ Holding(n) /\ \A t \in snapping[n] : Snapping(n, t, g)
  BY DEF Good, NodeGood
<1>4. /\ pc[n] = "ready" /\ res[n].locked /\ h = res[n].latestWLVersion - 1
      /\ h > g /\ h < MaxVersion /\ acked \subseteq s.data
      /\ \A t \in snapping[n] : t.current => t = s
  BY <1>1, <1>2, <1>3 DEF Snapping, Logging
<1>5. res[n].latestWLVersion \in Int
  BY DEF TypeOK, IsResource
<1>6. g >= -1 /\ \A v \in DOMAIN snaps : v <= g
  BY DEF Good, Greatest, TypeOK
<1>7. DOMAIN snaps' = DOMAIN snaps \cup {h} /\ snaps'[h] = s.data
  BY <1>2 DEF Put
<1>8. snapping'[n] = (snapping[n] \ {s}) \cup {done}
      /\ \A k \in Node \ {n} : snapping'[k] = snapping[k]
  BY <1>2 DEF TypeOK
<1>9. IsSnapshot(done) /\ done.version = h /\ done.written
  BY <1>1 DEF TypeOK, IsSnapshot
<1> HIDE DEF done
<1>10. h \in Nat /\ TypeOK'
  BY <1>2, <1>4, <1>6, <1>7, <1>8, <1>9 DEF TypeOK
<1>11. Greatest(h)'
  BY <1>4, <1>6, <1>7 DEF Greatest, TypeOK
<1>12. \A m \in acked' : Safe(m, h)'
  BY <1>2, <1>4, <1>7, <1>10 DEF Safe
<1>13. ASSUME NEW k \in Node \ {n} PROVE NodeGood(k, h)'
  <2>1. NodeGood(k, g) /\ ~res[k].locked
    BY <1>4 DEF Good, LockInv, OneOwner
  <2>2. pc[k] \notin {"restored", "loaded", "locked", "ready"}
    BY <1>2, <2>1 DEF NodeGood, Logging
  <2>3. Logging(k, h)' /\ Holding(k)'
    BY <1>2, <2>1, <2>2 DEF NodeGood, Logging, Holding
  <2>4. ASSUME NEW t \in snapping'[k] PROVE Snapping(k, t, h)'
    <3>1. Snapping(k, t, g) /\ t.version \in Int
      BY <1>8, <2>1 DEF NodeGood, TypeOK, IsSnapshot
    <3>2. ~t.current /\ (t.written => t.version <= h)
      BY <1>4, <2>2, <3>1 DEF Snapping
    <3> QED BY <3>2 DEF Snapping
  <2> QED BY <1>2, <2>2, <2>3, <2>4 DEF NodeGood
<1>14. NodeGood(n, h)'
  <2>1. Logging(n, h)' /\ Holding(n)'
    BY <1>2, <1>3, <1>4, <1>5 DEF Logging, Holding
  <2>2. ASSUME NEW t \in snapping'[n] PROVE Snapping(n, t, h)'
    <3>1. CASE t = done
      <4>1. \A u \in snapping'[n] : u.current => u = t
        BY <1>4, <1>8, <3>1
      <4> QED BY <1>2, <1>4, <1>9, <3>1, <4>1 DEF Snapping
    <3>2. CASE t \in snapping[n] \ {s}
      <4>1. ~t.current /\ Snapping(n, t, g) /\ t.version \in Int
        BY <1>3, <1>4, <3>2 DEF TypeOK, IsSnapshot
      <4>2. t.written => t.version <= h
        BY <1>4, <4>1 DEF Snapping
      <4> QED BY <4>1, <4>2 DEF Snapping
    <3> QED BY <1>8, <3>1, <3>2
  <2> QED BY <1>2, <1>4, <2>1, <2>2 DEF NodeGood
<1> QED BY <1>4, <1>10, <1>11, <1>12, <1>13, <1>14 DEF Good

\* A snapshot that fails without a file leaves the logs where they are.
LEMMA SnapshotFailsKept ==
    ASSUME TypeOK, NEW g \in Int, Good(g), NEW n \in Node, NEW s \in snapping[n],
           SnapshotFails(n, s), accidents' = {}
    PROVE  TypeOK' /\ Good(g)'
<1>1. /\ UNCHANGED <<snaps, logs, pc, res, logFiles, local, inflight, acked>>
      /\ snapping' = [snapping EXCEPT ![n] = @ \ {s}]
  BY DEF SnapshotFails
<1>2. snapping'[n] = snapping[n] \ {s} /\ \A k \in Node \ {n} : snapping'[k] = snapping[k]
  BY <1>1 DEF TypeOK
<1>3. TypeOK'
  BY <1>1, <1>2 DEF TypeOK
<1>4. Logging(n, g)' /\ Holding(n)'
  BY <1>1 DEF Good, NodeGood, Logging, Holding
<1>5. \A t \in snapping'[n] : Snapping(n, t, g)'
  BY <1>1, <1>2 DEF Good, NodeGood, Snapping
<1>6. pc'[n] \in {"restored", "loaded", "locked"} => Loading(n, g)'
  BY <1>1 DEF Good, NodeGood, Loading
<1>7. NodeGood(n, g)'
  BY <1>4, <1>5, <1>6 DEF NodeGood
<1> QED BY <1>1, <1>2, <1>3, <1>7, SameLogs, StepKept

\* The log that goes is not past the snapshot.
LEMMA SnapshotEndsKept ==
    ASSUME LockInv, TypeOK, NEW g \in Int, Good(g), NEW n \in Node, NEW s \in snapping[n],
           SnapshotEnds(n, s)
    PROVE  TypeOK' /\ Good(g)'
<1>1. /\ UNCHANGED <<snaps, pc, res, local, inflight, acked>> /\ s.written
      /\ snapping' = [snapping EXCEPT ![n] = @ \ {s}] /\ DeleteLog(n, DeletedVersion(n, s))
  BY DEF SnapshotEnds
<1>2. Snapping(n, s, g) /\ Logging(n, g) /\ NodeGood(n, g)
  BY DEF Good, NodeGood
<1>3. PICK v \in Int : v = DeletedVersion(n, s) /\ v <= g
  <2>1. DeletedVersion(n, s) = s.version /\ s.version \in Int
    BY <1>2 DEF Snapping, DeletedVersion, TypeOK, IsSnapshot
  <2> QED BY <1>1, <1>2, <2>1 DEF Snapping
<1>4. v \in DOMAIN logFiles[n] => res[n].locked
  BY <1>2 DEF Logging
<1>5. ASSUME v \in DOMAIN logFiles[n], NEW k \in Node \ {n} PROVE DOMAIN logFiles[k] = {}
  BY <1>4, <1>5 DEF Good, NodeGood, Logging, LockInv, OneOwner
<1>6. DOMAIN logs' \subseteq DOMAIN logs /\ (\A w \in DOMAIN logs' : logs'[w] = logs[w])
      /\ \A w \in DOMAIN logs : w # v => w \in DOMAIN logs'
  BY <1>1, <1>3 DEF DeleteLog, Without
<1>7. LogsExtend(g)
  BY <1>3, <1>6 DEF LogsExtend, TypeOK
<1>8. /\ DOMAIN logFiles' = Node
      /\ \A k \in Node \ {n} : logFiles'[k] = logFiles[k] \/ DOMAIN logFiles'[k] = {}
      /\ \A w \in DOMAIN logFiles'[n] : w \in DOMAIN logFiles[n] /\ logFiles'[n][w] = logFiles[n][w]
  <2>1. CASE logFiles' = logFiles
    BY <2>1 DEF TypeOK
  <2>2. CASE v \in DOMAIN logFiles[n] /\ logFiles' = [k \in Node |->
                IF k = n THEN Without(logFiles[k], v)
                ELSE [w \in DOMAIN logFiles[k] |-> w # v /\ logFiles[k][w]]]
    BY <1>5, <2>2 DEF Without
  <2> QED BY <1>1, <1>3, <2>1, <2>2 DEF DeleteLog
<1>9. snapping'[n] = snapping[n] \ {s} /\ \A k \in Node \ {n} : snapping'[k] = snapping[k]
  BY <1>1 DEF TypeOK
<1>10. TypeOK'
  BY <1>1, <1>6, <1>8, <1>9, FS_Subset DEF TypeOK
<1>11. NodeGood(n, g)'
  <2>1. Logging(n, g)'
    BY <1>1, <1>2, <1>8 DEF Logging
  <2>2. Holding(n)'
    BY <1>1, <1>2 DEF NodeGood, Holding
  <2>3. \A t \in snapping'[n] : Snapping(n, t, g)'
    BY <1>1, <1>2, <1>9 DEF NodeGood, Snapping
  <2>4. ASSUME pc'[n] \in {"restored", "loaded", "locked"} PROVE Loading(n, g)'
    BY <1>1, <1>2, <1>7, <1>10, <2>4, LoadingKept DEF NodeGood
  <2> QED BY <2>1, <2>2, <2>3, <2>4 DEF NodeGood
<1> QED BY <1>1, <1>7, <1>8, <1>9, <1>10, <1>11, StepKept

\* Removal and death forget the Resource and close its logs; what is under way of
\* it is no longer its own.
LEMMA ForgetKept ==
    ASSUME TypeOK, NEW g \in Int, Good(g), NEW n \in Node, RemoveResource(n) \/ Crash(n)
    PROVE  TypeOK' /\ Good(g)'
<1>1. /\ UNCHANGED <<snaps, logs, local, acked>>
      /\ pc' = [pc EXCEPT ![n] = "none"] /\ res' = [res EXCEPT ![n] = initialize]
  BY DEF RemoveResource, Crash, Forget, Goto, disk
<1>2. \/ logFiles' = [logFiles EXCEPT ![n] = [v \in {} |-> TRUE]]
      \/ logFiles' = logFiles /\ ~res[n].locked
  BY DEF RemoveResource, Crash, CloseLogs
<1>3. ~res[n].locked => DOMAIN logFiles[n] = {}
  BY DEF Good, NodeGood, Logging
<1>4. DOMAIN logFiles' = Node /\ DOMAIN logFiles'[n] = {}
      /\ \A k \in Node \ {n} : logFiles'[k] = logFiles[k]
  BY <1>2, <1>3 DEF TypeOK
<1>5. IsResource(initialize) /\ ~initialize.locked
  BY DEF initialize, IsResource
<1>6. /\ inflight' = inflight \/ inflight' = [inflight EXCEPT ![n] = {}]
      /\ \/ snapping' = [snapping EXCEPT ![n] = {}]
         \/ snapping' = [snapping EXCEPT ![n] = {[s EXCEPT !.current = FALSE] : s \in @}]
  BY DEF RemoveResource, Crash
<1>7. /\ DOMAIN inflight' = Node /\ inflight'[n] \subseteq inflight[n]
      /\ \A k \in Node \ {n} : inflight'[k] = inflight[k]
  BY <1>6 DEF TypeOK
<1>8. /\ DOMAIN snapping' = Node /\ \A k \in Node \ {n} : snapping'[k] = snapping[k]
      /\ \A t \in snapping'[n] : \E s \in snapping[n] : t = [s EXCEPT !.current = FALSE]
  BY <1>6 DEF TypeOK
<1>9. ASSUME NEW t \in snapping'[n]
      PROVE  IsSnapshot(t) /\ ~t.current /\ (t.written => t.version <= g)
  <2>1. PICK s \in snapping[n] : t = [s EXCEPT !.current = FALSE]
    BY <1>8, <1>9
  <2>2. IsSnapshot(s) /\ Snapping(n, s, g)
    BY <2>1 DEF TypeOK, Good, NodeGood
  <2>3. t.version = s.version /\ t.written = s.written /\ ~t.current /\ DOMAIN t = DOMAIN s
    BY <2>1, <2>2 DEF IsSnapshot
  <2> QED BY <2>2, <2>3 DEF IsSnapshot, Snapping
<1>10. TypeOK'
  BY <1>1, <1>4, <1>5, <1>7, <1>8, <1>9 DEF TypeOK
<1>11. pc'[n] = "none" /\ ~res'[n].locked /\ \A k \in Node \ {n} : pc'[k] = pc[k] /\ res'[k] = res[k]
  BY <1>1, <1>5 DEF TypeOK
<1>12. Logging(n, g)' /\ Holding(n)'
  BY <1>1, <1>4, <1>7, <1>11 DEF Logging, Holding, Good, NodeGood
<1>13. \A t \in snapping'[n] : Snapping(n, t, g)'
  BY <1>9 DEF Snapping
<1>14. NodeGood(n, g)'
  BY <1>11, <1>12, <1>13 DEF NodeGood
<1> QED BY <1>1, <1>4, <1>7, <1>8, <1>10, <1>11, <1>14, SameLogs, StepKept

-----------------------------------------------------------------------------
\* To begin with there are snapshots up to FirstVersion and no logs.
LEMMA CurrentInit == Init => CurrentInv
<1> SUFFICES ASSUME Init PROVE CurrentInv
  OBVIOUS
<1>1. TypeOK
  <2>1. DOMAIN snaps \subseteq Nat /\ DOMAIN logs = {} /\ DOMAIN res = Node
        /\ DOMAIN logFiles = Node /\ DOMAIN local = Node /\ DOMAIN inflight = Node
        /\ DOMAIN snapping = Node /\ \A n \in Node : snapping[n] = {}
    BY DaxAssumption DEF Init
  <2>2. \A n \in Node : IsResource(res[n])
    BY DEF Init, initialize, IsResource
  <2>3. pc \in [Node -> {"none", "assigned", "restored", "loaded", "locked", "ready", "failed"}]
    BY DEF Init
  <2> QED BY <2>1, <2>2, <2>3, FS_EmptySet DEF TypeOK
<1>2. FirstVersion - 1 \in Int /\ FirstVersion - 1 < MaxVersion
  BY DaxAssumption
<1>3. Greatest(FirstVersion - 1)
  BY DaxAssumption DEF Init, Greatest
<1>4. \A n \in Node : NodeGood(n, FirstVersion - 1)
  BY DEF Init, initialize, NodeGood, Logging, Holding
<1>5. Good(FirstVersion - 1)
  BY <1>2, <1>3, <1>4 DEF Init, Good
<1> QED BY <1>1, <1>2, <1>5, LockInvInit DEF CurrentInv

\* Each action of Next, while versions have names of one digit.
LEMMA CurrentNext == MaxVersion <= 10 /\ CurrentInv /\ [Next]_vars => CurrentInv'
<1> SUFFICES ASSUME MaxVersion <= 10, CurrentInv, [Next]_vars, accidents' = {}
             PROVE  TypeOK' /\ \E g \in Int : Good(g)'
  BY LockInvNext DEF CurrentInv
<1>1. LockInv /\ (Next \/ UNCHANGED vars)
  BY DEF CurrentInv
<1>2. accidents = {}
  <2>1. ASSUME NEW n \in Node, ApplyDirective(n) \/ Load(n) \/ RemoveResource(n) \/ Crash(n)
        PROVE  accidents \subseteq accidents'
    BY <2>1 DEF Load, ApplyDirective, LoadLatestSnapshot, FirstLoad, Lock, LockTimesOut,
       SecondLoad, RemoveResource, Crash, Noted
  <2>2. ASSUME NEW n \in Node, NEW m \in Msg,
               CommitImport(n, m) \/ AppendImport(n, m) \/ ImportRoaringShard(n, m)
        PROVE  accidents \subseteq accidents'
    BY <2>2 DEF CommitImport, AppendImport, ImportRoaringShard, AppendMessage, Noted
  <2>3. ASSUME NEW n \in Node, Snapshot(n) PROVE accidents \subseteq accidents'
    BY <2>3 DEF Snapshot, IncrementWLVersion, SnapshotWrite, SnapshotFails, SnapshotEnds
  <2> QED BY <1>1, <2>1, <2>2, <2>3 DEF Next, Import, vars
<1>3. TypeOK
  BY <1>2 DEF CurrentInv
<1>4. PICK g \in Int : Good(g)
  BY <1>2 DEF CurrentInv
<1> DEFINE Kept == TypeOK' /\ \E h \in Int : Good(h)'
<1> SUFFICES Kept
  OBVIOUS
<1>5. CASE UNCHANGED vars
  <2>1. TypeOK'
    BY <1>3, <1>5 DEF TypeOK, vars
  <2>2. Good(g)'
    BY <1>4, <1>5 DEF Good, Greatest, NodeGood, Logging, Holding, Snapping, Loading, Safe, vars
  <2> QED BY <2>1, <2>2
<1>6. ASSUME NEW n \in Node, FirstLoad(n) \/ SecondLoad(n) PROVE Kept
  <2>1. PICK next : /\ \/ pc[n] = "restored" /\ next = "loaded"
                       \/ pc[n] = "locked" /\ next = "ready"
                    /\ LoadWriteLog(n, next)
                    /\ UNCHANGED <<disk, logFiles, inflight, snapping, acked>>
    BY <1>6 DEF FirstLoad, SecondLoad
  <2> QED BY <1>3, <1>4, <2>1, LoadKept
<1>7. ASSUME NEW n \in Node, NEW m \in Msg,
             CommitImport(n, m) \/ AppendImport(n, m) \/ ImportRoaringShard(n, m)
      PROVE  Kept
  BY <1>1, <1>3, <1>4, <1>7, CommitKept, ImportKept
<1>8. ASSUME NEW n \in Node, ApplyDirective(n) \/ LoadLatestSnapshot(n) \/ Lock(n) \/ LockTimesOut(n)
      PROVE  Kept
  BY <1>1, <1>3, <1>4, <1>8, DirectiveKept, RestoreKept, LockKept
<1>9. ASSUME NEW n \in Node, IncrementWLVersion(n) PROVE Kept
  BY <1>3, <1>4, <1>9, IncrementKept
<1>10. ASSUME NEW n \in Node, NEW s \in snapping[n],
              SnapshotWrite(n, s) \/ SnapshotFails(n, s) \/ SnapshotEnds(n, s)
       PROVE  Kept
  BY <1>1, <1>3, <1>4, <1>10, SnapshotWriteKept, SnapshotFailsKept, SnapshotEndsKept
<1>11. ASSUME NEW n \in Node, RemoveResource(n) \/ Crash(n) PROVE Kept
  BY <1>3, <1>4, <1>11, ForgetKept
<1> HIDE DEF Kept
<1> QED BY <1>1, <1>5, <1>6, <1>7, <1>8, <1>9, <1>10, <1>11
     DEF Next, Load, Import, Snapshot

\* What the invariant says of the two properties.
LEMMA CurrentImplies == MaxVersion <= 10 /\ CurrentInv => AckedSurvive /\ OwnerIsCurrent
<1> SUFFICES ASSUME MaxVersion <= 10, CurrentInv, accidents = {}
             PROVE  /\ acked \subseteq Recoverable
                    /\ \A n \in Node : pc[n] = "ready" /\ res[n].locked =>
                           acked \cup inflight[n] \subseteq local[n]
  BY DEF AckedSurvive, OwnerIsCurrent
<1>1. TypeOK
  BY DEF CurrentInv
<1>2. PICK g \in Int : Good(g)
  BY DEF CurrentInv
<1>3. LatestSnapshot = g
  BY <1>1, <1>2, LatestIsGreatest, DaxAssumption DEF Good, TypeOK
<1>4. ASSUME NEW m \in acked PROVE m \in Recoverable
  <2>1. CASE g # -1 /\ m \in snaps[g]
    BY <1>3, <2>1 DEF Recoverable
  <2>2. ASSUME NEW v \in DOMAIN logs, v > g, NEW k \in 1..Len(logs[v]), logs[v][k] = m
        PROVE  m \in Recoverable
    <3>1. m \in ToSet(logs[v])
      BY <1>1, <2>2 DEF ToSet, TypeOK
    <3> QED BY <1>3, <2>2, <3>1 DEF Recoverable
  <2>3. Safe(m, g)
    BY <1>2, <1>4 DEF Good
  <2> QED BY <2>1, <2>2, <2>3 DEF Safe
<1>5. ASSUME NEW n \in Node, pc[n] = "ready" PROVE acked \cup inflight[n] \subseteq local[n]
  BY <1>2, <1>5 DEF Good, NodeGood, Holding
<1> QED BY <1>4, <1>5

\* While versions have one digit, a message whose Append succeeded is in the
\* snapshot or in the logs that a node which loads the resource is given, whatever
\* moves, crashes and failed snapshots came before (Resource.LoadLatestSnapshot,
\* LoadWriteLog, Append, IncrementWLVersion, Snapshot), as long as none of the
\* accidents has happened: an append without the lock, a restore over an import that
\* is not appended yet, a snapshot that begins before the load has ended, overtakes
\* another node's, overlaps another, goes on after removal or is left torn.  With
\* names of two digits List's order breaks it.
THEOREM AckedSurviveHolds == ASSUME MaxVersion <= 10 PROVE Spec => []AckedSurvive
<1>1. CurrentInv /\ [Next]_vars => CurrentInv'
  BY CurrentNext
<1>2. CurrentInv => AckedSurvive
  BY CurrentImplies
<1> QED BY <1>1, <1>2, CurrentInit, PTL DEF Spec

\* Under the same conditions a node that has loaded the log twice, before and
\* after it got the lock (loadShard), has all that any node acknowledged and what it
\* will itself, imports that come while it loads included.
THEOREM OwnerIsCurrentHolds == ASSUME MaxVersion <= 10 PROVE Spec => []OwnerIsCurrent
<1>1. CurrentInv /\ [Next]_vars => CurrentInv'
  BY CurrentNext
<1>2. CurrentInv => OwnerIsCurrent
  BY CurrentImplies
<1> QED BY <1>1, <1>2, CurrentInit, PTL DEF Spec
=============================================================================
