----------------------------- MODULE DaxStorage -----------------------------
(***************************************************************************)
(* A resource of serverless storage (dax/storage), such as the data of a   *)
(* shard: snapshots and write logs in a directory that all compute nodes   *)
(* see, a lock file that says who may write, and on every node a Resource  *)
(* that loads, locks, appends, snapshots and unlocks (api_directive.go and *)
(* api.go call it).                                                        *)
(*                                                                         *)
(* Versions number snapshots and logs alike: snapshot v holds what log v   *)
(* and everything before it hold.  A log is a sequence of messages and a   *)
(* position in it a number of messages; what a node has restored and       *)
(* replayed is a set of messages.                                          *)
(***************************************************************************)
EXTENDS Integers, Sequences, FiniteSets, FiniteSetsExt, SequencesExt

CONSTANTS Node,
          Msg,            \* messages that clients import, each once
          FirstVersion,   \* snapshots 0..FirstVersion-1 exist to begin with
          MaxVersion,     \* bound on versions
          MaxMove,        \* bound on assignments by the controller
          MaxCrash, MaxFault

ASSUME DaxAssumption == FirstVersion \in Nat /\ MaxVersion \in FirstVersion..99

VARIABLES
    snaps,     \* version -> messages in that snapshot file
    logs,      \* version -> write log file
    lockFile,  \* the lock file exists
    pc,        \* how far each node is
    res,       \* the node's Resource
    logFiles,  \* version -> is the node's open file still the one in the directory
    local,     \* messages that the node's own database has
    inflight,  \* messages that are committed there and not appended yet
    snapping,  \* the node's snapshots under way, of this Resource or of a removed one
    acked,     \* messages whose import succeeded
    accidents, \* history: what happened that the code does not cope with
    moves, crashes, faults

vars == <<snaps, logs, lockFile, pc, res, logFiles, local, inflight, snapping, acked,
          accidents, moves, crashes, faults>>
disk == <<snaps, logs, lockFile>>
counters == <<moves, crashes, faults>>

-----------------------------------------------------------------------------
(***************************************************************************)
(* Directories.  os.ReadDir sorts by name, which is the version in decimal *)
(* digits.                                                                 *)
(***************************************************************************)
Digits(v) == IF v < 10 THEN <<v>> ELSE <<v \div 10, v % 10>>

NameBefore(a, b) ==
    LET da == Digits(a) db == Digits(b)
    IN  \/ da[1] < db[1]
        \/ da[1] = db[1] /\ Len(da) < Len(db)
        \/ da[1] = db[1] /\ Len(da) = 2 /\ Len(db) = 2 /\ da[2] < db[2]

\* The last file of the directory that List returns.
LastListed(S) == CHOOSE v \in S : \A w \in S \ {v} : NameBefore(w, v)

\* The snapshot that LoadLatestSnapshot takes; -1 when there is none.
LatestSnapshot == IF DOMAIN snaps = {} THEN -1 ELSE LastListed(DOMAIN snaps)

Put(f, k, v) == [x \in DOMAIN f \cup {k} |-> IF x = k THEN v ELSE f[x]]
Without(f, k) == [x \in DOMAIN f \ {k} |-> f[x]]

-----------------------------------------------------------------------------
initialize == [loadWLsPastVersion |-> -2, latestWLVersion |-> -1, lastWLPos |-> -1,
               locked |-> FALSE, dirty |-> FALSE]

Init ==
    /\ snaps = [v \in 0..(FirstVersion - 1) |-> {}]
    /\ logs = [v \in {} |-> << >>]
    /\ lockFile = FALSE
    /\ pc = [n \in Node |-> "none"]
    /\ res = [n \in Node |-> initialize]
    /\ logFiles = [n \in Node |-> [v \in {} |-> TRUE]]
    /\ local = [n \in Node |-> {}]
    /\ inflight = [n \in Node |-> {}]
    /\ snapping = [n \in Node |-> {}]
    /\ acked = {} /\ accidents = {}
    /\ moves = 0 /\ crashes = 0 /\ faults = 0

Goto(n, where) == pc' = [pc EXCEPT ![n] = where]

\* What goes to accidents when it happens.
Noted(what, happens) == accidents' = accidents \cup (IF happens THEN {what} ELSE {})

\* A snapshot holds the write transaction of the node's database until its file is
\* written and the reader closed; imports, replays and a restore wait for it.
TxHeld(n) == \E s \in snapping[n] : ~s.written

(***************************************************************************)
(* A directive gives the resource to n.  The node that had it may not have *)
(* been told yet.  The directive is cached before anything is loaded, and  *)
(* imports only look at that.                                              *)
(***************************************************************************)
ApplyDirective(n) ==
    /\ pc[n] = "none" /\ moves < MaxMove
    /\ moves' = moves + 1
    /\ Goto(n, "assigned")
    /\ UNCHANGED <<disk, res, logFiles, local, inflight, snapping, acked, accidents,
                   crashes, faults>>

\* loadShard: RestoreShard replaces the database, with all that is in it.
LoadLatestSnapshot(n) ==
    /\ pc[n] = "assigned"
    /\ LatestSnapshot # -1 => ~TxHeld(n)
    /\ res' = [res EXCEPT ![n] = [initialize EXCEPT !.lastWLPos = 0,
                                     !.loadWLsPastVersion = LatestSnapshot]]
    /\ local' = [local EXCEPT ![n] = IF LatestSnapshot = -1 THEN @
                                     ELSE snaps[LatestSnapshot]]
    /\ Noted("restore under import", LatestSnapshot # -1 /\ inflight[n] # {})
    /\ Goto(n, "restored")
    /\ UNCHANGED <<disk, logFiles, inflight, snapping, acked, counters>>

\* Mutant: nothing is read once the node has the lock.
UnreadBeforeLock(n, v) == IF res[n].locked THEN << >> ELSE logs[v]

\* What LogReaderFrom the last position returns; a position of -1 seeks nowhere.
Unread(n, v) ==
    LET pos == IF res[n].lastWLPos > 0 THEN res[n].lastWLPos ELSE 0
    IN  SubSeq(logs[v], pos + 1, Len(logs[v]))

\* LoadWriteLog and the replay of what it returns.
LoadWriteLog(n, next) ==
    LET versions == {v \in DOMAIN logs : v > res[n].loadWLsPastVersion}
        v == CHOOSE x \in versions : TRUE
    IN  IF \/ Cardinality(versions) > 1
           \/ versions # {} /\ res[n].locked /\ res[n].latestWLVersion # v
        THEN Goto(n, "failed") /\ UNCHANGED <<res, local>>
        ELSE /\ Goto(n, next)
             /\ IF versions = {}
                THEN /\ res' = [res EXCEPT ![n].latestWLVersion =
                                               res[n].loadWLsPastVersion + 1]
                     /\ UNCHANGED local
                ELSE /\ Unread(n, v) # << >> => ~TxHeld(n)
                     /\ res' = [res EXCEPT ![n].latestWLVersion = v, ![n].dirty = TRUE,
                                           ![n].lastWLPos = @ + Len(Unread(n, v))]
                     /\ local' = [local EXCEPT ![n] = @ \cup ToSet(Unread(n, v))]

FirstLoad(n) ==
    /\ pc[n] = "restored"
    /\ LoadWriteLog(n, "loaded")
    /\ UNCHANGED <<disk, logFiles, inflight, snapping, acked, accidents, counters>>

Lock(n) ==
    /\ pc[n] = "loaded" /\ ~lockFile              \* O_EXCL
    /\ lockFile' = TRUE
    /\ res' = [res EXCEPT ![n].locked = TRUE]
    /\ Goto(n, "locked")
    /\ UNCHANGED <<snaps, logs, logFiles, local, inflight, snapping, acked, accidents, counters>>

\* Ten seconds have passed and the file is still there.
LockTimesOut(n) ==
    /\ pc[n] = "loaded" /\ lockFile
    /\ Goto(n, "failed")
    /\ UNCHANGED <<disk, res, logFiles, local, inflight, snapping, acked, accidents, counters>>

SecondLoad(n) ==
    /\ pc[n] = "locked"
    /\ LoadWriteLog(n, "ready")
    /\ UNCHANGED <<disk, logFiles, inflight, snapping, acked, accidents, counters>>

(***************************************************************************)
(* Imports.  Import, ImportValue and ImportRoaring commit to the node's    *)
(* database and then append; ImportRoaringShard appends in its transaction *)
(* and commits it only when that succeeded.  None asks whether the         *)
(* resource is loaded or locked.                                           *)
(***************************************************************************)
\* Append, whose message the file that is still open takes even if it has been
\* removed from the directory.
AppendMessage(n, m) ==
    LET v == res[n].latestWLVersion
        inDirectory == IF v \in DOMAIN logFiles[n] THEN logFiles[n][v] ELSE TRUE
    IN  /\ logFiles' = [logFiles EXCEPT ![n] = Put(@, v, inDirectory)]
        /\ logs' = IF ~inDirectory THEN logs
                   ELSE Put(logs, v, Append(IF v \in DOMAIN logs THEN logs[v] ELSE << >>, m))
        /\ res' = [res EXCEPT ![n].dirty = TRUE]
        /\ acked' = acked \cup {m}
        /\ Noted("append without the lock", ~res[n].locked)

\* A client imports m once, and again when it was refused.
Imports(m) == m \notin acked /\ \A n \in Node : m \notin inflight[n]

CommitImport(n, m) ==
    /\ Imports(m)
    /\ pc[n] # "none" /\ ~TxHeld(n)
    /\ local' = [local EXCEPT ![n] = @ \cup {m}]
    /\ inflight' = [inflight EXCEPT ![n] = @ \cup {m}]
    /\ UNCHANGED <<disk, pc, res, logFiles, snapping, acked, accidents, counters>>

\* It may have lost the resource since; then the import fails and stays committed.
AppendImport(n, m) ==
    /\ m \in inflight[n]
    /\ inflight' = [inflight EXCEPT ![n] = @ \ {m}]
    /\ IF res[n].latestWLVersion < 0
       THEN UNCHANGED <<logs, logFiles, res, acked, accidents>>
       ELSE AppendMessage(n, m)
    /\ UNCHANGED <<snaps, lockFile, pc, local, snapping, counters>>

ImportRoaringShard(n, m) ==
    /\ Imports(m)
    /\ res[n].latestWLVersion >= 0 /\ ~TxHeld(n)
    /\ AppendMessage(n, m)
    /\ local' = [local EXCEPT ![n] = @ \cup {m}]
    /\ UNCHANGED <<snaps, lockFile, pc, inflight, snapping, counters>>

(***************************************************************************)
(* SnapshotShardData: the controller asks for it now and then, and does    *)
(* not wait for directives to be applied.  What a snapshot will hold is    *)
(* fixed when the version of the log is raised.                            *)
(***************************************************************************)
IncrementWLVersion(n) ==
    /\ res[n].dirty /\ res[n].latestWLVersion < MaxVersion
    /\ ~TxHeld(n)
    /\ res' = [res EXCEPT ![n].latestWLVersion = @ + 1, ![n].lastWLPos = -1,
                          ![n].loadWLsPastVersion = -1, ![n].dirty = FALSE]
    /\ snapping' = [snapping EXCEPT ![n] = @ \cup
           {[version |-> res[n].latestWLVersion, data |-> local[n],
             written |-> FALSE, current |-> TRUE]}]
    /\ accidents' = accidents
           \cup (IF pc[n] # "ready" THEN {"snapshot before loaded"} ELSE {})
           \cup (IF \E s \in snapping[n] : s.current THEN {"snapshots overlap"} ELSE {})
    /\ UNCHANGED <<disk, pc, logFiles, local, inflight, acked, counters>>

\* Another node has begun to load what this snapshot replaces.
Overtakes(n) == \E k \in Node \ {n} : pc[k] \in {"restored", "loaded"}

SnapshotWrite(n, s) ==
    /\ s \in snapping[n] /\ ~s.written
    /\ snaps' = Put(snaps, s.version, s.data)
    /\ snapping' = [snapping EXCEPT ![n] = (@ \ {s}) \cup {[s EXCEPT !.written = TRUE]}]
    /\ accidents' = accidents
           \cup (IF Overtakes(n) THEN {"snapshot overtakes load"} ELSE {})
           \cup (IF ~s.current THEN {"snapshot after removal"} ELSE {})
    /\ UNCHANGED <<logs, lockFile, pc, res, logFiles, local, inflight, acked, counters>>

\* Writing fails, before there is a file or with a part of it written.
SnapshotFails(n, s) ==
    /\ s \in snapping[n] /\ ~s.written /\ faults < MaxFault
    /\ faults' = faults + 1
    /\ \/ UNCHANGED <<snaps, accidents>>
       \/ /\ snaps' = Put(snaps, s.version, {})
          /\ accidents' = accidents \cup {"torn snapshot"}
    /\ snapping' = [snapping EXCEPT ![n] = @ \ {s}]
    /\ UNCHANGED <<logs, lockFile, pc, res, logFiles, local, inflight, acked, moves, crashes>>

\* Mutant: the log that is being written is the one that goes.
DeletedCurrent(n, s) == res[n].latestWLVersion

\* Snapshot reads latestWLVersion again; a Resource that was removed keeps its own.
DeletedVersion(n, s) == IF s.current THEN res[n].latestWLVersion - 1 ELSE s.version

\* DeleteLog removes a log that this node has open; it leaves any other alone.
DeleteLog(n, v) ==
    IF v \notin DOMAIN logFiles[n] THEN UNCHANGED <<logs, logFiles>>
    ELSE /\ logs' = Without(logs, v)
         /\ logFiles' = [k \in Node |->
                IF k = n THEN Without(logFiles[k], v)
                ELSE [w \in DOMAIN logFiles[k] |-> w # v /\ logFiles[k][w]]]

SnapshotEnds(n, s) ==
    /\ s \in snapping[n] /\ s.written
    /\ DeleteLog(n, DeletedVersion(n, s))
    /\ snapping' = [snapping EXCEPT ![n] = @ \ {s}]
    /\ UNCHANGED <<snaps, lockFile, pc, res, local, inflight, acked, accidents, counters>>

(***************************************************************************)
(* RemoveShardResource: Unlock, and the Resource is forgotten.  Directives *)
(* are applied one at a time, so a load has ended when it comes.           *)
(***************************************************************************)
CloseLogs(n) == logFiles' = [logFiles EXCEPT ![n] = [v \in {} |-> TRUE]]

Forget(n) ==
    /\ res' = [res EXCEPT ![n] = initialize]
    /\ Goto(n, "none")

\* Mutant: the lock file goes though the node had no lock.
UnlockAnyway(n) == lockFile' = FALSE

Unlock(n) == lockFile' = (lockFile /\ ~res[n].locked)

\* Imports and snapshots that are under way go on.  The writelogger closes its
\* files only when it unlocks.
RemoveResource(n) ==
    /\ pc[n] \in {"ready", "failed"}
    /\ Unlock(n)
    /\ IF res[n].locked THEN CloseLogs(n) ELSE UNCHANGED logFiles
    /\ snapping' = [snapping EXCEPT ![n] = {[s EXCEPT !.current = FALSE] : s \in @}]
    /\ Forget(n)
    /\ UNCHANGED <<snaps, logs, local, inflight, acked, accidents, counters>>

\* The process is killed: the lock file stays, the database on its disk too.
Crash(n) ==
    /\ pc[n] # "none" /\ crashes < MaxCrash
    /\ crashes' = crashes + 1
    /\ CloseLogs(n)
    /\ Forget(n)
    /\ inflight' = [inflight EXCEPT ![n] = {}]
    /\ snapping' = [snapping EXCEPT ![n] = {}]
    /\ UNCHANGED <<disk, local, acked, accidents, moves, faults>>

-----------------------------------------------------------------------------
Load(n) == LoadLatestSnapshot(n) \/ FirstLoad(n) \/ Lock(n) \/ LockTimesOut(n) \/ SecondLoad(n)

Import(n) == \E m \in Msg : CommitImport(n, m) \/ AppendImport(n, m) \/ ImportRoaringShard(n, m)

Snapshot(n) ==
    \/ IncrementWLVersion(n)
    \/ \E s \in snapping[n] : SnapshotWrite(n, s) \/ SnapshotFails(n, s) \/ SnapshotEnds(n, s)

Next ==
    \E n \in Node :
        ApplyDirective(n) \/ Load(n) \/ Import(n) \/ Snapshot(n) \/ RemoveResource(n) \/ Crash(n)

Spec == Init /\ [][Next]_vars

-----------------------------------------------------------------------------

\* What a node would have that loads the resource now, were every log that is
\* past the latest snapshot replayed.
Recoverable ==
    (IF LatestSnapshot = -1 THEN {} ELSE snaps[LatestSnapshot])
    \cup UNION {ToSet(logs[v]) : v \in {w \in DOMAIN logs : w > LatestSnapshot}}

\* An import that was acknowledged is in the latest snapshot or in a log past it,
\* whoever crashes, fails to write a snapshot or takes the resource over; unless a
\* node appended without the lock (Append says that it does not), restored a snapshot
\* over an import that was not appended yet, began a snapshot before it had loaded,
\* wrote one while another node loaded or after it lost the resource, had two of them
\* overlap, or left a part of one.
AckedSurvive == accidents = {} => acked \subseteq Recoverable

\* A node that has loaded and locked the resource has every message that was
\* acknowledged by anybody, and those that it is about to acknowledge: the second
\* load finds what the lock's last owner wrote between the first load and the lock.
\* The accidents are excepted here too.
OwnerIsCurrent ==
    accidents = {} => \A n \in Node :
        pc[n] = "ready" /\ res[n].locked => acked \cup inflight[n] \subseteq local[n]

\* Two nodes never believe that they have the lock.
OneOwner == \A n, k \in Node : res[n].locked /\ res[k].locked => n = k

=============================================================================
