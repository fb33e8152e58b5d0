-------------------------------- MODULE RbfDB --------------------------------
(***************************************************************************)
(* One RBF database (rbf/db.go, rbf/tx.go): a data file, a write-ahead log *)
(* and the transactions on them.                                           *)
(*                                                                         *)
(* One writer at a time (db.rwmu) and any number of readers.  A commit     *)
(* appends its dirty pages and a meta page to the WAL; db.pageMap says     *)
(* which pages are to be read from the WAL instead of the data file.  A    *)
(* checkpoint, which keeps the writer lock, copies the WAL into the data   *)
(* file while readers go on, and waits twice: for the readers that are     *)
(* older than the last commit before it overwrites data pages, and for the *)
(* readers that still use the WAL before it truncates it.                  *)
(*                                                                         *)
(* A page's content is the number of the commit attempt that wrote it; a   *)
(* meta page also carries the WAL ID and the page count.  What bitmap      *)
(* operations do inside a transaction is: any set of pages becomes dirty,  *)
(* the file grows, and at commit free pages at its end are cut off.        *)
(***************************************************************************)
EXTENDS Integers, Sequences, FiniteSets

CONSTANTS
    TX,          \* transaction handles
    MaxPageN,    \* bound: pages of the data file
    BitmapPage,  \* the pages that hold raw bitmaps: two pages each in the WAL
    MinWALCheckpointSize, MaxWALCheckpointSize, MaxWALSize,  \* in pages
    MaxCommit,   \* bound: commit attempts, the initial database included
    MaxCrash,    \* bound: crashes
    Fault,       \* which I/O errors may happen: "checkpoint", "flush", "truncate"
    MaxFault     \* bound: I/O errors

\* The sizes in an rbf/cfg.Config: a checkpoint is forced no earlier than it is
\* allowed, and well before the WAL fills its mmap.
ASSUME SizeAssumption ==
    /\ MinWALCheckpointSize \in Nat
    /\ MaxWALCheckpointSize \in Nat
    /\ MaxWALSize \in Nat
    /\ MinWALCheckpointSize <= MaxWALCheckpointSize
    /\ MaxWALCheckpointSize <= MaxWALSize

ASSUME BoundAssumption ==
    /\ MaxPageN \in Nat /\ MaxPageN >= 3
    /\ BitmapPage \subseteq 3..(MaxPageN - 1)
    /\ MaxCommit \in Nat /\ MaxCrash \in Nat /\ MaxFault \in Nat

\* Holders of the writer lock that are no transaction.
CONSTANTS Free, Checkpointer

CONSTANT NoView  \* no view of the database

ASSUME HolderAssumption == Free \notin TX /\ Checkpointer \notin TX /\ Free # Checkpointer

VARIABLES
    \* The files: as the operating system shows them, and as they were when
    \* last synced.
    data, dataSync,   \* data file: page -> content
    wal, walSync,     \* WAL file: sequence of WAL pages
    \* The DB struct.
    status,           \* "down", "opening", "open" (db.opened) or "closing"
    isDead,           \* db.isDead is set
    pageMap,          \* page -> WAL ID, 0 when not mapped
    walPageN,
    baseWALID,
    rootRecords,      \* content of the root record page it was read from, 0 = nil
    rwmu,             \* who holds db.rwmu
    tx,               \* the transactions
    ckpt,             \* the checkpoint that holds rwmu
    closeWait,        \* transactions Close still waits for
    \* History.
    hist,             \* the view of every commit attempt
    committed,        \* the attempt whose view is current
    crashes, faults

diskVars == <<data, dataSync, wal, walSync>>
dbVars == <<status, isDead, pageMap, walPageN, baseWALID, rootRecords, rwmu>>
histVars == <<hist, committed>>
boundVars == <<crashes, faults>>
vars == <<data, dataSync, wal, walSync, status, isDead, pageMap, walPageN,
          baseWALID, rootRecords, rwmu, tx, ckpt, closeWait, hist, committed,
          crashes, faults>>

-----------------------------------------------------------------------------
Page == 0..(MaxPageN - 1)
Meta == 0
RootRecordPage == 1
FreelistPage == 2

Content == [ver : Nat, walID : Nat, pageN : Nat]

ASSUME NoViewAssumption == NoView \notin [Page -> Content]

\* A page past the end of the data file.
NoPage == [ver |-> 0, walID |-> 0, pageN |-> 0]

\* What attempt v writes on a page that is not the meta page.
Written(v) == [ver |-> v, walID |-> 0, pageN |-> 0]

\* A page of the WAL file: a database page, the header before a bitmap page, or
\* a page of zeros.
ZeroPage == [kind |-> "zero", pgno |-> 0, c |-> NoPage]

IsMetaPage(w) == w.kind = "page" /\ w.pgno = Meta

NoTx == [st |-> "none", writable |-> FALSE, pageMap |-> [p \in Page |-> 0],
         walPageN |-> 0, meta |-> NoPage, dirty |-> {}, rootRecords |-> 0, ver |-> 0]

NoCkpt == [phase |-> "none", waitingOn |-> {}, pages |-> [p \in Page |-> 0], pageN |-> 0,
           offset |-> 0]

TxState == {"none", "want", "locked", "open", "failed", "aborted",
            "flushed", "synced", "published"}
CkptPhase == {"none", "wait", "copy", "synced", "drain", "truncate", "sync", "shrink"}

-----------------------------------------------------------------------------
\* db.txs: the transactions that Begin returned and that were not removed.
txs == {t \in TX : tx[t].st \in {"open", "failed", "aborted", "flushed", "synced", "published"}}

opened == status \in {"opening", "open"}

\* readWALPageByID: WAL IDs count on from that of the checkpointed meta page.
readWALPageByID(id) == wal[id - baseWALID].c
InWAL(id) == id - baseWALID \in 1..Len(wal)

\* Reading page p through a page map: from the WAL if mapped, else the data file.
ReadMapped(pm, p) == IF pm[p] # 0 THEN readWALPageByID(pm[p]) ELSE data[p]
Readable(pm, p) == pm[p] # 0 => InWAL(pm[p])

readMetaPage == ReadMapped(pageMap, Meta)

\* Tx.readPage, for a page that is not dirty.
readPage(t, p) == IF p = Meta THEN tx[t].meta ELSE ReadMapped(tx[t].pageMap, p)

\* Pages of the WAL that a set of dirty pages takes.
WALPagesOf(d) == Cardinality(d \ BitmapPage) + 2 * Cardinality(d \cap BitmapPage)

\* Mutant: no room is left for the meta page.
TxJustTooLarge(t, d) == tx[t].walPageN + WALPagesOf(d) > MaxWALSize

\* checkTxSize returns ErrTxTooLarge.
TxTooLarge(t, d) == tx[t].walPageN + WALPagesOf(d) >= MaxWALSize

CanFail(kind) == kind \in Fault /\ faults < MaxFault

-----------------------------------------------------------------------------
InitView == [p \in Page |->
               IF p = Meta THEN [ver |-> 1, walID |-> 0, pageN |-> 3]
               ELSE IF p < 3 THEN Written(1) ELSE NoPage]

\* A database that was just initialised and synced, with an empty WAL.
Init ==
    /\ data = InitView /\ dataSync = InitView
    /\ wal = <<>> /\ walSync = <<>>
    /\ status = "down" /\ isDead = FALSE
    /\ pageMap = [p \in Page |-> 0]
    /\ walPageN = 0 /\ baseWALID = 0 /\ rootRecords = 0
    /\ rwmu = Free
    /\ tx = [t \in TX |-> NoTx]
    /\ ckpt = NoCkpt
    /\ closeWait = {}
    /\ hist = <<InitView>>
    /\ committed = 1
    /\ crashes = 0 /\ faults = 0

-----------------------------------------------------------------------------
(* Transactions *)

\* The transaction Begin makes: a copy of the page map, the meta page and the
\* root records of this moment.  Root records that nobody has cached are read.
NewTx(writable) ==
    LET roots == IF rootRecords # 0 THEN rootRecords
                 ELSE ReadMapped(pageMap, RootRecordPage).ver
    IN  [st |-> "open", writable |-> writable, pageMap |-> pageMap,
         walPageN |-> walPageN, meta |-> readMetaPage, dirty |-> {},
         rootRecords |-> roots, ver |-> committed]

\* Mutant: a reader may begin while the database is being closed.
BeginReadUnchecked(t) ==
    /\ tx[t].st = "none"
    /\ status \in {"open", "closing"} /\ ~isDead
    /\ tx' = [tx EXCEPT ![t] = NewTx(FALSE)]
    /\ rootRecords' = tx'[t].rootRecords
    /\ UNCHANGED <<diskVars, status, isDead, pageMap, walPageN, baseWALID, rwmu,
                   ckpt, closeWait, histVars, boundVars>>

\* Begin(false) needs db.mu only.
BeginRead(t) ==
    /\ tx[t].st = "none"
    /\ status = "open" /\ ~isDead
    /\ tx' = [tx EXCEPT ![t] = NewTx(FALSE)]
    /\ rootRecords' = tx'[t].rootRecords
    /\ UNCHANGED <<diskVars, status, isDead, pageMap, walPageN, baseWALID, rwmu,
                   ckpt, closeWait, histVars, boundVars>>

\* Begin(true) is called ...
BeginWrite(t) ==
    /\ tx[t].st = "none"
    /\ status = "open"
    /\ tx' = [tx EXCEPT ![t].st = "want", ![t].writable = TRUE]
    /\ UNCHANGED <<diskVars, dbVars, ckpt, closeWait, histVars, boundVars>>

\* ... gets db.rwmu ...
LockWriter(t) ==
    /\ tx[t].st = "want"
    /\ rwmu = Free
    /\ rwmu' = t
    /\ tx' = [tx EXCEPT ![t].st = "locked"]
    /\ UNCHANGED <<diskVars, status, isDead, pageMap, walPageN, baseWALID,
                   rootRecords, ckpt, closeWait, histVars, boundVars>>

\* ... then db.mu, and returns an error when the database is closed or dead ...
BeginFails(t) ==
    /\ tx[t].st = "locked"
    /\ ~opened \/ isDead
    /\ rwmu' = Free
    /\ tx' = [tx EXCEPT ![t] = NoTx]
    /\ UNCHANGED <<diskVars, status, isDead, pageMap, walPageN, baseWALID,
                   rootRecords, ckpt, closeWait, histVars, boundVars>>

\* ... or, once the WAL is below its threshold (it waits on haltCond while it is
\* not, and keeps rwmu meanwhile), a transaction.
EnterWriter(t) ==
    /\ tx[t].st = "locked"
    /\ opened /\ ~isDead
    /\ walPageN <= MaxWALCheckpointSize
    /\ tx' = [tx EXCEPT ![t] = NewTx(TRUE)]
    /\ rootRecords' = tx'[t].rootRecords
    /\ UNCHANGED <<diskVars, status, isDead, pageMap, walPageN, baseWALID, rwmu,
                   ckpt, closeWait, histVars, boundVars>>

\* writePage and writeBitmapPage make page p dirty; the file has pageN pages now.
\* A transaction that was told ErrTxTooLarge is rolled back by its owner.
Dirty(t, p, pageN) ==
    /\ tx[t].st = "open" /\ tx[t].writable
    /\ p \notin tx[t].dirty
    /\ LET d == tx[t].dirty \cup {p} IN
       tx' = [tx EXCEPT ![t].dirty = d,
                        ![t].meta.pageN = pageN,
                        ![t].rootRecords =
                            IF p = RootRecordPage THEN Len(hist) + 1 ELSE @,
                        ![t].st = IF TxTooLarge(t, d) THEN "failed" ELSE "open"]
    /\ UNCHANGED <<diskVars, dbVars, ckpt, closeWait, histVars, boundVars>>

Write(t, p) == p < tx[t].meta.pageN /\ Dirty(t, p, tx[t].meta.pageN)

\* allocateNewPgno: a page past the end of the file.
Allocate(t) == tx[t].meta.pageN < MaxPageN /\ Dirty(t, tx[t].meta.pageN, tx[t].meta.pageN + 1)

\* The i-th page of a set, in page order.
Nth(S, i) == CHOOSE p \in S : Cardinality({q \in S : q < p}) = i - 1

\* What flush appends for the dirty pages d of attempt v: other pages first,
\* then bitmap pages with their headers, each group in page order.
DirtyPages(d, v) ==
    LET plainN == Cardinality(d \ BitmapPage)
        plain(i) == Nth(d \ BitmapPage, i)
        bitmap(i) == Nth(d \cap BitmapPage, i)
    IN  [i \in 1..WALPagesOf(d) |->
            IF i <= plainN
            THEN [kind |-> "page", pgno |-> plain(i), c |-> Written(v)]
            ELSE IF (i - plainN) % 2 = 1
            THEN [kind |-> "hdr", pgno |-> bitmap((i - plainN + 1) \div 2), c |-> NoPage]
            ELSE [kind |-> "page", pgno |-> bitmap((i - plainN) \div 2), c |-> Written(v)]]

\* writeToWAL numbers the pages it appends from the WAL ID of the meta page.
MapPages(pm, walID, pages) ==
    [p \in Page |->
        IF \E i \in 1..Len(pages) : pages[i].kind = "page" /\ pages[i].pgno = p
        THEN walID + CHOOSE i \in 1..Len(pages) :
                         pages[i].kind = "page" /\ pages[i].pgno = p
        ELSE pm[p]]

\* Commit, first half: truncateFreelist cuts free pages off the end of the file
\* (pageN remain, which changes the free list), then flush appends the dirty
\* pages and the meta page.  With a flush error only some of them get there.
Flush(t) ==
    /\ tx[t].st = "open" /\ tx[t].writable
    /\ Len(hist) < MaxCommit
    /\ \E pageN \in 3..tx[t].meta.pageN :
         LET v == Len(hist) + 1
             d == {p \in tx[t].dirty : p < pageN}
                  \cup (IF pageN < tx[t].meta.pageN THEN {FreelistPage} ELSE {})
             meta == [ver |-> v, walID |-> tx[t].meta.walID + WALPagesOf(d) + 1,
                      pageN |-> pageN]
             pages == Append(DirtyPages(d, v), [kind |-> "page", pgno |-> Meta, c |-> meta])
             view == [p \in Page |->
                        IF p = Meta THEN meta
                        ELSE IF p >= pageN THEN NoPage
                        ELSE IF p \in d THEN Written(v)
                        ELSE hist[tx[t].ver][p]]
         IN
         /\ d # {}
         /\ ~TxTooLarge(t, d)
         /\ hist' = Append(hist, view)
         /\ \/ /\ wal' = wal \o pages
               /\ tx' = [tx EXCEPT ![t].st = "flushed", ![t].dirty = d, ![t].meta = meta,
                            ![t].walPageN = @ + WALPagesOf(d) + 1,
                            ![t].pageMap = MapPages(@, tx[t].meta.walID, pages)]
               /\ UNCHANGED faults
            \/ /\ CanFail("flush")
               /\ faults' = faults + 1
               /\ \E n \in 0..(Len(pages) - 1) : wal' = wal \o SubSeq(pages, 1, n)
               /\ tx' = [tx EXCEPT ![t].st = "aborted"]
    /\ UNCHANGED <<data, dataSync, walSync, dbVars, ckpt, closeWait, committed, crashes>>

\* Mutant: the commit goes on without the fsync.
FlushUnsynced(t) ==
    /\ tx[t].st = "flushed"
    /\ tx' = [tx EXCEPT ![t].st = "synced"]
    /\ UNCHANGED <<diskVars, dbVars, ckpt, closeWait, histVars, boundVars>>

\* The fsync at the end of flush.
FlushSync(t) ==
    /\ tx[t].st = "flushed"
    /\ \/ /\ walSync' = wal
          /\ tx' = [tx EXCEPT ![t].st = "synced"]
          /\ UNCHANGED faults
       \/ /\ CanFail("flush")
          /\ faults' = faults + 1
          /\ tx' = [tx EXCEPT ![t].st = "aborted"]
          /\ UNCHANGED walSync
    /\ UNCHANGED <<data, dataSync, wal, dbVars, ckpt, closeWait, histVars, crashes>>

\* Mutant: the cached root records are not replaced.
PublishKeepsRoots(t) ==
    /\ tx[t].st = "synced"
    /\ pageMap' = tx[t].pageMap
    /\ walPageN' = tx[t].walPageN
    /\ committed' = tx[t].meta.ver
    /\ tx' = [tx EXCEPT ![t].st = "published"]
    /\ UNCHANGED <<diskVars, status, isDead, baseWALID, rootRecords, rwmu, ckpt,
                   closeWait, hist, boundVars>>

\* Commit, second half, under db.mu: the new view becomes the current one.
Publish(t) ==
    /\ tx[t].st = "synced"
    /\ rootRecords' = tx[t].rootRecords
    /\ pageMap' = tx[t].pageMap
    /\ walPageN' = tx[t].walPageN
    /\ committed' = tx[t].meta.ver
    /\ tx' = [tx EXCEPT ![t].st = "published"]
    /\ UNCHANGED <<diskVars, status, isDead, baseWALID, rwmu, ckpt, closeWait,
                   hist, boundVars>>

\* Mutant: a checkpoint only when nothing else is open, however long the WAL.
NeedsCheckpointAlone(t) ==
    /\ tx[t].writable
    /\ walPageN > MinWALCheckpointSize
    /\ txs = {t}

\* removeTx decides on a checkpoint, which keeps the writer lock.
NeedsCheckpoint(t) ==
    /\ tx[t].writable
    /\ walPageN > MinWALCheckpointSize
    /\ txs = {t} \/ walPageN > MaxWALCheckpointSize

\* Mutant: a reader's end releases the writer lock too.
RemoveTxUnlocks(t) ==
    /\ tx[t].st \in {"open", "failed", "aborted", "published"}
    /\ tx' = [tx EXCEPT ![t] = NoTx]
    /\ closeWait' = closeWait \ {t}
    /\ rwmu' = Free
    /\ ckpt' = [ckpt EXCEPT !.waitingOn = @ \ {t}]
    /\ UNCHANGED <<diskVars, status, isDead, pageMap, walPageN, baseWALID,
                   rootRecords, histVars, boundVars>>

\* removeTx, at the end of Commit and Rollback: whoever waits for this
\* transaction waits no more.
RemoveTx(t) ==
    /\ tx[t].st \in {"open", "failed", "aborted", "published"}
    /\ tx' = [tx EXCEPT ![t] = NoTx]
    /\ closeWait' = closeWait \ {t}
    /\ IF NeedsCheckpoint(t)
       THEN /\ rwmu' = Checkpointer
            /\ ckpt' = [NoCkpt EXCEPT !.phase = "wait", !.waitingOn = txs \ {t}]
       ELSE /\ rwmu' = IF tx[t].writable THEN Free ELSE rwmu
            /\ ckpt' = [ckpt EXCEPT !.waitingOn = @ \ {t}]
    /\ UNCHANGED <<diskVars, status, isDead, pageMap, walPageN, baseWALID,
                   rootRecords, histVars, boundVars>>

-----------------------------------------------------------------------------
(* Checkpoint *)

\* The last of the first n WAL pages for p, which is where a checkpoint at startup, with no page
\* map yet, finds it.
ScanWAL(n, p) ==
    LET I == {i \in 1..n : wal[i].kind = "page" /\ wal[i].pgno = p}
    IN  IF I = {} THEN 0 ELSE CHOOSE i \in I : \A j \in I : i >= j

\* Open returns when its checkpoint is done.
Opened == status' = IF status = "opening" THEN "open" ELSE status

\* Mutant: the early return forgets the writer lock.
CheckpointSkipsLocked ==
    /\ ckpt.phase = "wait" /\ ckpt.waitingOn = {}
    /\ ~opened \/ walPageN = 0
    /\ ckpt' = NoCkpt
    /\ Opened
    /\ UNCHANGED <<diskVars, isDead, pageMap, walPageN, baseWALID, rootRecords, rwmu,
                   tx, closeWait, histVars, boundVars>>

\* afterCurrentTx runs checkpoint; it has nothing to do on a closed database or
\* an empty WAL.
CheckpointSkips ==
    /\ ckpt.phase = "wait" /\ ckpt.waitingOn = {}
    /\ ~opened \/ walPageN = 0
    /\ ckpt' = NoCkpt
    /\ rwmu' = Free
    /\ Opened
    /\ UNCHANGED <<diskVars, isDead, pageMap, walPageN, baseWALID, rootRecords,
                   tx, closeWait, histVars, boundVars>>

\* It lists where the pages are in the WAL, and gives up db.mu.
CheckpointStart ==
    /\ ckpt.phase = "wait" /\ ckpt.waitingOn = {}
    /\ opened /\ walPageN > 0
    /\ ckpt' = [ckpt EXCEPT !.phase = "copy",
                  !.pages = [p \in Page |->
                               IF \A q \in Page : pageMap[q] = 0 THEN ScanWAL(walPageN, p)
                               ELSE IF pageMap[p] = 0 THEN 0
                               ELSE pageMap[p] - baseWALID]]
    /\ UNCHANGED <<diskVars, dbVars, tx, closeWait, histVars, boundVars>>

CheckpointCopy(p) ==
    /\ ckpt.phase = "copy"
    /\ ckpt.pages[p] # 0
    /\ LET c == wal[ckpt.pages[p]].c IN
       /\ data' = [data EXCEPT ![p] = c]
       /\ ckpt' = [ckpt EXCEPT !.pages[p] = 0,
                               !.pageN = IF p = Meta THEN c.pageN ELSE @]
    /\ UNCHANGED <<dataSync, wal, walSync, dbVars, tx, closeWait, histVars, boundVars>>

CheckpointSync ==
    /\ ckpt.phase = "copy"
    /\ \A p \in Page : ckpt.pages[p] = 0
    /\ dataSync' = data
    /\ ckpt' = [ckpt EXCEPT !.phase = "synced"]
    /\ UNCHANGED <<data, wal, walSync, dbVars, tx, closeWait, histVars, boundVars>>

\* Mutant: after an I/O error the database lives on.
CheckpointFailsAlive ==
    /\ ckpt.phase = "copy" /\ status # "opening"
    /\ CanFail("checkpoint")
    /\ faults' = faults + 1
    /\ ckpt' = NoCkpt
    /\ rwmu' = Free
    /\ UNCHANGED <<diskVars, status, isDead, pageMap, walPageN, baseWALID, rootRecords,
                   tx, closeWait, histVars, crashes>>

\* Writing or syncing the data file fails: the database is dead.
CheckpointFails ==
    /\ ckpt.phase = "copy" /\ status # "opening"
    /\ CanFail("checkpoint")
    /\ faults' = faults + 1
    /\ isDead' = TRUE
    /\ ckpt' = NoCkpt
    /\ rwmu' = Free
    /\ UNCHANGED <<diskVars, status, pageMap, walPageN, baseWALID, rootRecords, tx,
                   closeWait, histVars, crashes>>

\* Mutants: the WAL goes without waiting for its readers, or the page map stays.
CheckpointResetNoWait ==
    /\ ckpt.phase = "synced"
    /\ walPageN' = 0
    /\ pageMap' = [p \in Page |-> 0]
    /\ ckpt' = [ckpt EXCEPT !.phase = "drain"]
    /\ UNCHANGED <<diskVars, status, isDead, baseWALID, rootRecords, rwmu, tx,
                   closeWait, histVars, boundVars>>

\* With db.mu again: from now on transactions read the data file only.
CheckpointReset ==
    /\ ckpt.phase = "synced"
    /\ walPageN' = 0
    /\ pageMap' = [p \in Page |-> 0]
    /\ ckpt' = [ckpt EXCEPT !.phase = "drain", !.waitingOn = txs]
    /\ UNCHANGED <<diskVars, status, isDead, baseWALID, rootRecords, rwmu, tx,
                   closeWait, histVars, boundVars>>

\* The transactions that use the WAL have ended.
CheckpointRebase ==
    /\ ckpt.phase = "drain" /\ ckpt.waitingOn = {}
    /\ baseWALID' = data[Meta].walID
    /\ ckpt' = [ckpt EXCEPT !.phase = "truncate"]
    /\ UNCHANGED <<diskVars, status, isDead, pageMap, walPageN, rootRecords, rwmu,
                   tx, closeWait, histVars, boundVars>>

\* Errors from here on are logged, and no more.  When the WAL is not truncated,
\* or is but its sync fails, the file offset is not set back either: the next
\* commit goes after the old pages, or after a hole of zeros in their place.
TruncateWAL ==
    /\ ckpt.phase = "truncate"
    /\ \/ /\ wal' = <<>>
          /\ ckpt' = [ckpt EXCEPT !.phase = "sync", !.offset = Len(wal)]
          /\ UNCHANGED faults
       \/ /\ CanFail("truncate")
          /\ faults' = faults + 1
          /\ ckpt' = [ckpt EXCEPT !.phase = "shrink"]
          /\ UNCHANGED wal
    /\ UNCHANGED <<data, dataSync, walSync, dbVars, tx, closeWait, histVars, crashes>>

SyncWAL ==
    /\ ckpt.phase = "sync"
    /\ ckpt' = [ckpt EXCEPT !.phase = "shrink"]
    /\ \/ /\ walSync' = wal
          /\ UNCHANGED <<wal, faults>>
       \/ /\ CanFail("truncate")
          /\ faults' = faults + 1
          /\ wal' = [i \in 1..ckpt.offset |-> ZeroPage]
          /\ UNCHANGED walSync
    /\ UNCHANGED <<data, dataSync, dbVars, tx, closeWait, histVars, crashes>>

\* The data file is cut to the page count of the meta page, and the writer lock
\* is released.
ShrinkData ==
    /\ ckpt.phase = "shrink"
    /\ \/ /\ data' = [p \in Page |-> IF ckpt.pageN > 0 /\ p >= ckpt.pageN
                                     THEN NoPage ELSE data[p]]
          /\ UNCHANGED faults
       \/ /\ CanFail("truncate")
          /\ faults' = faults + 1
          /\ UNCHANGED data
    /\ ckpt' = NoCkpt
    /\ rwmu' = Free
    /\ Opened
    /\ UNCHANGED <<dataSync, wal, walSync, isDead, pageMap, walPageN, baseWALID,
                   rootRecords, tx, closeWait, histVars, crashes>>

-----------------------------------------------------------------------------
(* Open, Close and crashes *)

\* NewDB: the fields of a DB that is opened next.
NewDB ==
    /\ isDead' = FALSE
    /\ pageMap' = [p \in Page |-> 0]
    /\ walPageN' = 0 /\ baseWALID' = 0 /\ rootRecords' = 0
    /\ rwmu' = Free
    /\ tx' = [t \in TX |-> NoTx]
    /\ ckpt' = NoCkpt
    /\ closeWait' = {}

\* The number of WAL pages up to the last meta page (openWAL reads backwards).
LastMeta(w) ==
    LET I == {i \in 1..Len(w) : IsMetaPage(w[i])}
    IN  IF I = {} THEN 0 ELSE CHOOSE i \in I : \A j \in I : i >= j

\* Open of a new DB: the WAL is cut after its last meta page, and checkpointed.
Open ==
    /\ status = "down"
    /\ LET n == LastMeta(wal) IN
       /\ wal' = SubSeq(wal, 1, n)
       /\ walPageN' = n
       /\ committed' = IF n > 0 THEN wal[n].c.ver ELSE data[Meta].ver
    /\ baseWALID' = data[Meta].walID
    /\ status' = "opening"
    /\ rwmu' = Checkpointer
    /\ ckpt' = [NoCkpt EXCEPT !.phase = "wait"]
    /\ UNCHANGED <<data, dataSync, walSync, isDead, pageMap, rootRecords, tx,
                   closeWait, hist, boundVars>>

Close ==
    /\ status = "open"
    /\ status' = "closing"
    /\ closeWait' = txs
    /\ UNCHANGED <<diskVars, isDead, pageMap, walPageN, baseWALID, rootRecords,
                   rwmu, tx, ckpt, histVars, boundVars>>

\* Close has drained the transactions and has both locks: it syncs and unmaps.
\* A Begin that still waits for the writer lock will return ErrClosed.
CloseFiles ==
    /\ status = "closing" /\ closeWait = {} /\ rwmu = Free
    /\ status' = "down"
    /\ dataSync' = data
    /\ NewDB
    /\ UNCHANGED <<data, wal, walSync, histVars, boundVars>>

\* The checkpoint of Open fails, and Open with it.
OpenFails ==
    /\ ckpt.phase = "copy" /\ status = "opening"
    /\ CanFail("checkpoint")
    /\ faults' = faults + 1
    /\ status' = "down"
    /\ NewDB
    /\ UNCHANGED <<diskVars, histVars, crashes>>

\* What is left of the WAL file: what was synced, or more of what was written.
CrashedWALs ==
    LET common == {n \in 0..Len(wal) :
                     n <= Len(walSync) /\ SubSeq(wal, 1, n) = SubSeq(walSync, 1, n)}
        keep == CHOOSE n \in common : \A m \in common : n >= m
    IN  {walSync} \cup {SubSeq(wal, 1, n) : n \in keep..Len(wal)}

\* The process or the machine stops: memory is lost, and of every write that was
\* not synced the file may or may not have it.
Crash ==
    /\ status # "down"
    /\ crashes < MaxCrash
    /\ crashes' = crashes + 1
    /\ \E lost \in SUBSET {p \in Page : data[p] # dataSync[p]} :
           data' = [p \in Page |-> IF p \in lost THEN dataSync[p] ELSE data[p]]
    /\ dataSync' = data'
    /\ wal' \in CrashedWALs
    /\ walSync' = wal'
    /\ status' = "down"
    /\ NewDB
    /\ UNCHANGED <<histVars, faults>>

-----------------------------------------------------------------------------
TxStep(t) ==
    \/ LockWriter(t) \/ BeginFails(t) \/ EnterWriter(t)
    \/ Flush(t) \/ FlushSync(t) \/ Publish(t)

ClientStep(t) ==
    \/ BeginRead(t) \/ BeginWrite(t)
    \/ Allocate(t)
    \/ \E p \in Page \ {Meta} : Write(t, p)

CkptStep ==
    \/ CheckpointSkips \/ CheckpointStart
    \/ \E p \in Page : CheckpointCopy(p)
    \/ CheckpointSync \/ CheckpointFails \/ CheckpointReset \/ CheckpointRebase
    \/ TruncateWAL \/ SyncWAL \/ ShrinkData

Next ==
    \/ \E t \in TX : TxStep(t) \/ ClientStep(t) \/ RemoveTx(t)
    \/ CkptStep
    \/ Open \/ OpenFails \/ Close \/ CloseFiles \/ Crash

Spec == Init /\ [][Next]_vars

\* Goroutines are scheduled, a sync.Mutex starves nobody, and whoever began a
\* transaction ends it.  Opening, closing and new transactions are not promised.
FairSpec ==
    /\ Spec
    /\ \A t \in TX : /\ WF_vars(TxStep(t)) /\ WF_vars(RemoveTx(t))
                     /\ SF_vars(LockWriter(t))
    /\ WF_vars(CkptStep)
    /\ SF_vars(CloseFiles)

-----------------------------------------------------------------------------
\* Snapshot isolation: whatever commits, checkpoints and truncations happen, a
\* transaction that was begun reads, on every page it did not write itself, what
\* the commit that was current at its Begin had left there (Tx: "a snapshot view
\* at the point-in-time they are started").
SnapshotIsolation ==
    \A t \in txs : tx[t].st \in {"open", "failed"} =>
        LET view == hist[tx[t].ver] IN
        /\ tx[t].meta.ver = view[Meta].ver
        /\ tx[t].meta.walID = view[Meta].walID
        /\ \A p \in 1..(view[Meta].pageN - 1) :
               /\ Readable(tx[t].pageMap, p)
               /\ ReadMapped(tx[t].pageMap, p) = view[p]

\* The WAL never outgrows its mmap, meta page and bitmap headers included
\* (checkTxSize leaves room for the meta page).
WALFitsMmap == Len(wal) <= MaxWALSize

\* One writer: whoever is between rwmu.Lock in Begin and rwmu.Unlock holds the
\* lock, the checkpoint that a removed transaction left behind included.
WriterLockHeld ==
    /\ \A t \in TX : tx[t].st \notin {"none", "want"} /\ tx[t].writable => rwmu = t
    /\ ckpt.phase # "none" <=> rwmu = Checkpointer
    /\ \A t \in TX : rwmu = t => tx[t].writable /\ tx[t].st \notin {"none", "want"}

\* A writer that got the lock on a live database never has to wait on haltCond:
\* it would wait with rwmu held, and only a checkpoint, which needs rwmu, could
\* wake it.
WriterNeverHalts ==
    \A t \in TX : tx[t].st = "locked" /\ opened /\ ~isDead =>
                      walPageN <= MaxWALCheckpointSize

\* Close unmaps the files only when no transaction can read them any more.
CloseDrains == status = "closing" /\ closeWait = {} => txs = {}

\* The cache of root records a transaction was given is that of its own view.
RootRecordsCurrent ==
    \A t \in txs : tx[t].st = "open" =>
        tx[t].rootRecords = IF RootRecordPage \in tx[t].dirty THEN Len(hist) + 1
                            ELSE hist[tx[t].ver][RootRecordPage].ver

-----------------------------------------------------------------------------
(* The promise: what is read from memory and files is a SnapshotDB. *)

\* The database as it is read through a page map; blank when a page cannot be read.
ViewThrough(pm) ==
    IF \A p \in Page : Readable(pm, p)
    THEN LET pageN == ReadMapped(pm, Meta).pageN
         IN  [p \in Page |-> IF p < pageN THEN ReadMapped(pm, p) ELSE NoPage]
    ELSE [p \in Page |-> NoPage]

\* The database as the files alone hold it: the WAL up to its last meta page,
\* over the data file.
ViewOfFiles ==
    LET At(p) == LET i == ScanWAL(LastMeta(wal), p) IN IF i = 0 THEN data[p] ELSE wal[i].c
        pageN == At(Meta).pageN
    IN  [p \in Page |-> IF p < pageN THEN At(p) ELSE NoPage]

CurrentView == IF status \in {"open", "closing"} THEN ViewThrough(pageMap) ELSE ViewOfFiles

Snapshot == [t \in TX |-> IF tx[t].st \in {"open", "failed"}
                          THEN ViewThrough(tx[t].pageMap) ELSE NoView]

PendingView ==
    IF \E t \in TX : tx[t].st \in {"flushed", "synced"}
    THEN ViewThrough(tx[CHOOSE t \in TX : tx[t].st \in {"flushed", "synced"}].pageMap)
    ELSE NoView

Promise == INSTANCE SnapshotDB WITH
    View <- [Page -> Content],
    current <- CurrentView, snapshot <- Snapshot, pending <- PendingView

\* The page maps, the data file and the WAL together implement a SnapshotDB:
\* snapshots never change, a commit is atomic and serial, and Close, Open,
\* checkpoints and crashes at any point lose nothing that was committed.
ImplementsSnapshotDB == Promise!Spec

-----------------------------------------------------------------------------
\* A Begin(true) that waits for the writer lock returns, with a transaction or an
\* error: the lock comes back from every commit, rollback and checkpoint.
WriterServed ==
    \A t \in TX : tx[t].st \in {"want", "locked"} ~> tx[t].st \notin {"want", "locked"}

\* Close returns, whatever transactions and checkpoints were under way.
CloseReturns == status = "closing" ~> status = "down"
=============================================================================
