------------------------------ MODULE RbfTree ------------------------------
(***************************************************************************)
(* The b-trees of an RBF database inside one write transaction: bitmaps as *)
(* trees of containers (rbf/cursor.go), the root records, and the free     *)
(* list, which is itself such a tree whose bits are page numbers           *)
(* (rbf/tx.go).  What the transaction writes to disk is RbfDB's subject.   *)
(*                                                                         *)
(* Sizes keep the code's formulas; PageSize, the width of a container and  *)
(* the size of an integer in it are parameters, so that pages overflow and *)
(* trees grow with few bits.  A container is a type and a set of values;   *)
(* runs are counted where a size depends on them.                          *)
(***************************************************************************)
EXTENDS Integers, Sequences, FiniteSets, SequencesExt, FiniteSetsExt

CONSTANTS Names,           \* names of bitmaps
          Keys,            \* keys (high bits) that clients use
          ContainerWidth,  \* values of one container, 1 << 16 in the code
          PageSize,
          IntSize,         \* bytes of a uint16
          RecordsPerPage,  \* root records that fit on a page
          AddedBits,       \* names and bits that Add and Remove are called with
          Given,           \* names, keys and containers that clients put and import
          Loaded,          \* sequences of names and bits that were added before
          MaxOps           \* bound on the number of operations

Low == 0..(ContainerWidth - 1)
Bits == {k * ContainerWidth + v : k \in Keys, v \in Low}
highbits(v) == v \div ContainerWidth
lowbits(v) == v % ContainerWidth

\* 4079 and 2039 in the code: what fits on a page of its own.
ArrayMaxSize == (PageSize - 34) \div IntSize
RLEMaxSize == (PageSize - 34) \div (2 * IntSize)

\* roaring's own limits are a little larger (4096 and 2048)
RoaringArrayMaxSize == ArrayMaxSize + 1
RoaringRunMaxSize == RLEMaxSize + 1

ASSUME SizesAssumption ==
    /\ PageSize \in Nat /\ IntSize \in Nat \ {0} /\ RecordsPerPage \in Nat \ {0}
    /\ RLEMaxSize >= 1
    /\ AddedBits \subseteq Names \X Bits /\ MaxOps \in Nat
    /\ \A load \in Loaded : \A i \in DOMAIN load : load[i] \in Names \X Bits
    /\ Given \subseteq Names \X Keys \X [type : {"array", "rle", "bitmap"}, vals : SUBSET Low \ {{}}]

VARIABLES pages,     \* pages by number, as the transaction reads them
          pageN,     \* meta: number of pages
          rrPages,   \* the chain of root record pages
          records,   \* root records: name -> root page
          panicked,  \* an assertion or a PanicOn was hit
          expect,    \* history: the bits each bitmap must have
          doomed,    \* history: an operation was asked for that must panic
          ops        \* number of operations so far

vars == <<pages, pageN, rrPages, records, panicked, expect, doomed, ops>>

freelist == 2        \* meta: root page of the free list

(***************************************************************************)
(* Containers and cells                                                    *)
(***************************************************************************)
RunStarts(vals) == {v \in vals : v - 1 \notin vals}
RunN(vals) == Cardinality(RunStarts(vals))

Array(vals) == [type |-> "array", vals |-> vals]

Optimize(vals) ==
    LET n == Cardinality(vals)
    IN  [type |-> IF RunN(vals) <= RoaringRunMaxSize /\ RunN(vals) <= n \div 2
                  THEN "rle"
                  ELSE IF n < RoaringArrayMaxSize THEN "array" ELSE "bitmap",
         vals |-> vals]

\* roaring.Difference: the type of the result depends on both containers.
DifferenceType(a, b) ==
    LET vals == a.vals \ b.vals
        n == Cardinality(vals)
    IN  CASE a.type = "array" -> "array"
          [] a.type = "bitmap" /\ b.type = "rle" -> "bitmap"
          [] a.type = "bitmap" /\ b.type # "rle" ->
                 IF n < RoaringArrayMaxSize THEN "array" ELSE "bitmap"
          [] a.type = "rle" /\ b.type = "array" -> Optimize(vals).type
          [] a.type = "rle" /\ b.type = "rle" -> "rle"
          [] a.type = "rle" /\ b.type = "bitmap" ->
                 IF a.vals = Low THEN "bitmap"
                 ELSE IF n < RoaringArrayMaxSize /\ RunN(vals) > n \div 2
                      THEN "array" ELSE "rle"

\* Containers a page cannot hold as they are become bitmaps.
ConvertToLeafArgs(key, c) ==
    LET big == \/ c.type = "array" /\ Cardinality(c.vals) > ArrayMaxSize
               \/ c.type = "rle" /\ RunN(c.vals) > RLEMaxSize
    IN  [key |-> key, type |-> IF big THEN "bitmap" ELSE c.type,
         vals |-> c.vals, pgno |-> 0, bitN |-> Cardinality(c.vals)]

ArrayCell(key, vals) ==
    [key |-> key, type |-> "array", vals |-> vals, pgno |-> 0,
     bitN |-> Cardinality(vals)]

CellSize(c) ==
    18 + CASE c.type = "array" -> IntSize * Cardinality(c.vals)
           [] c.type = "rle" -> 2 * IntSize * RunN(c.vals)
           [] c.type = "bitmap" -> PageSize
           [] c.type = "ptr" -> 4

align8(n) == ((n + 7) \div 8) * 8
dataOffset(n) == align8(10 + 2 * n)

\* bytes that a cell takes on a leaf or on a branch page
SlotSize(kind, c) == IF kind = "leaf" THEN align8(CellSize(c)) ELSE 16

RECURSIVE SlotSizes(_, _)
SlotSizes(kind, cells) ==
    IF cells = << >> THEN 0 ELSE SlotSize(kind, Head(cells)) + SlotSizes(kind, Tail(cells))

CellsPageSize(kind, cells) == dataOffset(Len(cells)) + SlotSizes(kind, cells)

\* where the last cell ends, without alignment
leafPageSize(cells) ==
    IF cells = << >> THEN 10
    ELSE CellsPageSize("leaf", cells) - SlotSize("leaf", Last(cells)) + CellSize(Last(cells))

splitCells(kind, cells) ==
    LET add(acc, c) ==
            LET cellN == Len(Last(acc.groups))
                sz == SlotSize(kind, c)
            IN  IF cellN # 0 /\ dataOffset(cellN + 1) + acc.size + sz > (PageSize * 6) \div 10
                THEN [groups |-> Append(acc.groups, <<c>>), size |-> sz]
                ELSE [groups |-> [acc.groups EXCEPT ![Len(acc.groups)] = Append(@, c)],
                      size |-> acc.size + sz]
    IN  FoldLeft(add, [groups |-> << << >> >>, size |-> 0], cells).groups

(***************************************************************************)
(* A transaction as the operators below pass it on.                        *)
(***************************************************************************)
NoPage == [type |-> "none", cells |-> << >>, vals |-> {}]

Tx == [pages |-> pages, pageN |-> pageN, rrPages |-> rrPages, records |-> records,
       panicked |-> FALSE,
       modifying |-> FALSE,      \* modifyingFreelist
       pending |-> << >>]        \* pendingFreelistAdds

PanicIf(cond, s) == [s EXCEPT !.panicked = @ \/ cond]

writePage(s, pgno, page) ==
    [s EXCEPT !.pages = [p \in DOMAIN @ \cup {pgno} |-> IF p = pgno THEN page ELSE @[p]]]

writeBitmap(s, pgno, vals) == writePage(s, pgno, [NoPage EXCEPT !.type = "bitmap", !.vals = vals])

\* Writing cells that do not fit is an assertion in the code.
writeCells(s, pgno, kind, cells) ==
    LET end == IF kind = "leaf" THEN leafPageSize(cells) ELSE CellsPageSize(kind, cells)
    IN  PanicIf(end > PageSize,
                writePage(s, pgno, [type |-> kind, cells |-> cells, vals |-> {}]))

KeysBelow(cells, key) == Cardinality({i \in DOMAIN cells : cells[i].key < key})
HasKey(cells, key) == \E i \in DOMAIN cells : cells[i].key = key

\* Positions on the stack count from 1; one past the end of a leaf is possible.
RECURSIVE SeekFrom(_, _, _, _)
SeekFrom(s, stack, pgno, key) ==
    LET cells == s.pages[pgno].cells
        below == KeysBelow(cells, key)
        index == IF HasKey(cells, key) \/ below = 0 THEN below + 1 ELSE below
    IN  IF s.pages[pgno].type = "branch"
        THEN SeekFrom(s, Append(stack, [pgno |-> pgno, index |-> index]),
                      cells[index].child, key)
        ELSE [stack |-> Append(stack, [pgno |-> pgno, index |-> below + 1]),
              exact |-> HasKey(cells, key)]

Seek(s, root, key) == SeekFrom(s, << >>, root, key)

Found(s, at) == s.pages[Last(at.stack).pgno].cells[Last(at.stack).index]

\* The container of a cell; leafCellBitmap reads the bitmap page.
toContainer(s, cell) ==
    IF cell.type = "ptr"
    THEN [type |-> "bitmap", vals |-> s.pages[cell.pgno].vals]
    ELSE [type |-> cell.type, vals |-> cell.vals]

(***************************************************************************)
(* Allocating and freeing pages.  While the free list is being modified,   *)
(* pages are taken from the end of the file and pages to be freed wait in  *)
(* pending; otherwise both change the free list.                           *)
(***************************************************************************)
allocateNewPgno(s) ==
    [tx |-> [s EXCEPT !.pageN = @ + 1, !.pages = @ @@ (s.pageN :> NoPage)], pgno |-> s.pageN]

RECURSIVE FirstLeaf(_, _)
FirstLeaf(s, pgno) ==
    IF s.pages[pgno].type = "branch" THEN FirstLeaf(s, s.pages[pgno].cells[1].child) ELSE pgno

RECURSIVE LastLeaf(_, _)
LastLeaf(s, pgno) ==
    IF s.pages[pgno].type = "branch" THEN LastLeaf(s, Last(s.pages[pgno].cells).child) ELSE pgno

RECURSIVE modifyFreelist(_, _, _)

allocatePgno(s) ==
    LET cells == s.pages[FirstLeaf(s, freelist)].cells
        pgno == cells[1].key * ContainerWidth + Min(toContainer(s, cells[1]).vals)
    IN  IF s.modifying \/ s.panicked \/ cells = << >> THEN allocateNewPgno(s)
        ELSE [tx |-> modifyFreelist(s, "remove", pgno), pgno |-> pgno]

freePgno(s, pgno) ==
    LET s1 == writePage(s, pgno, NoPage)
    IN  IF s.panicked THEN s
        ELSE IF s.modifying THEN [s1 EXCEPT !.pending = Append(@, pgno)]
        ELSE modifyFreelist(s1, "add", pgno)

(***************************************************************************)
(* Writing a leaf or a branch: split when it is too full, allocate a page  *)
(* for every part but the first, which keeps the page, and tell the parent.*)
(* A root that splits keeps its page number as well: all parts move.       *)
(***************************************************************************)
RECURSIVE putBranchCells(_, _, _, _)

\* One part on page a.pgno; parents are the cells that point to the parts.
putGroup(a, parents, kind, group) ==
    [tx |-> writeCells(a.tx, a.pgno, kind, group),
     parents |-> Append(parents, [key |-> group[1].key, child |-> a.pgno])]

tellParent(done, stack, level) ==
    IF Len(done.parents) = 1 THEN done.tx
    ELSE IF level = 1 THEN writeCells(done.tx, stack[1].pgno, "branch", done.parents)
    ELSE putBranchCells(done.tx, stack, level - 1, done.parents)

RECURSIVE putGroups(_, _, _, _, _)
putGroups(done, stack, level, kind, groups) ==
    LET i == Len(done.parents) + 1
        keeps == i = 1 /\ (Len(groups) = 1 \/ level > 1)
    IN  IF i > Len(groups) THEN done
        ELSE putGroups(putGroup(IF keeps THEN [tx |-> done.tx, pgno |-> stack[level].pgno]
                                ELSE allocatePgno(done.tx), done.parents, kind, groups[i]),
                       stack, level, kind, groups)

putCells(s, stack, level, kind, cells, full) ==
    tellParent(putGroups([tx |-> s, parents |-> << >>], stack, level, kind,
                         IF full THEN splitCells(kind, cells) ELSE <<cells>>),
               stack, level)

putBranchCells(s, stack, level, newCells) ==
    LET e == stack[level]
        old == s.pages[e.pgno].cells
        cells == SubSeq(old, 1, e.index - 1) \o newCells \o SubSeq(old, e.index + 1, Len(old))
    IN  putCells(s, stack, level, "branch", cells, CellsPageSize("branch", cells) > PageSize)

(***************************************************************************)
(* putLeafCell: the fast path replaces or inserts the cell on the page;    *)
(* the slow path stores a bitmap on a page of its own, frees the bitmap    *)
(* page the cell had and may split.                                        *)
(***************************************************************************)
IsInsert(cells, index, key) == index > Len(cells) \/ cells[index].key # key

Place(cells, index, cell) ==
    IF IsInsert(cells, index, cell.key) THEN InsertAt(cells, index, cell)
    ELSE ReplaceAt(cells, index, cell)

\* Mutant: a replaced cell always fits.
UseFastToReplace(cells, index, in) ==
    IF IsInsert(cells, index, in.key) THEN leafPageSize(cells) + CellSize(in) + 18 <= PageSize
    ELSE cells[index].type = in.type

UseFast(cells, index, in) ==
    LET insert == IsInsert(cells, index, in.key)
        est == leafPageSize(cells) + CellSize(in) + IF insert THEN 2 ELSE -CellSize(cells[index])
    IN  est + 16 <= PageSize /\ (insert \/ cells[index].type = in.type)

\* Mutant: the page of a bitmap that became small is forgotten.
KeepPrevious(s, prev, in) == s

FreePrevious(s, prev, in) ==
    IF prev.type = "ptr" /\ in.type # "bitmap" /\ in.pgno # prev.pgno
    THEN freePgno(s, prev.pgno) ELSE s

BitmapOn(a, in) ==
    [tx |-> writeBitmap(a.tx, a.pgno, in.vals),
     cell |-> [in EXCEPT !.type = "ptr", !.vals = {}, !.pgno = a.pgno]]

\* The page for a bitmap: the one the cell has, or a new one.  Returns the
\* transaction and the cell to write.
StoreBitmap(s, prev, in) ==
    IF in.type = "bitmap" \/ (in.type = "array" /\ Cardinality(in.vals) > ArrayMaxSize)
    THEN BitmapOn(IF prev.type = "ptr" /\ in.type = "bitmap"
                  THEN [tx |-> s, pgno |-> prev.pgno] ELSE allocatePgno(s), in)
    ELSE [tx |-> s, cell |-> in]

NoCell == [key |-> -1, type |-> "none", vals |-> {}, pgno |-> 0, bitN |-> 0]

putStored(stored, stack, cells) ==
    LET new == Place(cells, Last(stack).index, stored.cell)
    IN  putCells(stored.tx, stack, Len(stack), "leaf", new,
                 CellsPageSize("leaf", new) >= PageSize)

putLeafCell(s, stack, in) ==
    LET e == Last(stack)
        cells == s.pages[e.pgno].cells
        prev == IF IsInsert(cells, e.index, in.key) THEN NoCell ELSE cells[e.index]
    IN  IF UseFast(cells, e.index, in)
        THEN writeCells(s, e.pgno, "leaf", Place(cells, e.index, in))
        ELSE putStored(StoreBitmap(FreePrevious(s, prev, in), prev, in), stack, cells)

(***************************************************************************)
(* Deleting a cell: empty pages go to the free list, a root with one child *)
(* becomes that child, parents learn a new first key.                      *)
(***************************************************************************)
RECURSIVE updateBranchCell(_, _, _, _)
updateBranchCell(s, stack, level, newKey) ==
    LET e == stack[level]
        old == s.pages[e.pgno].cells
        cells == [old EXCEPT ![e.index].key = newKey]
        s1 == writeCells(s, e.pgno, "branch", cells)
    IN  IF level > 1 /\ old[1].key # cells[1].key
        THEN updateBranchCell(s1, stack, level - 1, cells[1].key)
        ELSE s1

RECURSIVE deleteBranchCell(_, _, _)
deleteBranchCell(s, stack, level) ==
    LET e == stack[level]
        old == s.pages[e.pgno].cells
        cells == RemoveAt(old, e.index)
        s1 == writeCells(s, e.pgno, "branch", cells)
    IN  CASE cells = << >> /\ level = 1 -> writeCells(s, e.pgno, "leaf", << >>)
          [] cells = << >> /\ level > 1 ->
                 deleteBranchCell(freePgno(s, e.pgno), stack, level - 1)
          [] Len(cells) = 1 /\ level = 1 ->
                 writePage(freePgno(s, cells[1].child), e.pgno, s.pages[cells[1].child])
          [] OTHER -> IF level > 1 /\ old[1].key # cells[1].key
                      THEN updateBranchCell(s1, stack, level - 1, cells[1].key)
                      ELSE s1

\* The leaf has old cells and loses one, whose bitmap page is gone by now.
dropLeafCell(s, stack, old) ==
    LET e == Last(stack)
        level == Len(stack)
        cells == RemoveAt(old, e.index)
        s1 == writeCells(s, e.pgno, "leaf", cells)
    IN  CASE level > 1 /\ Len(old) = 1 ->
                 deleteBranchCell(freePgno(s, e.pgno), stack, level - 1)
          [] level > 1 /\ Len(old) > 1 /\ old[1].key # cells[1].key ->
                 updateBranchCell(s1, stack, level - 1, cells[1].key)
          [] OTHER -> s1

deleteLeafCell(s, stack) ==
    LET old == s.pages[Last(stack).pgno].cells
        cell == old[Last(stack).index]
    IN  dropLeafCell(IF cell.type = "ptr" THEN freePgno(s, cell.pgno) ELSE s, stack, old)

(***************************************************************************)
(* Cursor.Add and Cursor.Remove of one bit.                                *)
(***************************************************************************)
\* Mutant: an array loses its last value.
AddedCellDropsLast(cell, vals) ==
    IF cell.type = "ptr" THEN [cell EXCEPT !.bitN = @ + 1]
    ELSE ArrayCell(cell.key, IF cell.type = "array" THEN vals \ {Max(vals)} ELSE vals)

\* The cell that holds vals, one more than cell.
AddedCell(cell, vals) ==
    CASE cell.type = "array" -> ArrayCell(cell.key, vals)
      [] cell.type = "rle" ->
             [cell EXCEPT !.vals = vals, !.bitN = @ + 1,
                          !.type = IF RunN(vals) >= RLEMaxSize THEN "bitmap" ELSE "rle"]
      [] cell.type = "ptr" -> [cell EXCEPT !.bitN = @ + 1]

\* The cell that holds vals, one less than cell.
RemovedCell(cell, vals) ==
    IF cell.type = "ptr" /\ cell.bitN - 1 <= ArrayMaxSize
    THEN [ConvertToLeafArgs(cell.key, Optimize(vals)) EXCEPT !.bitN = cell.bitN - 1]
    ELSE [cell EXCEPT !.vals = IF cell.type = "ptr" THEN {} ELSE vals, !.bitN = @ - 1]

\* at is where Seek ended and cell what it found there.
addAt(s, at, cell, v) ==
    LET vals == toContainer(s, cell).vals \cup {lowbits(v)}
    IN  IF at.exact /\ lowbits(v) \in toContainer(s, cell).vals
        THEN [tx |-> s, changed |-> FALSE]
        ELSE [tx |-> putLeafCell(IF at.exact /\ cell.type = "ptr"
                                 THEN writeBitmap(s, cell.pgno, vals) ELSE s,
                                 at.stack,
                                 IF at.exact THEN AddedCell(cell, vals)
                                 ELSE ArrayCell(highbits(v), {lowbits(v)})),
              changed |-> TRUE]

cursorAdd(s, root, v) ==
    LET at == Seek(s, root, highbits(v)) IN addAt(s, at, Found(s, at), v)

\* The bitmap page of a container that becomes empty is freed here and once
\* more by deleteLeafCell.
removeAt(s, at, cell, v) ==
    LET vals == toContainer(s, cell).vals \ {lowbits(v)}
        new == RemovedCell(cell, vals)
    IN  IF ~at.exact \/ lowbits(v) \notin toContainer(s, cell).vals
        THEN [tx |-> s, changed |-> FALSE]
        ELSE [tx |-> IF vals = {}
                     THEN deleteLeafCell(IF cell.type = "ptr" THEN freePgno(s, cell.pgno) ELSE s,
                                         at.stack)
                     ELSE putLeafCell(IF new.type = "ptr" THEN writeBitmap(s, cell.pgno, vals)
                                      ELSE s, at.stack, new),
              changed |-> TRUE]

cursorRemove(s, root, v) ==
    LET at == Seek(s, root, highbits(v)) IN removeAt(s, at, Found(s, at), v)

(***************************************************************************)
(* Cursor.Next: << >> stands for EOF.  buffered: the first Next after Seek *)
(* does not move, unless Seek ended behind the last cell of its page.      *)
(***************************************************************************)
RECURSIVE FirstBelow(_, _)
FirstBelow(s, stack) ==
    LET e == Last(stack)
    IN  IF s.pages[e.pgno].type = "leaf" THEN stack
        ELSE FirstBelow(s, Append(stack, [pgno |-> s.pages[e.pgno].cells[e.index].child,
                                          index |-> 1]))

\* Mutant: the search for a branch with more cells stops at the leaf's parent.
goNextPageOfParent(s, stack) ==
    LET more == {l \in {Len(stack) - 1} \ {0} : stack[l].index < Len(s.pages[stack[l].pgno].cells)}
        l == Max(more)
    IN  IF more = {} THEN << >>
        ELSE FirstBelow(s, [SubSeq(stack, 1, l) EXCEPT ![l].index = @ + 1])

goNextPage(s, stack) ==
    LET more == {l \in 1..(Len(stack) - 1) : stack[l].index < Len(s.pages[stack[l].pgno].cells)}
        l == Max(more)
    IN  IF more = {} THEN << >>
        ELSE FirstBelow(s, [SubSeq(stack, 1, l) EXCEPT ![l].index = @ + 1])

cursorNext(s, stack, buffered) ==
    LET e == Last(stack)
        n == Len(s.pages[e.pgno].cells)
    IN  IF buffered /\ e.index <= n THEN stack
        ELSE IF ~buffered /\ e.index < n THEN [stack EXCEPT ![Len(stack)].index = @ + 1]
        ELSE goNextPage(s, stack)

\* The keys that Next visits from a position on.
RECURSIVE Scan(_, _)
Scan(s, stack) ==
    IF stack = << >> THEN << >>
    ELSE <<s.pages[Last(stack).pgno].cells[Last(stack).index].key>>
         \o Scan(s, cursorNext(s, stack, FALSE))

(***************************************************************************)
(* The free list.  Its pending pages are added when the change is over,    *)
(* which may make others pending.                                          *)
(***************************************************************************)
\* A page that is on the list already, or not on it, is a panic.
MustChange(r) == PanicIf(~r.changed, r.tx)

RECURSIVE freelistCleanup(_)
freelistCleanup(s) ==
    IF s.pending = << >> \/ s.panicked THEN [s EXCEPT !.modifying = FALSE]
    ELSE freelistCleanup(MustChange(cursorAdd([s EXCEPT !.pending = Tail(@)], freelist,
                                              Head(s.pending))))

\* A page that is cut off the file leaves the list and shortens the file.
modifyFreelist(s, what, pgno) ==
    LET s1 == [s EXCEPT !.modifying = TRUE]
        s2 == MustChange(IF what = "add" THEN cursorAdd(s1, freelist, pgno)
                         ELSE cursorRemove(s1, freelist, pgno))
    IN  freelistCleanup([s2 EXCEPT !.pageN = IF what = "cut off" THEN s.pageN - 1 ELSE @])

RECURSIVE truncateFreelist(_)
truncateFreelist(s) ==
    LET cells == s.pages[LastLeaf(s, freelist)].cells
        pgno == Last(cells).key * ContainerWidth + Max(toContainer(s, Last(cells)).vals)
    IN  IF cells = << >> \/ s.panicked THEN s
        ELSE IF pgno < s.pageN - 1 THEN s
        ELSE truncateFreelist(modifyFreelist(s, "cut off", pgno))

(***************************************************************************)
(* Root records: all record pages are freed and written anew.              *)
(***************************************************************************)
RecordsOn(a) ==
    [writePage(a.tx, a.pgno, [NoPage EXCEPT !.type = "records"])
        EXCEPT !.rrPages = Append(@, a.pgno)]

writeRootRecordPages(s, recs) ==
    LET freed == FoldLeft(LAMBDA acc, p : freePgno(acc, p), s, s.rrPages)
        n == (Cardinality(DOMAIN recs) + RecordsPerPage - 1) \div RecordsPerPage
        put(acc, i) == RecordsOn(allocatePgno(acc))
    IN  [FoldLeft(put, [freed EXCEPT !.rrPages = << >>], [i \in 1..n |-> i])
            EXCEPT !.records = recs]

createBitmap(a, name) ==
    writeRootRecordPages(writeCells(a.tx, a.pgno, "leaf", << >>),
                         a.tx.records @@ (name :> a.pgno))

createBitmapIfNotExists(s, name) ==
    IF name \in DOMAIN s.records THEN s ELSE createBitmap(allocatePgno(s), name)

RECURSIVE deallocateTree(_, _)
deallocateTree(s, pgno) ==
    LET page == s.pages[pgno]
        drop(acc, cell) ==
            CASE page.type = "branch" -> deallocateTree(acc, cell.child)
              [] page.type = "leaf" /\ cell.type = "ptr" -> freePgno(acc, cell.pgno)
              [] OTHER -> acc
    IN  freePgno(FoldLeft(drop, s, page.cells), pgno)

(***************************************************************************)
(* Actions: the operations of a Tx.                                        *)
(***************************************************************************)
addTo(s, name, v) == cursorAdd(s, s.records[name], v).tx

\* Tx.Add, which creates the bitmap
addBit(s, nv) == addTo(createBitmapIfNotExists(s, nv[1]), nv[1], nv[2])

\* The pages of a new database: root records and an empty free list.
NewDB == [pages |-> (1 :> [NoPage EXCEPT !.type = "records"])
                    @@ (2 :> [NoPage EXCEPT !.type = "leaf"]),
          pageN |-> 3, rrPages |-> <<1>>, records |-> << >>,
          panicked |-> FALSE, modifying |-> FALSE, pending |-> << >>]

\* A database to which some bits were added, in this order.
Init ==
    \E load \in Loaded : \E s \in {FoldLeft(addBit, NewDB, load)} :
        /\ pages = s.pages
        /\ pageN = s.pageN
        /\ rrPages = s.rrPages
        /\ records = s.records
        /\ panicked = s.panicked
        /\ expect = [n \in Names |-> {nv[2] : nv \in {nw \in Range(load) : nw[1] = n}}]
        /\ doomed = FALSE
        /\ ops = 0

CanStep == ~panicked /\ ops < MaxOps

Becomes(s) ==
    /\ pages' = s.pages
    /\ pageN' = s.pageN
    /\ rrPages' = s.rrPages
    /\ records' = s.records
    /\ panicked' = s.panicked
    /\ ops' = ops + 1

BitsOf(key, vals) == {key * ContainerWidth + v : v \in vals}

\* Two removals are known to panic.  That of the only bit of a bitmap page: Remove
\* frees the page (cursor.go:287-291) and so does deleteLeafCell (653-657), which
\* freePgno finds on the free list already.  That of a bit inside a run of a
\* container that has RLEMaxSize runs: one more does not fit (264-270, rbf.go:591).
RemovePanics(name, v) ==
    LET at == Seek(Tx, records[name], highbits(v))
        cell == Found(Tx, at)
    IN  /\ at.exact
        /\ \/ cell.type = "ptr" /\ toContainer(Tx, cell).vals = {lowbits(v)}
           \/ cell.type = "rle" /\ RunN(cell.vals \ {lowbits(v)}) > RLEMaxSize

TxAdd(name, v) ==
    /\ CanStep
    /\ Becomes(addBit(Tx, <<name, v>>))
    /\ expect' = [expect EXCEPT ![name] = @ \cup {v}]
    /\ UNCHANGED doomed

TxRemove(name, v) ==
    /\ CanStep
    /\ name \in DOMAIN records
    /\ Becomes(cursorRemove(Tx, records[name], v).tx)
    /\ expect' = [expect EXCEPT ![name] = @ \ {v}]
    /\ doomed' = RemovePanics(name, v)

removeContainer(s, root, key) ==
    LET at == Seek(s, root, key)
    IN  IF at.exact THEN deleteLeafCell(s, at.stack) ELSE s

putInto(s, name, key, c) ==
    putLeafCell(s, Seek(s, s.records[name], key).stack, ConvertToLeafArgs(key, c))

PutContainer(name, key, c) ==
    /\ CanStep
    /\ Becomes(putInto(createBitmapIfNotExists(Tx, name), name, key, c))
    /\ expect' = [expect EXCEPT ![name] = (@ \ BitsOf(key, Low)) \cup BitsOf(key, c.vals)]
    /\ UNCHANGED doomed

RemoveContainer(name, key) ==
    /\ CanStep
    /\ name \in DOMAIN records
    /\ Becomes(removeContainer(Tx, records[name], key))
    /\ expect' = [expect EXCEPT ![name] = @ \ BitsOf(key, Low)]
    /\ UNCHANGED doomed

\* ImportRoaringBits of one container, to set or to clear its bits.
importInto(s, name, key, c, clear) ==
    LET at == Seek(s, s.records[name], key)
        old == IF at.exact THEN toContainer(s, Found(s, at)) ELSE Array({})
        new == IF clear
               THEN [type |-> DifferenceType(old, c), vals |-> old.vals \ c.vals]
               ELSE IF old.vals = {} THEN c ELSE Optimize(old.vals \cup c.vals)
    IN  IF new.vals = old.vals THEN s
        ELSE IF new.vals = {} THEN removeContainer(s, s.records[name], key)
        ELSE putInto(s, name, key, new)

ImportRoaringBits(name, key, c, clear) ==
    /\ CanStep
    /\ Becomes(importInto(createBitmapIfNotExists(Tx, name), name, key, c, clear))
    /\ expect' = [expect EXCEPT ![name] = IF clear THEN @ \ BitsOf(key, c.vals)
                                         ELSE @ \cup BitsOf(key, c.vals)]
    /\ UNCHANGED doomed

\* names are the bitmaps that have the prefix
DeleteBitmapsWithPrefix(names) ==
    LET s == FoldLeft(LAMBDA acc, n : deallocateTree(acc, records[n]), Tx, SetToSeq(names))
    IN  /\ CanStep
        /\ names \subseteq DOMAIN records
        /\ Becomes(writeRootRecordPages(s, [n \in DOMAIN records \ names |-> records[n]]))
        /\ expect' = [n \in Names |-> IF n \in names THEN {} ELSE expect[n]]
        /\ UNCHANGED doomed

\* Commit cuts free pages off the end of the file before it flushes.
Commit ==
    /\ CanStep
    /\ Becomes(truncateFreelist(Tx))
    /\ UNCHANGED <<expect, doomed>>

Next ==
    \/ \E nv \in AddedBits : TxAdd(nv[1], nv[2]) \/ TxRemove(nv[1], nv[2])
    \/ \E g \in Given : RemoveContainer(g[1], g[2])
    \/ \E g \in Given : PutContainer(g[1], g[2], g[3])
    \/ \E g \in Given, clear \in BOOLEAN : ImportRoaringBits(g[1], g[2], g[3], clear)
    \/ \E ns \in SUBSET Names : DeleteBitmapsWithPrefix(ns)
    \/ Commit

Spec == Init /\ [][Next]_vars

(***************************************************************************)
(* Properties                                                              *)
(***************************************************************************)
RECURSIVE Tree(_)
Tree(pgno) ==
    {pgno} \cup IF pages[pgno].type = "branch"
                THEN UNION {Tree(pages[pgno].cells[i].child) : i \in DOMAIN pages[pgno].cells}
                ELSE {}

TreePages == UNION {Tree(records[n]) : n \in DOMAIN records} \cup Tree(freelist)

\* Everything that points to page p.
References(p) ==
    {<<"record", n>> : n \in {m \in DOMAIN records : records[m] = p}}
    \cup {<<"rrPage", i>> : i \in {j \in DOMAIN rrPages : rrPages[j] = p}}
    \cup {<<"meta", 0>> : q \in {freelist} \cap {p}}
    \cup UNION {{<<q, i>> : i \in {j \in DOMAIN pages[q].cells :
                    p = IF pages[q].type = "branch" THEN pages[q].cells[j].child
                        ELSE pages[q].cells[j].pgno}} : q \in TreePages}

InUse == Range(rrPages) \cup TreePages
         \cup UNION {{pages[q].cells[i].pgno : i \in DOMAIN pages[q].cells} \ {0} :
                     q \in {q \in TreePages : pages[q].type = "leaf"}}

RECURSIVE LeafCells(_)
LeafCells(pgno) ==
    IF pages[pgno].type = "leaf" THEN pages[pgno].cells
    ELSE FoldLeft(LAMBDA acc, c : acc \o LeafCells(c.child), << >>, pages[pgno].cells)

FreePages ==
    UNION {BitsOf(c.key, toContainer(Tx, c).vals) : c \in Range(LeafCells(freelist))}

\* The assertions and PanicOns of the tree and free list code (a cell that does
\* not fit on its page, a page freed or allocated twice) are hit by the two
\* removals of RemovePanics and by nothing else.
OnlyKnownPanics == panicked <=> doomed

\* What Tx.Check looks for, and more: a page of the file is on the free list
\* and nothing points to it, or it is not and exactly one thing does; no
\* page in use lies beyond the end of the file.
PagesAccounted ==
    /\ ~panicked => InUse \subseteq 1..(pageN - 1)
    /\ ~panicked => \A p \in 1..(pageN - 1) :
            Cardinality(References(p)) = IF p \in FreePages THEN 0 ELSE 1

\* Looking up any bit finds exactly what the calls so far have left, however they
\* made the tree grow and shrink, and the number of bits stored with a container
\* is right: counts are answered from it without reading the container.
ContentsKept ==
    ~panicked =>
        /\ \A n \in DOMAIN records : \A k \in Keys :
              LET at == Seek(Tx, records[n], k)
              IN  BitsOf(k, IF at.exact THEN toContainer(Tx, Found(Tx, at)).vals ELSE {})
                  = expect[n] \cap BitsOf(k, Low)
        /\ \A p \in TreePages : pages[p].type = "leaf" =>
              \A c \in Range(pages[p].cells) :
                  c.bitN = Cardinality(toContainer(Tx, c).vals)

\* Seek and then Next as long as there are containers visits all containers
\* from the key on, each once and in order.
ScanComplete ==
    ~panicked => \A n \in DOMAIN records : \A k \in Keys :
        Scan(Tx, cursorNext(Tx, Seek(Tx, records[n], k).stack, TRUE))
            = SelectSeq([i \in 1..(Max(Keys) + 1 - k) |-> k + i - 1],
                        LAMBDA j : expect[n] \cap BitsOf(j, Low) # {})

=============================================================================
