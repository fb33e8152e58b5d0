---------------------------- MODULE IDAllocator ----------------------------
(***************************************************************************)
(* The ID allocator of an index (idalloc.go).  Ingesters reserve ranges of *)
(* record IDs under a key and commit the ones they used; the rest goes     *)
(* back.  With offset control (a Kafka partition) the i-th reserved ID     *)
(* belongs to offset + i and reservations are kept, so that whoever reads  *)
(* the partition again gets the same IDs.  Every call is one Bolt          *)
(* transaction, so a call is a step; a call that fails changes nothing.    *)
(***************************************************************************)
EXTENDS Integers, SequencesExt

CONSTANTS
    Key,          \* IDAllocKey, of one index
    Session,      \* the random values clients identify themselves with
    MaxUint,      \* ^uint64(0)
    MaxCount,     \* bound: IDs asked for or committed in a call
    NoSession

ASSUME IDAssumption ==
    /\ MaxUint \in Nat /\ MaxUint > 1 /\ MaxCount \in 0..MaxUint
    /\ NoSession \notin Session

VARIABLES
    avail,     \* the list of available ranges (the value of key {1})
    res,       \* the reservation of each key
    held,      \* what each session was last told to use, less what it committed
    spent      \* IDs that were committed, or whose offsets were passed

vars == <<avail, res, held, spent>>

ID == 1..MaxUint

\* No offset control.
NoOffset == MaxUint

\* What decode makes of an entry that is not there.
NoReservation == [ranges |-> <<>>, offset |-> 0, lock |-> NoSession]

\* A session that was told nothing.
Nothing == [key |-> NoSession, ids |-> <<>>]

width(r) == r.Last - r.First

IDsOf(ranges) == UNION {r.First..r.Last : r \in ToSet(ranges)}

\* How many IDs there are in the first i ranges.
Counts(ranges) ==
    LET sum[i \in 0..Len(ranges)] ==
            IF i = 0 THEN 0 ELSE sum[i - 1] + (width(ranges[i]) + 1)
    IN sum

Count(ranges) == Counts(ranges)[Len(ranges)]

\* The IDs in the order in which they are used: the n-th is in the range that the
\* count reaches n with.
IDSeq(ranges) ==
    LET sum   == Counts(ranges)
        At(n) == CHOOSE i \in DOMAIN ranges : sum[i - 1] < n /\ n <= sum[i]
    IN [n \in 1..Count(ranges) |-> ranges[At(n)].First + (n - 1 - sum[At(n) - 1])]

\* The state after n rounds of a loop, and after a loop over a list.
Iterate(Round(_), s, n) ==
    LET f[i \in 0..n] == IF i = 0 THEN s ELSE Round(f[i - 1]) IN f[n]

ForEach(Body(_, _), s, list) ==
    LET f[i \in 0..Len(list)] == IF i = 0 THEN s ELSE Body(f[i - 1], list[i]) IN f[Len(list)]

-----------------------------------------------------------------------------
(* The lists of ranges *)

\* Mutant: a range as long as its width, which is its length less one.
TakeOneMore(r, n) == [r EXCEPT !.Last = r.First + n]

\* The first n IDs of a longer range, and the rest of it.
Take(r, n) == [r EXCEPT !.Last = r.First + n - 1]

Drop(r, n) == [r EXCEPT !.First = r.First + n]

Swap(a, i, j) == [a EXCEPT ![i] = a[j], ![j] = a[i]]

Parent(i) == IF i = 1 THEN 1 ELSE i \div 2

\* a[1..n-1] is a heap by width; its n-th element goes up to its place.
GoUp(s) ==
    IF width(s.a[s.i]) < width(s.a[Parent(s.i)])
    THEN [a |-> Swap(s.a, s.i, Parent(s.i)), i |-> Parent(s.i)]
    ELSE s

SiftUp(a, n) == Iterate(GoUp, [a |-> a, i |-> n], n).a

\* Mutant: the list as it was stored.
NotHeapified(a) == a

\* A heap by width.
Heapify(a) == ForEach(SiftUp, a, [i \in DOMAIN a |-> i])

\* The element at i and its children: where the smallest of them is.
Smallest(a, i) ==
    LET Less(x, y) == IF y <= Len(a) /\ width(a[y]) < width(a[x]) THEN y ELSE x
    IN Less(Less(i, 2 * i), 2 * i + 1)

GoDown(s) == [a |-> Swap(s.a, s.i, Smallest(s.a, s.i)), i |-> Smallest(s.a, s.i)]

\* The first element is gone, the last takes its place and goes down.
Pop(a) ==
    IF Len(a) = 1 THEN <<>>
    ELSE Iterate(GoDown, [a |-> Front([a EXCEPT ![1] = Last(a)]), i |-> 1], Len(a)).a

\* Takes IDs off the smallest range.
TakeSmallest(s) ==
    IF s.count = 0 \/ s.avail = <<>> THEN s
    ELSE LET r == Head(s.avail)
         IN IF s.count - 1 < width(r)
            THEN [reserved |-> Append(s.reserved, Take(r, s.count)),
                  avail    |-> [s.avail EXCEPT ![1] = Drop(r, s.count)],
                  count    |-> 0]
            ELSE [reserved |-> Append(s.reserved, r),
                  avail    |-> Pop(s.avail),
                  count    |-> s.count - (width(r) + 1)]

\* Takes count IDs off the smallest ranges; count is what could not be had.
reserveIDs(ranges, count) ==
    Iterate(TakeSmallest, [reserved |-> <<>>, avail |-> Heapify(ranges), count |-> count],
            Len(ranges))

\* sort.Slice: the list in the order of the first IDs.
SortByFirst(list) ==
    LET Sorts(p) == \A i, j \in DOMAIN list : i < j => list[p[i]].First <= list[p[j]].First
        p == CHOOSE p \in Bijection(DOMAIN list, DOMAIN list) : Sorts(p)
    IN [i \in DOMAIN list |-> list[p[i]]]

\* The list with one more range.
MergeNext(s, v) ==
    IF s.list = <<>> THEN [s EXCEPT !.list = <<v>>]
    ELSE LET prev == Last(s.list)
         IN IF v.First <= prev.Last THEN [s EXCEPT !.ok = FALSE]
            ELSE IF v.First = (prev.Last + 1) % (MaxUint + 1)
            THEN [s EXCEPT !.list = Append(Front(@), [prev EXCEPT !.Last = v.Last])]
            ELSE [s EXCEPT !.list = Append(@, v)]

\* The list with the returned ranges; ok is FALSE when two of them overlap.
mergeIDs(main, returned) ==
    ForEach(MergeNext, [list |-> <<>>, ok |-> TRUE], SortByFirst(main \o returned))

\* Discards the first n IDs; n is what was too many.
DiscardFirst(s) ==
    IF s.n = 0 \/ s.ranges = <<>> THEN s
    ELSE LET r == Head(s.ranges)
         IN IF s.n - 1 < width(r)
            THEN [ranges |-> [s.ranges EXCEPT ![1] = Drop(r, s.n)], n |-> 0]
            ELSE [ranges |-> Tail(s.ranges), n |-> s.n - (width(r) + 1)]

Discard(ranges, n) == Iterate(DiscardFirst, [ranges |-> ranges, n |-> n], Len(ranges))

\* The first count IDs.
PrefixNext(s, r) ==
    IF s.n = 0 THEN s
    ELSE IF s.n - 1 < width(r)
    THEN [ranges |-> Append(s.ranges, Take(r, s.n)), n |-> 0]
    ELSE [ranges |-> Append(s.ranges, r), n |-> s.n - (width(r) + 1)]

Prefix(ranges, count) == ForEach(PrefixNext, [ranges |-> <<>>, n |-> count], ranges).ranges

-----------------------------------------------------------------------------

\* An index without a bucket: no reservation, and all IDs are available.
Init ==
    /\ avail = <<[First |-> 1, Last |-> MaxUint]>>
    /\ res = [k \in Key |-> NoReservation]
    /\ held = [s \in Session |-> Nothing]
    /\ spent = {}

\* Mutant: the new ranges come first.
ExtendFront(kept, more) == more \o kept

Extend(kept, more) == kept \o more

\* Mutant: whoever made the reservation.
LockIgnored(r, s) == r.lock # NoSession

LockedBy(r, s) == r.lock = s

\* reserve, with offset not below what was committed: earlier offsets are passed,
\* the session takes the reservation over, and it is extended if it is too short.
Reserve(k, s, offset, count) ==
    LET r      == res[k]
        passed == IF offset = NoOffset THEN 0 ELSE offset - r.offset
        kept   == Discard(r.ranges, passed).ranges
        more   == reserveIDs(avail, count - Count(kept))
    IN /\ offset = NoOffset \/ offset >= r.offset
       /\ \/ /\ Count(kept) >= count
             /\ res' = [res EXCEPT ![k] = [ranges |-> kept, offset |-> offset, lock |-> s]]
             /\ held' = [held EXCEPT ![s] = [key |-> k, ids |-> IDSeq(Prefix(kept, count))]]
             /\ UNCHANGED avail
          \/ /\ Count(kept) < count /\ more.count = 0
             /\ res' = [res EXCEPT ![k] = [ranges |-> Extend(kept, more.reserved),
                                           offset |-> offset, lock |-> s]]
             /\ held' = [held EXCEPT ![s] = [key |-> k, ids |-> IDSeq(Extend(kept, more.reserved))]]
             /\ avail' = more.avail
       /\ spent' = spent \cup (IDsOf(r.ranges) \ IDsOf(kept))

\* commit, by the session that made the last reservation of the key.
Commit(k, s, count) ==
    LET r      == res[k]
        rest   == Discard(r.ranges, count)
        merged == mergeIDs(avail, rest.ranges)
    IN /\ LockedBy(r, s)
       /\ r.offset # NoOffset => count <= MaxUint - 1 - r.offset
       /\ rest.n = 0
       /\ \/ /\ r.offset = NoOffset /\ merged.ok
             /\ avail' = IF rest.ranges = <<>> THEN avail ELSE merged.list
             /\ res' = [res EXCEPT ![k] = NoReservation]
             /\ held' = [held EXCEPT ![s] = Nothing]
          \/ /\ r.offset # NoOffset
             /\ res' = [res EXCEPT ![k].ranges = rest.ranges, ![k].offset = @ + count]
             /\ held' = [held EXCEPT ![s].ids = SubSeq(@, count + 1, Len(@))]
             /\ UNCHANGED avail
       /\ spent' = spent \cup (IDsOf(r.ranges) \ IDsOf(rest.ranges))

\* reset, when the index is deleted; clients do not know.
Reset ==
    /\ avail' = <<[First |-> 1, Last |-> MaxUint]>>
    /\ res' = [k \in Key |-> NoReservation]
    /\ spent' = {}
    /\ UNCHANGED held

\* Sessions are random: a client that moves to another key has another one.
Foreign(k, s) == \E j \in Key \ {k} : held[s].key = j \/ res[j].lock = s

Next ==
    \/ \E k \in Key, s \in Session, count \in 0..MaxCount : ~Foreign(k, s) /\
         \/ \E offset \in 0..MaxUint : Reserve(k, s, offset, count)
         \/ Commit(k, s, count)
    \/ Reset

Spec == Init /\ [][Next]_vars

-----------------------------------------------------------------------------
\* No ID is in two places and none is lost: each is available, reserved under one
\* key, or committed or passed, and is in one range of its list.  In particular
\* spent IDs never come back.
Apart(ranges) ==
    \A i, j \in DOMAIN ranges :
        /\ ranges[i].First <= ranges[i].Last
        /\ i # j => ranges[i].Last < ranges[j].First \/ ranges[j].Last < ranges[i].First

EachIDOnce ==
    LET places == [k \in Key |-> IDsOf(res[k].ranges)]
    IN /\ ID = IDsOf(avail) \cup spent \cup UNION {places[k] : k \in Key}
       /\ IDsOf(avail) \cap spent = {}
       /\ \A k \in Key :
            /\ places[k] \cap (IDsOf(avail) \cup spent) = {}
            /\ \A j \in Key \ {k} : places[j] \cap places[k] = {}
       /\ Apart(avail) /\ \A k \in Key : Apart(res[k].ranges)

\* reserveIDs takes exactly as many IDs as are asked for and there are, keeps the
\* rest, and empties every range before it touches a larger one, whatever the order
\* of the available ranges: the ID space is not cut into ever smaller pieces.
SmallestFirst(a, n) ==
    LET s     == reserveIDs(a, n)
        taken == IDsOf(s.reserved)
        left  == IDsOf(s.avail)
    IN /\ Count(s.reserved) + s.count = n
       /\ s.count > 0 => s.avail = <<>>
       /\ taken \cup left = IDsOf(a) /\ taken \cap left = {}
       /\ Apart(s.reserved) /\ Apart(s.avail)
       /\ \A i, j \in DOMAIN a :
            width(a[i]) < width(a[j]) /\ (a[j].First..a[j].Last) \cap taken # {}
                => (a[i].First..a[i].Last) \subseteq taken

TakesSmallest == \A n \in 0..MaxUint : SmallestFirst(avail, n)

\* With offset control an offset that has an ID keeps it until it is passed, over
\* retries, takeovers by other sessions and reservations of any size; and offsets
\* never go back.
Controlled(r) == r.lock # NoSession /\ r.offset # NoOffset

IDAt(r, o) == IDSeq(r.ranges)[o - r.offset + 1]
Offsets(r) == r.offset..(r.offset + Count(r.ranges) - 1)

StableIDs ==
    [][\A k \in Key : res'[k] # res[k] /\ Controlled(res[k]) /\ Controlled(res[k])' =>
         /\ res[k].offset <= res'[k].offset
         /\ \A o \in Offsets(res[k]) : o >= res'[k].offset =>
              o \in Offsets(res'[k]) /\ IDAt(res'[k], o) = IDAt(res[k], o)]_vars

\* Client and allocator agree on what is committed: a commit of n IDs commits the
\* first n that this session was told to use, and nobody committed them before; a
\* session whose reservation was taken over commits nothing.
CommitAgrees ==
    [][\A k \in Key, s \in Session, n \in 0..MaxCount :
         res'[k] # res[k] /\ n <= Len(held[s].ids) /\ Commit(k, s, n) =>
           LET mine == ToSet(SubSeq(held[s].ids, 1, n))
           IN spent' = spent \cup mine /\ mine \cap spent = {}]_vars
=============================================================================
