------------------------------ MODULE BsiField ------------------------------
(***************************************************************************)
(* An int field on one shard (field.go, fragment.go, executor.go).  Its    *)
(* values are bit-sliced: row "exists" holds the columns that have a       *)
(* value, row "sign" those whose value is negative, and row i the columns  *)
(* with bit i set in |value - Base|.  The number of rows in use is         *)
(* bsig.BitDepth; it is state of the field, shared by all requests and     *)
(* kept in memory only, and every read and write takes it as an argument.  *)
(*                                                                         *)
(* SetValue, ClearValue and importValue run in requests of their own; each *)
(* is broken where another request can come between: at the read and the   *)
(* write of BitDepth, and before the write transaction of the shard.  The  *)
(* transaction itself is one step (RbfDB shows that transactions are       *)
(* isolated).  Range queries, min, max and value are operators; a query    *)
(* has a snapshot and reads BitDepth after it took it.                     *)
(*                                                                         *)
(* Left out: decimal and timestamp fields, which convert the value first;  *)
(* 64-bit overflow; importRoaring, which copies rows; sum.                 *)
(***************************************************************************)
EXTENDS Integers, Sequences, FiniteSets, FiniteSetsExt

CONSTANTS
    Proc,         \* requests that may run at the same time
    Column,       \* the columns of the shard
    MaxDepth,     \* the bits of an integer
    FieldRange,   \* the <<Min, Max>> a field may be created with
    MaxBatch,     \* length of an import
    ImportValue,  \* the values, less Base, that imports carry
    None          \* no value

VARIABLES
    bsig,     \* bsiGroup: Min, Max, Base, BitDepth
    exists,   \* row bsiExistsBit
    sign,     \* row bsiSignBit
    bit,      \* row bsiOffsetBit + i, for every i
    call,     \* what each request is doing
    written   \* the value of each column, as the requests asked for

vars == <<bsig, exists, sign, bit, call, written>>

-----------------------------------------------------------------------------
(* Numbers as the fragment sees them.                                      *)

Abs(v) == IF v < 0 THEN -v ELSE v

\* 1 << i
pow2[i \in Nat] == IF i = 0 THEN 1 ELSE 2 * pow2[i - 1]

\* u >> i, for every i
Shifts(u) == LET s[i \in Nat] == IF i = 0 THEN u ELSE s[i - 1] \div 2 IN s

BitOf(u, i) == Shifts(u)[i] % 2

\* u without the bits from the d-th up.
LowBits(u, d) == u - pow2[d] * Shifts(u)[d]

\* bits.Len64
bitDepth(u) == CHOOSE n \in 0 .. u : pow2[n] > u /\ (n > 0 => pow2[n - 1] <= u)

bsiBase(min, max) == IF min > 0 THEN min ELSE IF max < 0 THEN max ELSE 0

\* The values of a field, less its base, have no more bits than an integer.
ASSUME BsiAssumption ==
    /\ MaxDepth \in Nat /\ MaxBatch \in Nat /\ ImportValue \subseteq Int /\ None \notin Int
    /\ \A r \in FieldRange : r \in Int \X Int /\ r[1] <= r[2]
    /\ \A r \in FieldRange : \A v \in r[1] .. r[2] :
          Abs(v - bsiBase(r[1], r[2])) < pow2[MaxDepth]

DepthRange == 0 .. MaxDepth - 1

\* The state after a loop over the rows from top - 1 down to low.
ForRows(Body(_, _), s, top, low) ==
    LET f[k \in 0 .. top - low] == IF k = 0 THEN s ELSE Body(f[k - 1], top - k)
    IN  f[top - low]

Idle == [pc |-> "idle"]

-----------------------------------------------------------------------------
(* Writing.                                                                *)

\* The rows after the values of `batch` (a function of the columns) went in.
PutBits(batch, depth) ==
    bit' = [i \in DepthRange |->
               IF i >= depth THEN bit[i]
               ELSE (bit[i] \ DOMAIN batch)
                        \cup {c \in DOMAIN batch : BitOf(Abs(batch[c]), i) = 1}]

Negatives(batch) == {c \in DOMAIN batch : batch[c] < 0}

\* fragment.setValueBase
setValueBase(c, depth, value, clear) ==
    LET batch == [x \in {c} |-> value]
    IN  /\ PutBits(batch, depth)
        /\ exists' = IF clear THEN exists \ {c} ELSE exists \cup {c}
        /\ sign' = IF clear THEN sign \ {c} ELSE (sign \ {c}) \cup Negatives(batch)

\* Mutant: the first entry of a column wins.
FirstWins(pairs) ==
    LET kept == {i \in DOMAIN pairs : i = 1 \/ pairs[i][1] # pairs[i - 1][1]}
    IN  [c \in {pairs[i][1] : i \in kept} |->
            pairs[CHOOSE i \in kept : pairs[i][1] = c][2]]

\* The entries of an import that count: importValue goes through them from the
\* end and skips an entry for the column it has just seen.
LastWins(pairs) ==
    LET kept == {i \in DOMAIN pairs :
                    i = Len(pairs) \/ pairs[i][1] # pairs[i + 1][1]}
    IN  [c \in {pairs[i][1] : i \in kept} |->
            pairs[CHOOSE i \in kept : pairs[i][1] = c][2]]

\* fragment.importValue: a cleared column keeps the sign of the value it is
\* cleared with.
importPositions(batch, depth, clear) ==
    /\ PutBits(batch, depth)
    /\ exists' = IF clear THEN exists \ DOMAIN batch ELSE exists \cup DOMAIN batch
    /\ sign' = (sign \ DOMAIN batch) \cup Negatives(batch)

InRange(v) == v >= bsig.Min /\ v <= bsig.Max

\* Field.SetValue up to the comparison with BitDepth, which holds no lock.
SetValue(p, c, v) ==
    /\ call[p] = Idle
    /\ InRange(v)
    /\ LET base == v - bsig.Base
       IN  call' = [call EXCEPT ![p] =
               [pc    |-> IF bitDepth(Abs(base)) > bsig.BitDepth THEN "raise" ELSE "arg",
                col   |-> c, value |-> base, clear |-> FALSE]]
    /\ UNCHANGED <<bsig, exists, sign, bit, written>>

\* The new depth is stored under f.mu; it is not compared again.
Raise(p) ==
    /\ call[p].pc = "raise"
    /\ bsig' = [bsig EXCEPT !.BitDepth = bitDepth(Abs(call[p].value))]
    /\ call' = [call EXCEPT ![p].pc = "arg"]
    /\ UNCHANGED <<exists, sign, bit, written>>

\* view.value: the value less Base, summed up from the rows in use.
value(c, depth) ==
    IF c \notin exists THEN None
    ELSE LET sum[i \in 0 .. depth] ==
                 IF i = 0 THEN 0
                 ELSE sum[i - 1] + (IF c \in bit[i - 1] THEN pow2[i - 1] ELSE 0)
         IN  IF c \in sign THEN -sum[depth] ELSE sum[depth]

\* Field.ClearValue up to the read of the value to clear.
ClearValue(p, c) ==
    /\ call[p] = Idle
    /\ value(c, bsig.BitDepth) # None
    /\ call' = [call EXCEPT ![p] =
           [pc |-> "arg", col |-> c, value |-> value(c, bsig.BitDepth), clear |-> TRUE]]
    /\ UNCHANGED <<bsig, exists, sign, bit, written>>

\* The depth is read for the call of view.setValue or view.clearValue.
ReadDepth(p) ==
    /\ call[p].pc = "arg"
    /\ call' = [call EXCEPT ![p] = [pc    |-> "write", col |-> call[p].col,
                                    value |-> call[p].value, clear |-> call[p].clear,
                                    depth |-> bsig.BitDepth]]
    /\ UNCHANGED <<bsig, exists, sign, bit, written>>

\* The write transaction of view.setValue or view.clearValue.
Write(p) ==
    /\ call[p].pc = "write"
    /\ LET o == call[p]
       IN  /\ setValueBase(o.col, o.depth, o.value, o.clear)
           /\ written' = [written EXCEPT ![o.col] =
                             IF o.clear THEN None ELSE o.value + bsig.Base]
    /\ call' = [call EXCEPT ![p] = Idle]
    /\ UNCHANGED bsig

\* Sequences of entries, sorted by column as api.ImportValue leaves them.
Batches ==
    {s \in UNION {[1 .. n -> Column \X ImportValue] : n \in 1 .. MaxBatch} :
        \A i, j \in DOMAIN s : \A k \in i .. j : s[i][1] = s[j][1] => s[k][1] = s[i][1]}

\* Field.importValue: the depth is compared and stored under f.mu.
importValue(p, pairs, clear) ==
    /\ call[p] = Idle
    /\ \A i \in DOMAIN pairs : InRange(pairs[i][2] + bsig.Base)
    /\ LET required == Max({bitDepth(Abs(pairs[i][2])) : i \in DOMAIN pairs})
           depth == Max({required, bsig.BitDepth})
       IN  /\ bsig' = [bsig EXCEPT !.BitDepth = depth]
           /\ call' = [call EXCEPT ![p] = [pc    |-> "import", pairs |-> pairs,
                                           clear |-> clear, depth |-> depth]]
    /\ UNCHANGED <<exists, sign, bit, written>>

Import(p) ==
    /\ call[p].pc = "import"
    /\ LET o == call[p]
           entries(c) == {i \in DOMAIN o.pairs : o.pairs[i][1] = c}
       IN  /\ importPositions(LastWins(o.pairs), o.depth, o.clear)
           /\ written' = [c \in Column |->
                 IF entries(c) = {} THEN written[c]
                 ELSE IF o.clear THEN None
                 ELSE o.pairs[Max(entries(c))][2] + bsig.Base]
    /\ call' = [call EXCEPT ![p] = Idle]
    /\ UNCHANGED bsig

\* fragment.bitDepth: the highest row that is not empty.
StoredDepth ==
    LET used == {i \in DepthRange : bit[i] # {}}
    IN  IF used = {} THEN 0 ELSE Max(used) + 1

\* The node restarts: the field is opened with the options it was created with
\* and setFieldBitDepths takes the depth from the rows.
Restart ==
    /\ bsig' = [bsig EXCEPT !.BitDepth = StoredDepth]
    /\ call' = [p \in Proc |-> Idle]
    /\ UNCHANGED <<exists, sign, bit, written>>

Init ==
    /\ bsig \in {[Min |-> r[1], Max |-> r[2], Base |-> bsiBase(r[1], r[2]),
                  BitDepth |-> 0] : r \in FieldRange}
    /\ exists = {}
    /\ sign = {}
    /\ bit = [i \in DepthRange |-> {}]
    /\ call = [p \in Proc |-> Idle]
    /\ written = [c \in Column |-> None]

Next ==
    \/ \E p \in Proc :
          \/ \E c \in Column : \E v \in bsig.Min .. bsig.Max : SetValue(p, c, v)
          \/ \E c \in Column : ClearValue(p, c)
          \/ Raise(p) \/ ReadDepth(p) \/ Write(p)
          \/ \E s \in Batches, clear \in BOOLEAN : importValue(p, s, clear)
          \/ Import(p)
    \/ Restart

Spec == Init /\ [][Next]_vars

-----------------------------------------------------------------------------
(* Reading: comparisons of the bit rows with a predicate.  The predicate   *)
(* of these is less Base, and unsigned where the name says so.             *)

\* The columns whose bits in the rows from top - 1 down to low are those of u.
MatchRows(u, columns, top, low) ==
    LET Keep(b, i) == IF BitOf(u, i) = 1 THEN b \cap bit[i] ELSE b \ bit[i]
    IN  ForRows(Keep, columns, top, low)

rangeEQ(depth, predicate) ==
    IF bitDepth(Abs(predicate)) > depth THEN {}
    ELSE MatchRows(Abs(predicate), IF predicate < 0 THEN exists \cap sign ELSE exists \ sign,
                   depth, 0)

rangeNEQ(depth, predicate) == exists \ rangeEQ(depth, predicate)

\* A round of rangeLTUnsigned; the loop ends when no bit of the predicate is left.
LTNext(s, i) ==
    LET zeroes == s.remaining \ bit[i]
    IN  IF s.u = 0 \/ s.remaining = {} THEN s
        ELSE IF BitOf(s.u, i) = 1
        THEN [s EXCEPT !.matched = @ \cup zeroes, !.u = @ - pow2[i]]
        ELSE [s EXCEPT !.remaining = zeroes]

rangeLTUnsigned(filter, depth, u, allowEquality) ==
    CASE bitDepth(u) > depth \/ (u = pow2[depth] - 1 /\ allowEquality) -> filter
      [] u = pow2[depth] - 1 /\ ~allowEquality ->
             UNION {filter \ bit[i] : i \in 0 .. depth - 1}
      [] OTHER ->
             ForRows(LTNext, [matched |-> {}, remaining |-> filter,
                              u |-> IF allowEquality THEN u + 1 ELSE u], depth, 0).matched

\* A round of rangeGTUnsigned; the loop ends when the bits of the predicate are
\* all ones.
GTNext(s, i) ==
    LET ones == s.remaining \cap bit[i]
    IN  IF s.u = s.max \/ s.remaining = {} THEN s
        ELSE IF BitOf(s.u, i) = 1
        THEN [s EXCEPT !.remaining = ones]
        ELSE [s EXCEPT !.matched = @ \cup ones, !.u = @ + pow2[i]]

\* With equality this is the comparison with the number before.
rangeGTUnsigned(filter, depth, predicate, allowEquality) ==
    LET u == IF allowEquality THEN predicate - 1 ELSE predicate
    IN  IF predicate = 0 /\ allowEquality THEN filter
        ELSE CASE u = 0 -> UNION {filter \cap bit[i] : i \in 0 .. depth - 1}
               [] u # 0 /\ bitDepth(u) > depth -> {}
               [] OTHER ->
                      ForRows(GTNext, [matched |-> {}, remaining |-> filter, u |-> u,
                                       max |-> pow2[depth] - 1], depth, 0).matched

rangeLT(depth, pred, allowEq) ==
    LET one == pred = 1 /\ ~allowEq
        predicate == IF one THEN 0 ELSE pred
        allowEquality == allowEq \/ one
        negatives == exists \cap sign
    IN  CASE predicate = 0 /\ ~allowEquality -> negatives
          [] predicate = 0 /\ allowEquality -> negatives \cup rangeEQ(depth, 0)
          [] predicate < 0 -> rangeGTUnsigned(negatives, depth, Abs(predicate), allowEquality)
          [] OTHER -> negatives \cup
                 rangeLTUnsigned(exists \ sign, depth, Abs(predicate), allowEquality)

rangeGT(depth, pred, allowEq) ==
    LET one == pred = -1 /\ ~allowEq
        predicate == IF one THEN 0 ELSE pred
        allowEquality == allowEq \/ one
        positives == exists \ sign
    IN  CASE predicate = 0 /\ ~allowEquality -> rangeNEQ(depth, 0) \ sign
          [] predicate = 0 /\ allowEquality -> positives
          [] predicate > 0 -> rangeGTUnsigned(positives, depth, Abs(predicate), allowEquality)
          [] OTHER -> positives \cup
                 rangeLTUnsigned(exists \cap sign, depth, Abs(predicate), allowEquality)

\* bits.Len64(lo ^ hi): the bits from there up are the same in both.
DiffLen(lo, hi) ==
    LET differ == {i \in 0 .. bitDepth(hi) : BitOf(lo, i) # BitOf(hi, i)}
    IN  IF differ = {} THEN 0 ELSE Max(differ) + 1

rangeBetweenUnsigned(filter, depth, lo, hi) ==
    CASE hi > pow2[depth] - 1 -> rangeGTUnsigned(filter, depth, lo, TRUE)
      [] hi <= pow2[depth] - 1 /\ lo = 0 -> rangeLTUnsigned(filter, depth, hi, TRUE)
      [] OTHER ->
           LET d == DiffLen(lo, hi)
               upper == MatchRows(lo, filter, depth, d)
           IN  rangeLTUnsigned(rangeGTUnsigned(upper, d, LowBits(lo, d), TRUE),
                               d, LowBits(hi, d), TRUE)

rangeBetween(depth, lo, hi) ==
    CASE lo = hi -> rangeEQ(depth, lo)
      [] lo # hi /\ lo >= 0 -> rangeBetweenUnsigned(exists \ sign, depth, lo, hi)
      [] lo # hi /\ hi < 0 -> rangeBetweenUnsigned(exists \cap sign, depth, Abs(hi), Abs(lo))
      [] OTHER -> rangeLTUnsigned(exists \ sign, depth, hi, TRUE)
                      \cup rangeLTUnsigned(exists \cap sign, depth, Abs(lo), TRUE)

-----------------------------------------------------------------------------
(* executeRowBSIGroupShard: predicates are values of the field.            *)

bitDepthMin == bsig.Base - pow2[bsig.BitDepth] + 1
bitDepthMax == bsig.Base + pow2[bsig.BitDepth] - 1

\* Mutant: the edge case of the comment on baseValue is not addressed.
baseValueClamped(op, v) ==
    CASE op \in {"GT", "GTE"} /\ v > bitDepthMax -> None
      [] op \in {"LT", "LTE"} /\ v < bitDepthMin -> None
      [] op \in {"EQ", "NEQ"} /\ (v < bitDepthMin \/ v > bitDepthMax) -> None
      [] OTHER -> Min({Max({v, bitDepthMin}), bitDepthMax}) - bsig.Base

\* bsiGroup.baseValue; None stands for outOfRange.
baseValue(op, v) ==
    LET below == v < bitDepthMin
        above == v > bitDepthMax
    IN  CASE op \in {"GT", "GTE"} /\ above -> None
          [] op \in {"GT", "GTE"} /\ below ->
                 bitDepthMin - bsig.Base - (IF op = "GT" THEN 1 ELSE 0)
          [] op \in {"LT", "LTE"} /\ below -> None
          [] op \in {"LT", "LTE"} /\ above ->
                 bitDepthMax - bsig.Base + (IF op = "LT" THEN 1 ELSE 0)
          [] op \in {"EQ", "NEQ"} /\ (below \/ above) -> None
          [] OTHER -> v - bsig.Base

rangeOp(op, depth, predicate) ==
    CASE op = "EQ" -> rangeEQ(depth, predicate)
      [] op = "NEQ" -> rangeNEQ(depth, predicate)
      [] op \in {"LT", "LTE"} -> rangeLT(depth, predicate, op = "LTE")
      [] op \in {"GT", "GTE"} -> rangeGT(depth, predicate, op = "GTE")

executeRow(op, v) ==
    LET base == baseValue(op, v)
    IN  IF base = None /\ op # "NEQ" THEN {}
        ELSE IF \/ op = "LT" /\ v > bsig.Max
                \/ op = "LTE" /\ v >= bsig.Max
                \/ op = "GT" /\ v < bsig.Min
                \/ op = "GTE" /\ v <= bsig.Min
                \/ base = None
             THEN exists
             ELSE rangeOp(op, bsig.BitDepth, base)

executeBetween(lo, hi) ==
    IF hi < bitDepthMin \/ lo > bitDepthMax \/ hi < lo THEN {}
    ELSE IF lo <= bsig.Min /\ hi >= bsig.Max THEN exists
    ELSE rangeBetween(bsig.BitDepth, Max({lo, bitDepthMin}) - bsig.Base,
                                     Min({hi, bitDepthMax}) - bsig.Base)

-----------------------------------------------------------------------------
(* The extremes, with the number of columns that have them.                *)

MinNext(s, i) ==
    LET row == s.filter \ bit[i]
    IN  IF row # {} THEN [s EXCEPT !.filter = row] ELSE [s EXCEPT !.val = @ + pow2[i]]

minUnsigned(filter, depth) ==
    LET s == ForRows(MinNext, [val |-> 0, filter |-> filter], depth, 0)
    IN  [val |-> s.val, count |-> Cardinality(s.filter)]

MaxNext(s, i) ==
    LET row == s.filter \cap bit[i]
    IN  IF row # {} THEN [val |-> s.val + pow2[i], filter |-> row] ELSE s

maxUnsigned(filter, depth) ==
    LET s == ForRows(MaxNext, [val |-> 0, filter |-> filter], depth, 0)
    IN  [val |-> s.val, count |-> Cardinality(s.filter)]

Negate(r) == [r EXCEPT !.val = -@]

fragmentMin(filter, depth) ==
    LET consider == exists \cap filter
        negatives == sign \cap consider
    IN  CASE consider = {} -> [val |-> 0, count |-> 0]
          [] consider # {} /\ negatives # {} -> Negate(maxUnsigned(negatives, depth))
          [] OTHER -> minUnsigned(consider, depth)

fragmentMax(filter, depth) ==
    LET consider == exists \cap filter
        pos == consider \ sign
    IN  CASE consider = {} -> [val |-> 0, count |-> 0]
          [] consider # {} /\ pos = {} -> Negate(minUnsigned(consider, depth))
          [] OTHER -> maxUnsigned(pos, depth)

\* Field.MinForShard and MaxForShard: valCountize adds Base.
ForShard(r) == [r EXCEPT !.val = @ + bsig.Base]
MinForShard(filter) == ForShard(fragmentMin(filter, bsig.BitDepth))
MaxForShard(filter) == ForShard(fragmentMax(filter, bsig.BitDepth))

-----------------------------------------------------------------------------
(* Properties.                                                             *)

HasValue == {c \in Column : written[c] # None}

\* Predicates reach beyond the values the field accepts on both sides.
Predicates == bsig.Min - 2 .. bsig.Max + 2

Compare(op, x, y) ==
    CASE op = "EQ"  -> x = y  [] op = "NEQ" -> x # y
      [] op = "LT"  -> x < y  [] op = "LTE" -> x <= y
      [] op = "GT"  -> x > y  [] op = "GTE" -> x >= y

\* Field.Value returns for every column the value that the last SetValue,
\* ClearValue or import of it asked for, whatever rows the depth left behind.
ValuesKept ==
    \A c \in Column :
        LET v == value(c, bsig.BitDepth)
        IN  (IF v = None THEN None ELSE v + bsig.Base) = written[c]

\* A comparison (executeRowBSIGroupShard) selects exactly the columns whose
\* value satisfies it: predicates in and out of the range of the field and of
\* the bits in use, either sign, all six operators and BETWEEN.
RowsMatch ==
    /\ \A op \in {"EQ", "NEQ", "LT", "LTE", "GT", "GTE"}, v \in Predicates :
          executeRow(op, v) = {c \in HasValue : Compare(op, written[c], v)}
    /\ \A lo, hi \in Predicates :
          executeBetween(lo, hi) =
              {c \in HasValue : lo <= written[c] /\ written[c] <= hi}

\* MinForShard and MaxForShard return, under every filter, the least and the
\* greatest value of the filtered columns and how many columns have it.
ExtremesRight ==
    \A filter \in SUBSET Column :
        LET cols == filter \cap HasValue
            vals == {written[c] : c \in cols}
            With(v) == [val |-> v, count |-> Cardinality({c \in cols : written[c] = v})]
        IN  cols # {} => /\ MinForShard(filter) = With(Min(vals))
                         /\ MaxForShard(filter) = With(Max(vals))

\* Every query on the bit-sliced rows, a comparison or an extreme, answers what
\* comparing the values themselves would (rangeOp, rangeBetween, min and max).
QueriesRight == RowsMatch /\ ExtremesRight

=============================================================================
