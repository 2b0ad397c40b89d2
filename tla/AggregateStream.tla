-------------------------- MODULE AggregateStream --------------------------
(***************************************************************************)
(* The streaming aggregate of one Spark partition (spark.py,               *)
(* _aggregate_stream): the Rust kernel reduces each Arrow batch by itself, *)
(* and the partial results are merged into a Python dict, one entry per    *)
(* group, from which the result is built when the partition ends.          *)
(*                                                                         *)
(* One signed integer column is aggregated.  The kernel's accumulator is   *)
(* an i128 and Python's integers are unbounded, so sums are exact until    *)
(* they are put into an Int64 column; I64 is the range of that column.  A  *)
(* mean is a float in the end: the kernel turns the sum into one before it *)
(* divides, Python divides the integers and rounds once.                   *)
(* Rows are not stored: each one, as it is reduced, is also given to the   *)
(* accumulators of a second, imagined call of the kernel that sees the     *)
(* partition as one batch (whole).                                         *)
(***************************************************************************)
EXTENDS Float64, FiniteSets

CONSTANTS
    Group,          \* group keys, told apart by their exact row encoding
    Value,          \* the cells of the aggregated column that are not null
    Null,
    I64,            \* the integers an Int64 column can hold
    Requests,       \* the sets of functions a caller may ask for
    PyRep,          \* PyRep[g]: the representative of the keys Python holds equal to g
    Fresh,          \* keys Python holds unequal to themselves (a NaN in them)
    MaxRows,        \* bound on the rows of the partition
    MaxBatches      \* bound on its batches

Funcs == {"count", "sum", "mean", "min", "max"}

ASSUME AggregateAssumption ==
    /\ Value \subseteq Int /\ I64 \subseteq Int
    /\ Value \subseteq I64
    /\ Null \notin Int
    /\ Requests \subseteq SUBSET Funcs
    /\ PyRep \in [Group -> Group]
    /\ Fresh \subseteq Group
    /\ MaxRows \in Nat /\ MaxBatches \in Nat

VARIABLES
    pc,             \* "pull", "reduce", "merge", "returned" or "raised"
    requested,      \* the functions asked for
    partial,        \* group -> accumulator of the batch at hand
    pending,        \* groups of the batch at hand that are not merged yet
    state,          \* dict key -> merged accumulator
    keys,           \* the dict's keys
    stats,          \* batches_in and rows_in
    whole,          \* group -> accumulator of the one-batch call
    groups,         \* the groups of the one-batch call
    out             \* the yielded rows, one per dict key

vars == <<pc, requested, partial, pending, state, keys, stats, whole, groups, out>>

DictKeys == Group \X (0..MaxBatches)

-----------------------------------------------------------------------------
(* What is known of the non-null values of a group. *)
Empty == [count |-> 0, sum |-> 0, min |-> 0, max |-> 0]
Single(v) == [count |-> 1, sum |-> v, min |-> v, max |-> v]

Acc == {a \in [count : Nat, sum : Int, min : Int, max : Int] :
          IF a.count = 0 THEN a = Empty ELSE a.min <= a.max}

(* Minimum and maximum of two integers. *)
Lesser(x, y) == IF x < y THEN x ELSE y
Greater(x, y) == IF x > y THEN x ELSE y

(* What two accumulators say together.  A side without values is None in   *)
(* the code, and skipped.                                                  *)
Merge(a, b) ==
    IF b.count = 0 THEN a
    ELSE IF a.count = 0 THEN b
    ELSE [count |-> a.count + b.count, sum |-> a.sum + b.sum,
          min |-> Lesser(a.min, b.min), max |-> Greater(a.max, b.max)]

(* Nulls are not accumulated. *)
Add(a, v) == IF v = Null THEN a ELSE Merge(a, Single(v))

(* One cell of a result row, but for means of values: the merged entry. *)
Direct(a, f) ==
    IF f = "count" THEN a.count ELSE IF a.count = 0 THEN Null ELSE a[f]

(* The requested columns of a row of the stream's result: the mean is one  *)
(* division of Python integers.  "avg" is "mean".                          *)
Result(a) ==
    [f \in requested |->
        IF f = "mean" /\ a.count # 0 THEN Quotient(a.sum, a.count) ELSE Direct(a, f)]

(* Those of a row of the kernel's: the sum is a float before it is divided. *)
KernelRow(a) ==
    [f \in requested |->
        IF f = "mean" /\ a.count # 0 THEN Quotient(AsF64(a.sum), a.count) ELSE Direct(a, f)]

TypeOK ==
    /\ pc \in {"pull", "reduce", "merge", "returned", "raised"}
    /\ requested \in Requests
    /\ partial \in [Group -> Acc]
    /\ pending \subseteq Group
    /\ state \in [DictKeys -> Acc]
    /\ keys \subseteq DictKeys
    /\ stats \in [batches_in : 0..MaxBatches, rows_in : 0..MaxRows]
    /\ whole \in [Group -> Acc]
    /\ groups \subseteq Group

-----------------------------------------------------------------------------
(* A dict entry of its own for every batch. *)
DictKeyPerBatch(g) == <<g, stats.batches_in>>

(* The dict entry a group is merged into: Python compares the key tuples,  *)
(* and a NaN cell is a new object in every batch.                          *)
DictKey(g) == IF g \in Fresh THEN <<g, stats.batches_in>> ELSE <<PyRep[g], 0>>

(* "mean" is asked of the kernel as a "sum" and a "count", so either one   *)
(* has the kernel build an Int64 column of the batch's sums.               *)
BatchSums == requested \cap {"sum", "mean"} # {}
BatchOverflows == BatchSums /\ \E g \in pending : partial[g].sum \notin I64

(* The sums are put into the result as they are. *)
FinalUnchecked == FALSE

(* pa.array(values, type=int64) over the merged sums. *)
FinalOverflows == "sum" \in requested /\ \E k \in keys : state[k].sum \notin I64

Init ==
    /\ pc = "pull"
    /\ requested \in Requests
    /\ partial = [g \in Group |-> Empty]
    /\ pending = {}
    /\ state = [k \in DictKeys |-> Empty]
    /\ keys = {}
    /\ stats = [batches_in |-> 0, rows_in |-> 0]
    /\ whole = [g \in Group |-> Empty]
    /\ groups = {}
    /\ out = {}

PullEmpty ==
    /\ pc = "pull"
    /\ stats.batches_in < MaxBatches
    /\ stats' = [stats EXCEPT !.batches_in = @ + 1]
    /\ UNCHANGED <<pc, requested, partial, pending, state, keys, whole, groups, out>>

Pull ==
    /\ pc = "pull"
    /\ stats.batches_in < MaxBatches
    /\ stats.rows_in < MaxRows
    /\ stats' = [stats EXCEPT !.batches_in = @ + 1]
    /\ partial' = [g \in Group |-> Empty]
    /\ pc' = "reduce"
    /\ UNCHANGED <<requested, pending, state, keys, whole, groups, out>>

(* The kernel reduces the next row of the batch. *)
ReduceRow ==
    /\ pc = "reduce"
    /\ stats.rows_in < MaxRows
    /\ \E g \in Group, v \in Value \cup {Null} :
          /\ partial' = [partial EXCEPT ![g] = Add(@, v)]
          /\ pending' = pending \cup {g}
          /\ whole' = [whole EXCEPT ![g] = Add(@, v)]
          /\ groups' = groups \cup {g}
    /\ stats' = [stats EXCEPT !.rows_in = @ + 1]
    /\ UNCHANGED <<pc, requested, state, keys, out>>

(* The batch is reduced: its sums fit an Int64 column, or the task fails. *)
EndBatch ==
    /\ pc = "reduce"
    /\ pending # {}
    /\ pc' = IF BatchOverflows THEN "raised" ELSE "merge"
    /\ UNCHANGED <<requested, partial, pending, state, keys, stats, whole, groups, out>>

(* The entry is replaced by the batch's, not merged with it. *)
MergeGroupReplacing ==
    /\ pc = "merge"
    /\ \E g \in pending :
          /\ state' = [state EXCEPT ![DictKey(g)] = partial[g]]
          /\ keys' = keys \cup {DictKey(g)}
          /\ pending' = pending \ {g}
    /\ UNCHANGED <<pc, requested, partial, stats, whole, groups, out>>

(* One row of the partial result is merged into the dict. *)
MergeGroup ==
    /\ pc = "merge"
    /\ \E g \in pending :
          /\ state' = [state EXCEPT ![DictKey(g)] = Merge(@, partial[g])]
          /\ keys' = keys \cup {DictKey(g)}
          /\ pending' = pending \ {g}
    /\ UNCHANGED <<pc, requested, partial, stats, whole, groups, out>>

BatchMerged ==
    /\ pc = "merge"
    /\ pending = {}
    /\ pc' = "pull"
    /\ UNCHANGED <<requested, partial, pending, state, keys, stats, whole, groups, out>>

(* The partition has ended: one result row per dict key. *)
Finish ==
    /\ pc = "pull"
    /\ IF FinalOverflows
       THEN pc' = "raised" /\ UNCHANGED out
       ELSE /\ pc' = "returned"
            /\ out' = {<<k, Result(state[k])>> : k \in keys}
    /\ UNCHANGED <<requested, partial, pending, state, keys, stats, whole, groups>>

Ended == pc \in {"returned", "raised"} /\ UNCHANGED vars

Next ==
    \/ PullEmpty \/ Pull \/ ReduceRow \/ EndBatch \/ MergeGroup \/ BatchMerged
    \/ Finish \/ Ended

Spec == Init /\ [][Next]_vars

-----------------------------------------------------------------------------
(* One call of the kernel over all the rows reduced so far. *)
KernelOverflows == "sum" \in requested /\ \E g \in groups : whole[g].sum \notin I64
KernelResult == {<<<<g, 0>>, KernelRow(whole[g])>> : g \in groups}

(* At every point of every batch, what the dict holds of a group and what  *)
(* the batch at hand still has to say of it make up what one call over     *)
(* all the rows would know: no value is lost or counted twice.             *)
MergedSoFar ==
    \A g \in Group :
        Merge(state[<<g, 0>>], IF g \in pending THEN partial[g] ELSE Empty) = whole[g]

(* However the partition was batched, the stream returns a row for each    *)
(* group the kernel finds in the whole partition, with the kernel's cells; *)
(* only the mean of a sum that no float holds may be another, and is then  *)
(* the exact mean rounded once (spark.py, lines 386 to 391 and 479).       *)
ReturnsKernelResult ==
    pc = "returned" =>
        /\ {row[1] : row \in out} = {<<g, 0>> : g \in groups}
        /\ \A row \in out, g \in groups, f \in requested :
              row[1] = <<g, 0>> =>
                 \/ row[2][f] = KernelRow(whole[g])[f]
                 \/ /\ f = "mean" /\ AsF64(whole[g].sum) # whole[g].sum
                    /\ row[2][f] = Quotient(whole[g].sum, whole[g].count)

(* A sum that does not fit its column is never returned: where the kernel  *)
(* reports Overflow for the whole partition, the stream fails as well.     *)
OverflowIsNeverHidden == pc = "returned" => ~ KernelOverflows

(* repartition=True makes the partition's result for a key equal "the true *)
(* whole-DataFrame aggregate for it" (spark.py, lines 515 and 516): a group *)
(* of the kernel is one row of the result, and no row is two groups.       *)
OneRowPerGroup == pc = "returned" => Cardinality(out) = Cardinality(groups)

(* "This is the same maths witchhat.aggregate itself uses in one shot,     *)
(* just spread across batches" (spark.py, lines 390 and 391): the stream   *)
(* returns the kernel's rows, means of large sums included.                *)
MeansAreTheKernels == pc = "returned" => out = KernelResult

(* "This is the same maths witchhat.aggregate itself uses in one shot,     *)
(* just spread across batches" (spark.py, lines 390 and 391): the stream   *)
(* fails only on a partition on which the kernel fails.                    *)
FailsOnlyWithKernel == pc = "raised" => KernelOverflows
=============================================================================
