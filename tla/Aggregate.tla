------------------------------ MODULE Aggregate ------------------------------
(***************************************************************************)
(* aggregate of the Rust kernel (witchhat-core/src/aggregate.rs), one call *)
(* on one batch: the columns are checked, the rows are put into groups in  *)
(* first-seen order, and every aggregation reduces every group to a cell.  *)
(*                                                                         *)
(* Integer columns are summed in 128 bits, which 2^32 rows of 64 bits      *)
(* cannot leave; the sum then has to fit a 64-bit column.  Decimals are    *)
(* summed in the width of their own mantissas.  The cells of a float       *)
(* column are their ranks in the total order of total_cmp; what they add   *)
(* up to is written as the sequence of the addends, for float addition     *)
(* depends on the order.                                                   *)
(***************************************************************************)
EXTENDS Float64, SequencesExt

CONSTANTS
    NullCell,   \* a cell the column's null buffer says is null
    Hidden,     \* a null no null buffer shows (the cells of a Null column)
    Overflow,   \* a sum its type cannot hold
    Batches,    \* the batches considered, [types, rows]
    Calls,      \* the calls considered, [group_by, aggs]
    Int64,      \* the integers of an Int64 column
    U64,        \* those of a UInt64 column
    Mantissa    \* the mantissas of a decimal column

Sums == {"sum", "mean"}
AggFunc == Sums \cup {"count", "min", "max"}
Numeric == {"sint", "uint", "float", "decimal"}
RowConvertible == Numeric \cup {"utf8", "null"}

(* The numbers a column of a numeric type can hold; a float is its rank.   *)
NumbersOf == [sint |-> Int64, uint |-> U64, decimal |-> Mantissa, float |-> Int]

(* A batch is a sequence of rows, each with a cell of every column. *)
BatchesOfRows ==
    \A b \in Batches :
        /\ Len(b.rows) \in Nat /\ DOMAIN b.rows = 1..Len(b.rows)
        /\ \A i \in DOMAIN b.rows :
              /\ DOMAIN b.rows[i] = DOMAIN b.types
              /\ \A name \in DOMAIN b.types :
                    b.types[name] \in Numeric =>
                        b.rows[i][name] \in NumbersOf[b.types[name]] \cup {NullCell}

(* A call lists column names, and functions of columns. *)
CallsOfLists ==
    \A c \in Calls :
        /\ Len(c.group_by) \in Nat /\ DOMAIN c.group_by = 1..Len(c.group_by)
        /\ Len(c.aggs) \in Nat /\ DOMAIN c.aggs = 1..Len(c.aggs)
        /\ \A k \in DOMAIN c.aggs : c.aggs[k].func \in AggFunc

ASSUME AggregateKernelAssumption ==
    /\ BatchesOfRows /\ CallsOfLists
    /\ Int64 \subseteq Int /\ U64 \subseteq Int /\ Mantissa \subseteq Int
    /\ 0 \in Int64 \cap U64
    /\ NullCell \notin Int \cup Seq(Int) \cup {Overflow}
    /\ Overflow \notin Int \cup Seq(Int) \cup ((Int \cup Seq(Int)) \X Nat)

VARIABLES
    stage,          \* "resolve", "check", "group", "reduce", "returned", "failed"
    batch,
    request,
    rows_per_group, \* the rows of every group, in the order of the batch
    next,           \* the rows that have been put into a group
    out_columns,    \* the finished columns, [name, type, cells]
    error           \* the variant of Error returned, "none" before

kernelVars == <<stage, batch, request, rows_per_group, next, out_columns, error>>
call == <<batch, request>>

-----------------------------------------------------------------------------
(* Cells and sums.                                                         *)
IsNullCell(c) == c = NullCell

Num(type, c) == IF type = "float" THEN <<c>> ELSE c
Plus(type, a, b) == IF type = "float" THEN a \o b ELSE a + b

(* An accumulator of integers that is no wider than their column. *)
CheckedNarrow(type, n) == IF type # "float" /\ n \notin Mantissa THEN Overflow ELSE n

(* checked_add; 128 bits are never too few for a sum of integers. *)
Checked(type, n) == IF type = "decimal" /\ n \notin Mantissa THEN Overflow ELSE n

(* The accumulator is a float, as it was once.                             *)
AddRounding(type, acc, c) ==
    IF IsNullCell(c) \/ acc.sum = Overflow THEN acc
    ELSE [count |-> acc.count + 1,
          sum |-> IF acc.count = 0 THEN Num(type, c)
                  ELSE IF type \in {"sint", "uint"} THEN AsF64(acc.sum + c)
                  ELSE Checked(type, Plus(type, acc.sum, Num(type, c)))]

(* One more cell of a group.                                               *)
AddCell(type, acc, c) ==
    IF IsNullCell(c) \/ acc.sum = Overflow THEN acc
    ELSE [count |-> acc.count + 1,
          sum |-> IF acc.count = 0 THEN Num(type, c)
                  ELSE Checked(type, Plus(type, acc.sum, Num(type, c)))]

SumAndCount(name, rows) ==
    FoldLeft(LAMBDA acc, r : AddCell(batch.types[name], acc, batch.rows[r][name]),
             [sum |-> NullCell, count |-> 0], rows)

(* A cell of build_sum_column: an integer sum has to fit 64 bits again. *)
SumCell(type, s) ==
    IF /\ s.count # 0 /\ s.sum # Overflow
       /\ \/ type = "sint" /\ s.sum \notin Int64
          \/ type = "uint" /\ s.sum \notin U64
    THEN Overflow ELSE s.sum

Toward0(m, n) == IF m >= 0 THEN m \div n ELSE -((-m) \div n)

(* The quotient of two floats is left undivided.                           *)
MeanCell(type, s) ==
    IF s.count = 0 \/ s.sum = Overflow THEN s.sum
    ELSE IF type = "decimal" THEN Toward0(s.sum, s.count)
    ELSE IF type = "float" THEN <<s.sum, s.count>>
    ELSE Quotient(AsF64(s.sum), s.count)

(* A candidate replaces the best cell so far only if it is strictly better. *)
Better(func, c, best) == IF func = "min" THEN c < best ELSE c > best
BestCell(func, name, rows) ==
    FoldLeft(LAMBDA best, r :
                 LET c == batch.rows[r][name]
                 IN  IF ~ IsNullCell(c) /\ (best = NullCell \/ Better(func, c, best))
                     THEN c ELSE best,
             NullCell, rows)

NonNull(name, rows) ==
    Cardinality({k \in DOMAIN rows : ~ IsNullCell(batch.rows[rows[k]][name])})

Cell(agg, rows) ==
    LET type == batch.types[agg.column]
    IN  CASE agg.func = "count" -> NonNull(agg.column, rows)
          [] agg.func = "sum" -> SumCell(type, SumAndCount(agg.column, rows))
          [] agg.func = "mean" -> MeanCell(type, SumAndCount(agg.column, rows))
          [] OTHER -> BestCell(agg.func, agg.column, rows)

OutType(agg) ==
    LET type == batch.types[agg.column]
    IN  CASE agg.func = "count" -> "sint"
          [] agg.func = "mean" /\ type # "decimal" -> "float"
          [] OTHER -> type

(* What a column of a type can hold; of floats it is anything. *)
Holds(type, c) ==
    \/ c = NullCell
    \/ type = "sint" /\ c \in Int64
    \/ type = "uint" /\ c \in U64
    \/ type = "decimal" /\ c \in Mantissa
    \/ type \notin {"sint", "uint", "decimal"} /\ c # Overflow

KernelTypeOK ==
    /\ stage \in {"resolve", "check", "group", "reduce", "returned", "failed"}
    /\ rows_per_group \in Seq(Seq(1..next))
    /\ next \in 0..Len(batch.rows)
    /\ error \in {"none", "UnknownColumn", "UnsupportedType", "Config", "Overflow",
                  "SchemaMismatch"}
    /\ \A k \in DOMAIN out_columns :
          LET column == out_columns[k]
          IN  /\ Len(column.cells) = Len(rows_per_group)
              /\ \A g \in DOMAIN column.cells : Holds(column.type, column.cells[g])

-----------------------------------------------------------------------------
KeyOf(i) == [k \in DOMAIN request.group_by |-> batch.rows[i][request.group_by[k]]]

KernelInit ==
    /\ stage = "resolve"
    /\ batch \in Batches
    /\ request \in Calls
    /\ rows_per_group = <<>>
    /\ next = 0
    /\ out_columns = <<>>
    /\ error = "none"

Fail(e) ==
    /\ stage' = "failed"
    /\ error' = e
    /\ UNCHANGED <<call, rows_per_group, next, out_columns>>

Known(name) == name \in DOMAIN batch.types

ResolveGroupBy ==
    /\ stage = "resolve"
    /\ IF \A k \in DOMAIN request.group_by : Known(request.group_by[k])
       THEN /\ stage' = "check"
            /\ UNCHANGED <<call, rows_per_group, next, out_columns, error>>
       ELSE Fail("UnknownColumn")

Aggregable(agg) == agg.func = "count" \/ batch.types[agg.column] \in Numeric

(* The first aggregation that cannot be computed is the error. *)
CheckAggregations ==
    /\ stage = "check"
    /\ LET bad == {k \in DOMAIN request.aggs :
                      LET agg == request.aggs[k]
                      IN  ~ Known(agg.column) \/ ~ Aggregable(agg)}
       IN  IF bad = {}
           THEN /\ stage' = "group"
                /\ UNCHANGED <<call, rows_per_group, next, out_columns, error>>
           ELSE Fail(IF Known(request.aggs[Min(bad)].column)
                     THEN "UnsupportedType" ELSE "UnknownColumn")

(* No grouping: all rows, even none, are one group. *)
GroupAll ==
    /\ stage = "group" /\ request.group_by = <<>>
    /\ rows_per_group' = <<[i \in DOMAIN batch.rows |-> i]>>
    /\ next' = Len(batch.rows)
    /\ stage' = "reduce"
    /\ UNCHANGED <<call, out_columns, error>>

(* The row encoder does not take every type. *)
Encodable ==
    \A k \in DOMAIN request.group_by : batch.types[request.group_by[k]] \in RowConvertible

NoRowEncoding ==
    /\ stage = "group" /\ ~ Encodable
    /\ Fail("Config")

(* A group is looked for at the end of the list only. *)
GroupRowAdjacent ==
    /\ stage = "group" /\ request.group_by # <<>> /\ Encodable /\ next < Len(batch.rows)
    /\ LET row == next + 1
           same == {g \in DOMAIN rows_per_group :
                       g = Len(rows_per_group) /\ KeyOf(rows_per_group[g][1]) = KeyOf(row)}
       IN  rows_per_group' = IF same = {} THEN Append(rows_per_group, <<row>>)
                             ELSE [g \in DOMAIN rows_per_group |->
                                     IF g \in same THEN Append(rows_per_group[g], row)
                                     ELSE rows_per_group[g]]
    /\ next' = next + 1
    /\ UNCHANGED <<stage, call, out_columns, error>>

(* The next row joins the group of its key's encoding, or opens one; the   *)
(* group_index is read off the first rows of the groups.                   *)
GroupRow ==
    /\ stage = "group" /\ request.group_by # <<>> /\ Encodable /\ next < Len(batch.rows)
    /\ LET row == next + 1
           same == {g \in DOMAIN rows_per_group : KeyOf(rows_per_group[g][1]) = KeyOf(row)}
       IN  rows_per_group' = IF same = {} THEN Append(rows_per_group, <<row>>)
                             ELSE [g \in DOMAIN rows_per_group |->
                                     IF g \in same THEN Append(rows_per_group[g], row)
                                     ELSE rows_per_group[g]]
    /\ next' = next + 1
    /\ UNCHANGED <<stage, call, out_columns, error>>

(* All rows are grouped: the key columns of the output are taken from the  *)
(* first row of every group.                                               *)
TakeKeys ==
    /\ stage = "group" /\ request.group_by # <<>> /\ Encodable /\ next = Len(batch.rows)
    /\ out_columns' =
          [k \in DOMAIN request.group_by |->
              [name |-> request.group_by[k], type |-> batch.types[request.group_by[k]],
               cells |-> [g \in DOMAIN rows_per_group |->
                             batch.rows[rows_per_group[g][1]][request.group_by[k]]]]]
    /\ stage' = "reduce"
    /\ UNCHANGED <<call, rows_per_group, next, error>>

(* The aggregation whose column is to be computed next. *)
Current == request.aggs[Len(out_columns) - Len(request.group_by) + 1]
Computed == Len(out_columns) = Len(request.group_by) + Len(request.aggs)

(* One aggregation, over all groups; an overflow in one of them is the end. *)
Reduce ==
    /\ stage = "reduce" /\ ~ Computed
    /\ LET cells == [g \in DOMAIN rows_per_group |-> Cell(Current, rows_per_group[g])]
       IN  IF \E g \in DOMAIN cells : cells[g] = Overflow
           THEN Fail("Overflow")
           ELSE /\ out_columns' = Append(out_columns, [name |-> Current.alias,
                                     type |-> OutType(Current), cells |-> cells])
                /\ UNCHANGED <<stage, call, rows_per_group, next, error>>

(* A batch has at least one column. *)
FinishBatch ==
    /\ stage = "reduce" /\ Computed
    /\ IF out_columns = <<>> THEN Fail("SchemaMismatch")
       ELSE /\ stage' = "returned"
            /\ UNCHANGED <<call, rows_per_group, next, out_columns, error>>

Returned == stage \in {"returned", "failed"} /\ UNCHANGED kernelVars

KernelNext ==
    \/ ResolveGroupBy \/ CheckAggregations \/ GroupAll \/ NoRowEncoding \/ GroupRow
    \/ TakeKeys \/ Reduce \/ FinishBatch \/ Returned

KernelSpec == KernelInit /\ [][KernelNext]_kernelVars
-----------------------------------------------------------------------------
(* The sequence s lists the set S of row numbers, in the order of the rows. *)
InOrder(s, S) ==
    /\ {s[k] : k \in DOMAIN s} = S
    /\ \A k, l \in DOMAIN s : k < l => s[k] < s[l]

(* The rows of the first n that are the first of their key, those of a key. *)
FirstOfKey(n) == {i \in 1..n : \A j \in 1..(i - 1) : KeyOf(j) # KeyOf(i)}
RowsLike(r, n) == {i \in 1..n : KeyOf(i) = KeyOf(r)}

(* After every row, each row so far is in exactly one group, with exactly  *)
(* the rows of its key, and the groups are in first-seen order             *)
(* (aggregate.rs, lines 412 to 414); a call without keys has one group,    *)
(* also of no rows (lines 408 to 412).                                     *)
GroupedSoFar ==
    IF request.group_by # <<>>
    THEN /\ InOrder([g \in DOMAIN rows_per_group |-> rows_per_group[g][1]], FirstOfKey(next))
         /\ \A g \in DOMAIN rows_per_group :
               InOrder(rows_per_group[g], RowsLike(rows_per_group[g][1], next))
    ELSE stage = "reduce" => /\ Len(rows_per_group) = 1
                          /\ InOrder(rows_per_group[1], DOMAIN batch.rows)

(* The non-null rows of a group and what their cells make, from the set of *)
(* the group's rows.                                                       *)
Rows(g, name) ==
    {i \in ToSet(rows_per_group[g]) : ~ IsNullCell(batch.rows[i][name])}
Total(S, name) == MapThenSumSet(LAMBDA i : batch.rows[i][name], S)

(* The sequence s has the cell of each of the rows S at the row's rank. *)
Addends(s, S, name) ==
    /\ DOMAIN s = 1..Cardinality(S)
    /\ \A i \in S : s[Cardinality({j \in S : j <= i})] = batch.rows[i][name]

(* A sum or mean of the rows S cannot be said: the total leaves the output *)
(* column, or, of a decimal, a running total leaves the mantissa.          *)
Unrepresentable(agg, S) ==
    LET type == batch.types[agg.column]
    IN  \/ agg.func = "sum" /\ type = "sint" /\ Total(S, agg.column) \notin Int64
        \/ agg.func = "sum" /\ type = "uint" /\ Total(S, agg.column) \notin U64
        \/ /\ agg.func \in Sums /\ type = "decimal"
           /\ \E n \in S : Total({i \in S : i <= n}, agg.column) \notin Mantissa

(* Once the columns are accepted and the rows grouped, the call fails with *)
(* Overflow exactly if a sum or mean of some group cannot be represented;  *)
(* integers overflow by their totals, whatever the order of the rows, and  *)
(* a mean of integers never (aggregate.rs, lines 231 to 234).              *)
OverflowIsExact ==
    stage \in {"returned", "failed"} /\ error \in {"none", "Overflow"} =>
        (error = "Overflow" <=>
            \E k \in DOMAIN request.aggs, g \in DOMAIN rows_per_group :
                Unrepresentable(request.aggs[k], Rows(g, request.aggs[k].column)))

(* The cell c is what agg promises of the non-null rows S of a group.      *)
Promised(agg, S, c) ==
    LET type == batch.types[agg.column]
        n == Cardinality(S)
        values == {batch.rows[i][agg.column] : i \in S}
        sum == Total(S, agg.column)
    IN  IF agg.func = "count" THEN c = n
        ELSE IF S = {} THEN c = NullCell
        ELSE /\ agg.func = "min" => c \in values /\ \A v \in values : c <= v
             /\ agg.func = "max" => c \in values /\ \A v \in values : c >= v
             /\ agg.func = "sum" =>
                    IF type = "float" THEN Addends(c, S, agg.column) ELSE c = sum
             /\ agg.func = "mean" /\ type = "float" =>
                    c[2] = n /\ Addends(c[1], S, agg.column)
             /\ agg.func = "mean" /\ type = "decimal" =>
                    c * n \in IF sum >= 0 THEN (sum - n + 1)..sum ELSE sum..(sum + n - 1)
             /\ agg.func = "mean" /\ type \in {"sint", "uint"} => c = Quotient(AsF64(sum), n)

(* A returned batch has, for every group and aggregation, the cell that a  *)
(* reduction of the set of the group's rows gives: nulls are left out, a   *)
(* group of nulls is null (and counts 0), integers are summed exactly, a   *)
(* mean of integers rounds the total and the quotient and nothing before,  *)
(* and a decimal's mean is cut towards zero (aggregate.rs, lines 49 to 72  *)
(* and 210 to 214).                                                        *)
CellsAreExact ==
    stage = "returned" =>
        \A k \in DOMAIN request.aggs, g \in DOMAIN rows_per_group :
            Promised(request.aggs[k], Rows(g, request.aggs[k].column),
                     out_columns[Len(request.group_by) + k].cells[g])

(* "Non-null values in the group. Works on any column type" (aggregate.rs, *)
(* line 50): a null is not counted.                                        *)
CountsNonNull ==
    stage = "returned" =>
        \A k \in DOMAIN request.aggs, g \in DOMAIN rows_per_group :
            LET agg == request.aggs[k]
            IN  agg.func = "count" =>
                    out_columns[Len(request.group_by) + k].cells[g] =
                    Cardinality({i \in ToSet(rows_per_group[g]) :
                                    batch.rows[i][agg.column] \notin {NullCell, Hidden}})
=============================================================================
