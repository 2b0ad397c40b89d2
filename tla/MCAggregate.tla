----------------------------- MODULE MCAggregate -----------------------------
EXTENDS Aggregate

CONSTANT MaxRows    \* bound on the rows of a batch

(* Four-bit columns; a float has two bits of mantissa and one hidden. *)
MCInt64 == (-8)..7
MCU64 == 0..15

(* Three is the rank of a NaN, which total_cmp puts above all numbers. *)
Cells == [sint |-> {-5, 6, 7, NullCell}, uint |-> {6, 9, NullCell}, float |-> {1, 3, NullCell},
          decimal |-> {-5, 6, NullCell}, null |-> {Hidden}, map |-> {"m"}]

BatchesOf(type, n) ==
    {[types |-> [k |-> "utf8", v |-> type], rows |-> rows] :
        rows \in [1..n -> [k : {"a", "b"}, v : Cells[type]]]}
MCBatches == UNION {BatchesOf(type, n) : type \in DOMAIN Cells, n \in 0..MaxRows}
NullBatches == UNION {BatchesOf("null", n) : n \in 0..MaxRows}

Agg(func, column) == [func |-> func, column |-> column, alias |-> func]
Of(group_by, aggs) == [group_by |-> group_by, aggs |-> aggs]
MCCalls ==
    {Of(<<"k">>, <<Agg("count", "v"), Agg("sum", "v")>>),
     Of(<<"k">>, <<Agg("mean", "v"), Agg("min", "v")>>),
     Of(<<>>, <<Agg("mean", "v"), Agg("max", "v"), Agg("count", "k")>>),
     Of(<<"v", "k">>, <<Agg("sum", "v")>>),
     Of(<<"k">>, <<Agg("count", "x"), Agg("sum", "k")>>),
     Of(<<"k">>, <<Agg("min", "k"), Agg("sum", "x")>>),
     Of(<<"k", "x">>, <<Agg("sum", "v")>>),
     Of(<<"v">>, <<>>), Of(<<>>, <<>>)}
CountV == {Of(<<"k">>, <<Agg("count", "v")>>)}
=============================================================================
