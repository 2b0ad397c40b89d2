----------------------------- MODULE MCRowLocal -----------------------------
(* Every value of up to four characters through every preset, and the     *)
(* three operations on partitions of up to two batches of up to two rows,  *)
(* over two columns, with names that are absent, doubled or taken.         *)
EXTENDS RowLocal

Str(name) == [name |-> name, type |-> "string", nullable |-> TRUE]
Number(name) == [name |-> name, type |-> "int32", nullable |-> FALSE]

Job(op, fields, batches, columns, output, cleaning) ==
    [op |-> op, version |-> "v1", fields |-> fields, batches |-> batches, columns |-> columns,
     output |-> output, cleaning |-> cleaning]

Upto(n, S) == UNION {[1..k -> S] : k \in 0..n}
Presets == {Preset[name] : name \in DOMAIN Preset}
Singles == {Job("clean", <<Str("a")>>, <<<<<<v>>>>>>, <<"a">>, Unnamed, p) :
                v \in Upto(4, Characters), p \in Presets}

Texts == {Null, <<"space", "letter">>}
Rows == [1..2 -> Texts]
Partitions == Upto(1, Upto(2, Rows)) \cup [1..2 -> Upto(1, Rows)]
Schemas == {<<Str("a"), Str("b")>>, <<Str("a"), Str("a")>>, <<Str("a"), Number("b")>>}

(* Two rules, the second of which undoes a part of the first. *)
SignThenTrim == <<[chars |-> {"letter"}, shape |-> "each", replacement |-> <<"tab", "sign">>]>>
                    \o Preset["trim_whitespace"]

Cleanings ==
    {Job("clean", fields, batches, <<column>>, output, cleaning) :
        fields \in Schemas, batches \in Partitions, column \in {"a", "b", "z"},
        output \in {Unnamed, "a", "c"},
        cleaning \in {Preset["trim_whitespace"], SignThenTrim, Invalid}}

Hashings ==
    {Job("hash_rows", fields, batches, columns, output, Invalid) :
        fields \in Schemas, batches \in Partitions,
        columns \in {<<"a">>, <<"b", "a">>, <<"z">>}, output \in {"b", "row_hash"}}

(* Those of one batch, of no rows, asking for a version that there is not. *)
Unversioned ==
    {[j EXCEPT !.version = "v0"] : j \in {k \in Cleanings \cup Hashings : k.batches = <<<<>>>>}}

MCJobs == Singles \cup Cleanings \cup Hashings \cup Unversioned
=============================================================================
