------------------------- MODULE MCAggregateStream -------------------------
EXTENDS AggregateStream

(* A four-bit Int64: two large values overflow it, an opposite brings the  *)
(* total back.                                                             *)
MCI64 == (-8)..7
MCValue == {-7, 1, 7}

MCRequests == {{"count", "sum", "min", "max"}, {"mean"}}
SumOnly == {{"sum"}}
MeanOnly == {{"mean"}}

(* Group keys that are plain for Python: strings, integers, nulls. *)
Plain == {"a", "b"}
Same == [g \in Plain |-> g]

(* Float group keys. *)
Floats == {"zero", "negzero", "nan"}
Zeros == [g \in Floats |-> IF g = "negzero" THEN "zero" ELSE g]
NaNs == {"nan"}
=============================================================================
