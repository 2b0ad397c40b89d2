--------------------------- MODULE MCDedupStream ---------------------------
(* One float key column; two of its values collide by accident. *)
EXTENDS DedupStream, SequencesExt

CONSTANT MaxRows    \* bound on the rows of a partition

MCRow == {"zero", "negzero", "nan", "one", "clash"}
MCHash == {"h0", "h1", "h2"}
MCHashOf == [r \in MCRow |-> CASE r \in {"zero", "negzero"} -> "h0"
                               [] r = "nan" -> "h1"
                               [] OTHER -> "h2"]
(* A NaN cell becomes a new float object in every batch: not equal, not identical. *)
MCPyEqual == {<<r, r>> : r \in MCRow \ {"nan"}}
             \cup {<<"zero", "negzero">>, <<"negzero", "zero">>}
MCInputs == BoundedSeq(MCRow, MaxRows)
MCHashable == {"id"}
MCRequests == {{"id"}, {"tags"}}
MCLimits == {NoLimit, 1, 2}
=============================================================================
