---------------------------- MODULE MCSparkDedup ----------------------------
EXTENDS SparkDedup, SequencesExt

CONSTANT MaxRows    \* bound on the rows of the DataFrame

MCRow == {"zero", "negzero", "one"}
MCPyEqual == {<<r, r>> : r \in MCRow}
             \cup {<<"zero", "negzero">>, <<"negzero", "zero">>}
MCPartition == {"p0", "p1"}
MCRoute == [r \in MCRow |-> IF r \in {"zero", "negzero"} THEN "p0" ELSE "p1"]
(* Rows are judged in any order, so tables that differ in order alone are  *)
(* represented by the sorted one; duplicates of "one" would add nothing to *)
(* those of "zero".                                                        *)
Rank(r) == CASE r = "zero" -> 1 [] r = "negzero" -> 2 [] r = "one" -> 3
MCTables == {t \in BoundedSeq(MCRow, MaxRows) :
                \A i \in 1..(Len(t) - 1) :
                    \/ Rank(t[i]) < Rank(t[i + 1])
                    \/ t[i] = t[i + 1] /\ t[i] # "one"}
=============================================================================
