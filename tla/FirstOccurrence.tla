-------------------------- MODULE FirstOccurrence --------------------------
(***************************************************************************)
(* What "drop duplicates" promises, whichever engine does it: the rows of  *)
(* the input are judged in order, a row survives exactly when no earlier   *)
(* row is the same, and a judgement, once published, is never withdrawn.   *)
(* How many rows are judged at a time is left open: the Rust kernel        *)
(* publishes a whole batch in one step, the Spark partition stream one     *)
(* Arrow batch after another.                                              *)
(***************************************************************************)
EXTENDS Integers, Sequences

CONSTANTS
    Row,      \* rows, as far as the duplicate test can tell them apart
    Inputs,   \* the inputs considered, sequences of rows
    Same      \* the pairs of rows the operator promises to treat as equal

VARIABLES
    input,    \* the rows, in order
    judged,   \* rows 1..judged have a published verdict
    out,      \* positions of the published survivors
    status    \* "running", "complete" or "failed"

vars == <<input, judged, out, status>>

TypeOK ==
    /\ input \in Seq(Row)
    /\ judged \in 0..Len(input)
    /\ out \subseteq 1..judged
    /\ status \in {"running", "complete", "failed"}

-----------------------------------------------------------------------------
(* The position i of s is the first occurrence of its row. *)
IsFirst(s, i) == \A j \in 1..(i - 1) : <<s[j], s[i]>> \notin Same

(* The survivors among the first n rows of s. *)
Survivors(s, n) == {i \in 1..n : IsFirst(s, i)}

Init ==
    /\ input \in Inputs
    /\ judged = 0
    /\ out = {}
    /\ status = "running"

(* Publish the verdict of some more rows; the last ones may complete the run. *)
Publish ==
    /\ status = "running"
    /\ \E n \in judged..Len(input) :
          /\ judged' = n
          /\ out' = Survivors(input, n)
          /\ \/ status' = "running"
             \/ n = Len(input) /\ status' = "complete"
    /\ UNCHANGED input

(* Give up; what has been published stays published. *)
Fail ==
    /\ status = "running"
    /\ status' = "failed"
    /\ UNCHANGED <<input, judged, out>>

Next == Publish \/ Fail

Spec == Init /\ [][Next]_vars
=============================================================================
