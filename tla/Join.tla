-------------------------------- MODULE Join --------------------------------
(***************************************************************************)
(* join and join_null_safe of the Rust kernel (witchhat-core/src/join.rs): *)
(* an index from key bytes to rows is built over the right side, the left  *)
(* side probes it row by row, and outer joins then sweep up what was never *)
(* matched.  Null keys are kept out of the index and of the probing unless *)
(* the caller asks for null-safe matching; a key counts as null there if   *)
(* one of its columns' null buffers says so.                               *)
(***************************************************************************)
EXTENDS JoinResult

CONSTANTS
    IsNull,     \* the keys with a column c for which c.is_null holds
    Lefts,      \* the left and right sides considered, sequences of keys
    Rights,
    LeftTypes,  \* the columns of either side with their Arrow types
    RightTypes,
    Requests    \* the pairs of key column lists a caller may ask for

ASSUME JoinAssumption ==
    /\ IsNull \subseteq Key
    /\ Lefts \subseteq Seq(Key)
    /\ Rights \subseteq Seq(Key)

VARIABLES
    pc,         \* "check", "index", "probe", "sweep", "done" or "error"
    left,
    right,
    keys,       \* left_keys and right_keys
    how,
    nullSafe,
    next,       \* the rows of the phase at hand that are dealt with
    index,      \* bytes -> right rows with a key of those bytes, in order
    matched,    \* the right rows matched so far (right_matched)
    out         \* left_out and right_out, as one sequence of pairs

vars == <<pc, left, right, keys, how, nullSafe, next, index, matched, out>>
call == <<left, right, keys, how, nullSafe>>

Bytes == {Code[k] : k \in Key}

TypeOK ==
    /\ pc \in {"check", "index", "probe", "sweep", "done", "error"}
    /\ left \in Seq(Key) /\ right \in Seq(Key)
    /\ keys \in Requests
    /\ how \in Hows
    /\ nullSafe \in BOOLEAN
    /\ next \in Nat
    /\ index \in [Bytes -> Seq(1..Len(right))]
    /\ matched \subseteq 1..Len(right)
    /\ out \in Seq((0..Len(left)) \X (0..Len(right)))

-----------------------------------------------------------------------------
(* Same non-zero length, columns that exist, pairwise equal types. *)
WellFormed ==
    LET lk == keys[1] rk == keys[2]
    IN  /\ lk # <<>> /\ Len(lk) = Len(rk)
        /\ \A k \in 1..Len(lk) :
              /\ lk[k] \in DOMAIN LeftTypes /\ rk[k] \in DOMAIN RightTypes
              /\ LeftTypes[lk[k]] = RightTypes[rk[k]]

(* left_null and right_null. *)
Skipped(key) == ~ nullSafe /\ key \in IsNull

Init ==
    /\ pc = "check"
    /\ left \in Lefts
    /\ right \in Rights
    /\ keys \in Requests
    /\ how \in Hows
    /\ nullSafe \in BOOLEAN
    /\ next = 0
    /\ index = [b \in Bytes |-> <<>>]
    /\ matched = {}
    /\ out = <<>>

CheckKeys ==
    /\ pc = "check"
    /\ pc' = IF WellFormed THEN "index" ELSE "error"
    /\ UNCHANGED <<call, next, index, matched, out>>

(* row_index takes in one more right row. *)
IndexRow ==
    /\ pc = "index"
    /\ next < Len(right)
    /\ LET key == right[next + 1]
       IN  index' = IF Skipped(key) THEN index
                    ELSE [index EXCEPT ![Code[key]] = Append(@, next + 1)]
    /\ next' = next + 1
    /\ UNCHANGED <<call, pc, matched, out>>

Indexed ==
    /\ pc = "index"
    /\ next = Len(right)
    /\ pc' = "probe"
    /\ next' = 0
    /\ UNCHANGED <<call, index, matched, out>>

(* One left row and all its matches; index.get on a skipped row is None. *)
ProbeRow ==
    /\ pc = "probe"
    /\ next < Len(left)
    /\ LET li == next + 1
           hits == IF Skipped(left[li]) THEN <<>> ELSE index[Code[left[li]]]
       IN  /\ out' = IF hits # <<>>
                     THEN out \o [k \in 1..Len(hits) |-> <<li, hits[k]>>]
                     ELSE IF how \in {"left", "full"} THEN Append(out, <<li, 0>>)
                     ELSE out
           /\ matched' = matched \cup {hits[k] : k \in 1..Len(hits)}
    /\ next' = next + 1
    /\ UNCHANGED <<call, pc, index>>

(* Right and full joins go on to the right rows that were never matched. *)
Probed ==
    /\ pc = "probe"
    /\ next = Len(left)
    /\ pc' = IF how \in {"right", "full"} THEN "sweep" ELSE "done"
    /\ next' = 0
    /\ UNCHANGED <<call, index, matched, out>>

(* Only right rows with a usable key are looked at. *)
SweepIndexed ==
    /\ pc = "sweep"
    /\ next < Len(right)
    /\ out' = IF next + 1 \in matched \/ Skipped(right[next + 1]) THEN out
              ELSE Append(out, <<0, next + 1>>)
    /\ next' = next + 1
    /\ UNCHANGED <<call, pc, index, matched>>

SweepRow ==
    /\ pc = "sweep"
    /\ next < Len(right)
    /\ out' = IF next + 1 \in matched THEN out ELSE Append(out, <<0, next + 1>>)
    /\ next' = next + 1
    /\ UNCHANGED <<call, pc, index, matched>>

Swept ==
    /\ pc = "sweep"
    /\ next = Len(right)
    /\ pc' = "done"
    /\ UNCHANGED <<call, next, index, matched, out>>

Returned == pc \in {"done", "error"} /\ UNCHANGED vars

Next ==
    \/ CheckKeys \/ IndexRow \/ Indexed \/ ProbeRow \/ Probed
    \/ SweepRow \/ Swept \/ Returned

Spec == Init /\ [][Next]_vars

-----------------------------------------------------------------------------
(* The result is the join, for every how and either treatment of nulls:    *)
(* every pair of matching rows once, every row an outer join preserves     *)
(* beside nulls exactly when it has no match, in the documented row order  *)
(* (join.rs, lines 96 to 103 and 112 to 115).                              *)
OutputIsJoin == pc = "done" => Lists(out, JoinOf(left, right, how, nullSafe))

(* The name a right column has in the output. *)
OutputName(column) ==
    IF column \in DOMAIN LeftTypes THEN column \o "_right" ELSE column

(* "rather than raising or silently keeping a schema with a duplicate      *)
(* field name" (docs/architecture.md, lines 506 to 508).                   *)
OutputNamesDistinct ==
    pc = "done" => \A c, d \in DOMAIN RightTypes :
        /\ OutputName(c) \notin DOMAIN LeftTypes
        /\ OutputName(c) = OutputName(d) => c = d

(* "a row whose key has a null in any of left_keys (or right_keys) never   *)
(* matches another row" (join.rs, lines 96 and 97).                        *)
NullNeverMatches ==
    ~ nullSafe => \A k \in 1..Len(out) : out[k][1] # 0 /\ out[k][2] # 0 =>
        left[out[k][1]] \notin Nulled /\ right[out[k][2]] \notin Nulled
=============================================================================
