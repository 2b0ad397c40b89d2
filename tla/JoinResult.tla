----------------------------- MODULE JoinResult -----------------------------
(***************************************************************************)
(* What a join of two sequences of keys is, said without an algorithm.  A  *)
(* result row is a pair <<i, j>>: row i of the left side beside row j of   *)
(* the right side; 0 stands for the nulls beside a row without a match.    *)
(***************************************************************************)
EXTENDS Integers, Sequences

CONSTANTS
    Key,        \* the join keys, tuples of cells
    Code,       \* Code[k]: the bytes a RowConverter makes of k
    Nulled      \* the keys with a null in at least one column

ASSUME KeyAssumption ==
    /\ DOMAIN Code = Key
    /\ Nulled \subseteq Key

Hows == {"inner", "left", "right", "full"}

(* SQL: a null key matches nothing; null-safe: it matches the same null key. *)
Match(l, r, nullSafe) ==
    /\ Code[l] = Code[r]
    /\ nullSafe \/ (l \notin Nulled /\ r \notin Nulled)

Pairs(left, right, nullSafe) ==
    {p \in (1..Len(left)) \X (1..Len(right)) : Match(left[p[1]], right[p[2]], nullSafe)}

LeftOver(left, right, nullSafe) ==
    {<<i, 0>> : i \in {k \in 1..Len(left) :
        \A j \in 1..Len(right) : ~ Match(left[k], right[j], nullSafe)}}

RightOver(left, right, nullSafe) ==
    {<<0, j>> : j \in {k \in 1..Len(right) :
        \A i \in 1..Len(left) : ~ Match(left[i], right[k], nullSafe)}}

JoinOf(left, right, how, nullSafe) ==
    UNION {Pairs(left, right, nullSafe),
           IF how \in {"left", "full"} THEN LeftOver(left, right, nullSafe) ELSE {},
           IF how \in {"right", "full"} THEN RightOver(left, right, nullSafe) ELSE {}}

(* Left rows in their order, each with its matches in the order of the     *)
(* right side; then the unmatched right rows in theirs.                    *)
Before(p, q) ==
    \/ p[1] # 0 /\ (q[1] = 0 \/ p[1] < q[1])
    \/ p[1] = q[1] /\ p[2] < q[2]

(* s lists the rows of S, each once, in result order. *)
Lists(s, S) ==
    /\ {s[k] : k \in 1..Len(s)} = S
    /\ \A k, l \in 1..Len(s) : k < l => Before(s[k], s[l])
=============================================================================
