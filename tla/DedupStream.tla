---------------------------- MODULE DedupStream ----------------------------
(***************************************************************************)
(* The Spark side of drop_duplicates (python/witchhat/spark.py): the       *)
(* generator that runs in one task over one partition, filtering one Arrow *)
(* batch after another against an index that lives as long as the task.    *)
(*                                                                         *)
(* The partition is one sequence of rows, cut into batches as the task     *)
(* pulls them.  A row stands for the requested columns' cells; PyEqual     *)
(* says which rows Python's == on tuples of cells holds equal, which is    *)
(* not identity: 0.0 equals -0.0 and a NaN does not equal itself.          *)
(***************************************************************************)
EXTENDS Integers, Sequences, FiniteSets

CONSTANTS
    Row,            \* rows, told apart by the bytes of the requested columns
    Hash,           \* hash values
    HashOf,         \* HashOf[r]: hash_rows of row r
    PyEqual,        \* the pairs of rows that compare equal as Python tuples
    Inputs,         \* the partitions considered, sequences of rows
    Hashable,       \* the columns whose Arrow type has a defined hash
    Requests,       \* the column lists a caller may ask for (as sets of names)
    NoLimit,        \* max_distinct_keys=None
    Limits,         \* the values of max_distinct_keys a caller may pass
    MaxBatches      \* bound: empty batches come only before this many batches

ASSUME StreamAssumption ==
    /\ HashOf \in [Row -> Hash]
    /\ IsFiniteSet(Hash)                    \* u64 values
    /\ Inputs \subseteq Seq(Row)
    /\ NoLimit \notin Nat
    /\ Limits \subseteq Nat \cup {NoLimit}
    /\ MaxBatches \in Nat

(* Python's == is symmetric and transitive on cells of one type, and cells *)
(* it holds equal hash alike: hash.rs canonicalizes -0.0 to 0.0.           *)
ASSUME PyEqualAssumption ==
    /\ \A a, b \in Row : <<a, b>> \in PyEqual =>
          <<b, a>> \in PyEqual /\ HashOf[a] = HashOf[b]
    /\ \A a, b, c \in Row : <<a, b>> \in PyEqual /\ <<b, c>> \in PyEqual
          => <<a, c>> \in PyEqual

VARIABLES
    pc,         \* "pull", "scan", "yielded", "returned", "raised" or "closed"
    input,      \* the rows of the partition
    columns,    \* the requested columns
    limit,      \* max_distinct_keys
    size,       \* rows in the batch at hand; 0 between batches
    keep,       \* verdicts on the batch at hand, one per scanned row
    seen,       \* hash -> keys seen with that hash; <<>> where the dict has none
    stats,      \* the counters shared with the metrics event
    out         \* positions of the rows yielded so far

vars == <<pc, input, columns, limit, size, keep, seen, stats, out>>

TypeOK ==
    /\ pc \in {"pull", "scan", "yielded", "returned", "raised", "closed"}
    /\ input \in Seq(Row)
    /\ columns \in Requests
    /\ limit \in Limits
    /\ seen \in [Hash -> Seq(Row)]
    /\ stats \in [batches_in : Nat, rows_in : Nat, rows_out : Nat,
                  distinct_keys : Nat]
    /\ size \in 0..stats.rows_in
    /\ stats.rows_in <= Len(input)
    /\ keep \in Seq(BOOLEAN)
    /\ Len(keep) <= size
    /\ out \subseteq 1..(stats.rows_in - size)

-----------------------------------------------------------------------------
(* The rows of earlier batches; the batch at hand comes right after them. *)
start == stats.rows_in - size

(* The hash taken for the key itself. *)
HashDecides(bucket, key) == bucket # <<>>

(* `key in bucket`. *)
InBucket(bucket, key) ==
    \E k \in 1..Len(bucket) : <<bucket[k], key>> \in PyEqual

(* len(seen): the number of hashes, whatever the length of their buckets. *)
LenSeen == Cardinality({h \in Hash : seen[h] # <<>>})

Init ==
    /\ pc = "pull"
    /\ input \in Inputs
    /\ columns \in Requests
    /\ limit \in Limits
    /\ size = 0
    /\ keep = <<>>
    /\ seen = [h \in Hash |-> <<>>]
    /\ stats = [batches_in |-> 0, rows_in |-> 0, rows_out |-> 0,
                distinct_keys |-> 0]
    /\ out = {}

PullEmpty ==
    /\ pc = "pull"
    /\ stats.batches_in < MaxBatches
    /\ stats' = [stats EXCEPT !.batches_in = @ + 1]
    /\ UNCHANGED <<pc, input, columns, limit, size, keep, seen, out>>

(* The index starts again with every batch. *)
PullForgetful ==
    /\ pc = "pull"
    /\ \E n \in 1..(Len(input) - stats.rows_in) :
          /\ size' = n
          /\ stats' = [stats EXCEPT !.batches_in = @ + 1, !.rows_in = @ + n]
    /\ seen' = [h \in Hash |-> <<>>]
    /\ pc' = IF columns \subseteq Hashable THEN "scan" ELSE "raised"
    /\ UNCHANGED <<input, columns, limit, keep, out>>

(* The next n rows arrive as a batch and are hashed; an unknown column or  *)
(* one that cannot be hashed ends the task.                                *)
Pull ==
    /\ pc = "pull"
    /\ \E n \in 1..(Len(input) - stats.rows_in) :
          /\ size' = n
          /\ stats' = [stats EXCEPT !.batches_in = @ + 1, !.rows_in = @ + n]
    /\ pc' = IF columns \subseteq Hashable THEN "scan" ELSE "raised"
    /\ UNCHANGED <<input, columns, limit, keep, seen, out>>

(* One turn of the inner loop: a new hash, a key already seen, or a new    *)
(* key under a known hash.                                                 *)
ScanRow ==
    /\ pc = "scan"
    /\ Len(keep) < size
    /\ LET key == input[start + Len(keep) + 1]
           h   == HashOf[key]
       IN  IF InBucket(seen[h], key)
           THEN keep' = Append(keep, FALSE) /\ UNCHANGED seen
           ELSE /\ keep' = Append(keep, TRUE)
                /\ seen' = [seen EXCEPT ![h] = Append(@, key)]
    /\ UNCHANGED <<pc, input, columns, limit, size, stats, out>>

(* The count of the previous batch, compared before it is brought up to date. *)
OverLimitLate == limit # NoLimit /\ stats.distinct_keys > limit

(* The limit is checked once the whole batch is in the index. *)
OverLimit == limit # NoLimit /\ LenSeen > limit

RaiseMemoryError ==
    /\ pc = "scan"
    /\ Len(keep) = size
    /\ OverLimit
    /\ pc' = "raised"
    /\ stats' = [stats EXCEPT !.distinct_keys = LenSeen]
    /\ UNCHANGED <<input, columns, limit, size, keep, seen, out>>

(* The rows of the batch at hand that are kept. *)
Kept == {p \in (start + 1)..(start + size) : keep[p - start]}

(* rows_out says how many rows the last batch kept, not how many left. *)
YieldOverwriting ==
    /\ pc = "scan"
    /\ Len(keep) = size
    /\ ~ OverLimit
    /\ out' = out \cup Kept
    /\ stats' = [stats EXCEPT !.distinct_keys = LenSeen, !.rows_out = Cardinality(Kept)]
    /\ size' = 0
    /\ keep' = <<>>
    /\ pc' = "yielded"
    /\ UNCHANGED <<input, columns, limit, seen>>

(* The filtered batch leaves the task; its locals are dead from here on. *)
Yield ==
    /\ pc = "scan"
    /\ Len(keep) = size
    /\ ~ OverLimit
    /\ out' = out \cup Kept
    /\ stats' = [stats EXCEPT !.distinct_keys = LenSeen,
                              !.rows_out = @ + Cardinality(Kept)]
    /\ size' = 0
    /\ keep' = <<>>
    /\ pc' = "yielded"
    /\ UNCHANGED <<input, columns, limit, seen>>

(* The consumer asks for the next batch, or never does (a LIMIT is met). *)
Resume ==
    /\ pc = "yielded"
    /\ pc' = "pull"
    /\ UNCHANGED <<input, columns, limit, size, keep, seen, stats, out>>

Close ==
    /\ pc = "yielded"
    /\ pc' = "closed"
    /\ UNCHANGED <<input, columns, limit, size, keep, seen, stats, out>>

Exhausted ==
    /\ pc = "pull"
    /\ stats.rows_in = Len(input)
    /\ pc' = "returned"
    /\ UNCHANGED <<input, columns, limit, size, keep, seen, stats, out>>

Ended == pc \in {"returned", "raised", "closed"} /\ UNCHANGED vars

Next ==
    \/ PullEmpty \/ Pull \/ ScanRow \/ RaiseMemoryError \/ Yield
    \/ Resume \/ Close \/ Exhausted \/ Ended

Spec == Init /\ [][Next]_vars

-----------------------------------------------------------------------------
(* Position p has been scanned and its row kept. *)
KeptAt(p) == IF p <= start THEN p \in out ELSE keep[p - start]

(* Verdicts are right across batches: a row is kept exactly when no row    *)
(* before it in the partition, in this batch or an earlier one, is equal   *)
(* to it as a Python tuple.                                                *)
VerdictsSpanBatches ==
    \A p \in 1..(start + Len(keep)) :
        KeptAt(p) <=> \A q \in 1..(p - 1) : <<input[q], input[p]>> \notin PyEqual

(* However Spark cuts the partition into batches, and wherever the run is  *)
(* closed or raises, the yielded rows are the first occurrences in the     *)
(* part of the partition judged so far.                                    *)
Abstract == INSTANCE FirstOccurrence WITH
    Same   <- PyEqual,
    judged <- start,
    status <- CASE pc = "returned" -> "complete"
                [] pc = "raised" -> "failed"
                [] OTHER -> "running"

ImplementsFirstOccurrence == Abstract!Spec

(* What max_distinct_keys does bound: no batch leaves the task once rows   *)
(* with more than that many hashes have been pulled.                       *)
YieldedHashesWithinLimit ==
    limit # NoLimit => Cardinality({HashOf[input[p]] : p \in out}) <= limit

(* The counters the metrics event is filled from describe the rows that    *)
(* crossed the task, however they were batched.                            *)
StatsDescribeStream ==
    pc # "scan" =>
        /\ stats.rows_out = Cardinality(out)
        /\ pc # "raised" => stats.distinct_keys =
              Cardinality({HashOf[input[p]] : p \in 1..stats.rows_in})

(* witchhat.drop_duplicates "applied per partition, streaming" (spark.py,  *)
(* line 290): when the stream ends it has kept the rows the kernel keeps   *)
(* when it is given the whole partition at once.                           *)
AgreesWithKernel ==
    pc = "returned" =>
        out = {p \in 1..Len(input) : \A q \in 1..(p - 1) : input[q] # input[p]}

(* "max_distinct_keys raises MemoryError if a partition's distinct-key     *)
(* count would exceed it" (spark.py, lines 306 and 307): no stream goes on *)
(* with more keys in its index than the limit allows.                      *)
KeysWithinLimit ==
    limit # NoLimit /\ pc = "yielded" => Cardinality(out) <= limit
=============================================================================
