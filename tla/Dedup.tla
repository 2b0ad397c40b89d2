------------------------------- MODULE Dedup -------------------------------
(***************************************************************************)
(* drop_duplicates of the Rust kernel (witchhat-core/src/dedup.rs): rows   *)
(* are bucketed by their 64-bit hash, and a row is dropped only if its     *)
(* bucket already holds the same exact row encoding.                       *)
(*                                                                         *)
(* A row stands for its Encoding, the bytes arrow_row::RowConverter makes  *)
(* of the requested columns: two rows are the same exactly when those      *)
(* bytes are equal.  HashOf is hash_batch over the same columns; rows that *)
(* differ may share a hash, by accident or by float canonicalization.      *)
(***************************************************************************)
EXTENDS Integers, Sequences

CONSTANTS
    Encoding,   \* row encodings over the requested columns
    Hash,       \* hash values
    HashOf,     \* HashOf[r]: hash_batch of a row encoded as r
    Inputs,     \* the batches considered, sequences of rows
    Hashable,   \* the batch's columns whose Arrow type has a defined hash
    Requests    \* the column lists a caller may ask for (as sets of names)

ASSUME DedupAssumption ==
    /\ HashOf \in [Encoding -> Hash]
    /\ Inputs \subseteq Seq(Encoding)

VARIABLES
    pc,         \* "hash", "scan", "done", "error" or "panic"
    input,      \* the rows of the batch
    columns,    \* the requested columns
    buckets,    \* hash -> the rows kept so far with that hash
    keep,       \* the verdicts so far, one per scanned row
    out         \* positions of the rows in the returned batch

kernelVars == <<pc, input, columns, buckets, keep, out>>

KernelTypeOK ==
    /\ pc \in {"hash", "scan", "done", "error", "panic"}
    /\ input \in Seq(Encoding)
    /\ columns \in Requests
    /\ buckets \in [Hash -> Seq(Encoding)]
    /\ keep \in Seq(BOOLEAN)
    /\ Len(keep) <= Len(input)
    /\ out \subseteq 1..Len(input)

-----------------------------------------------------------------------------
(* Comparisons a careless bucket lookup could make instead: none at all, *)
(* or only with the row pushed last.                                     *)
HashDecides(bucket, row) == bucket # <<>>

LastDecides(bucket, row) == bucket # <<>> /\ bucket[Len(bucket)] = row

(* bucket.contains(&row). *)
InBucket(bucket, row) == \E k \in 1..Len(bucket) : bucket[k] = row

KernelInit ==
    /\ pc = "hash"
    /\ input \in Inputs
    /\ columns \in Requests
    /\ buckets = [h \in Hash |-> <<>>]
    /\ keep = <<>>
    /\ out = {}

(* hash_batch and the RowConverter: an unknown column, or one whose type *)
(* has no hash, is an error before any row is looked at.                 *)
HashRows ==
    /\ pc = "hash"
    /\ pc' = IF columns \subseteq Hashable THEN "scan" ELSE "error"
    /\ UNCHANGED <<input, columns, buckets, keep, out>>

(* With no columns at all the RowConverter yields no rows, whatever the  *)
(* batch holds, and rows.row(0) is out of its bounds.                    *)
RowOutOfBounds ==
    /\ pc = "scan"
    /\ columns = {}
    /\ Len(keep) < Len(input)
    /\ pc' = "panic"
    /\ UNCHANGED <<input, columns, buckets, keep, out>>

(* One turn of the keep loop: the hash picks the bucket, the bytes decide. *)
ScanRow ==
    /\ pc = "scan"
    /\ columns # {}
    /\ Len(keep) < Len(input)
    /\ LET row == input[Len(keep) + 1]
           h   == HashOf[row]
       IN  IF InBucket(buckets[h], row)
           THEN keep' = Append(keep, FALSE) /\ UNCHANGED buckets
           ELSE /\ keep' = Append(keep, TRUE)
                /\ buckets' = [buckets EXCEPT ![h] = Append(@, row)]
    /\ UNCHANGED <<pc, input, columns, out>>

Kept == {j \in 1..Len(keep) : keep[j]}

(* The batch is returned one row short. *)
FilterEarly ==
    /\ pc = "scan"
    /\ Len(keep) + 1 = Len(input)
    /\ pc' = "done"
    /\ out' = Kept
    /\ UNCHANGED <<input, columns, buckets, keep>>

(* filter_record_batch keeps the rows marked TRUE, in their order. *)
Filter ==
    /\ pc = "scan"
    /\ Len(keep) = Len(input)
    /\ pc' = "done"
    /\ out' = Kept
    /\ UNCHANGED <<input, columns, buckets, keep>>

Returned == pc \in {"done", "error", "panic"} /\ UNCHANGED kernelVars

KernelNext == HashRows \/ RowOutOfBounds \/ ScanRow \/ Filter \/ Returned

KernelSpec == KernelInit /\ [][KernelNext]_kernelVars

-----------------------------------------------------------------------------
(* Every verdict so far is right: a row is kept exactly when no earlier    *)
(* row has the same bytes.  A hash shared by two different rows never      *)
(* makes one of them a duplicate of the other (dedup.rs, lines 43 to 47).  *)
VerdictsAreExact ==
    \A j \in 1..Len(keep) :
        keep[j] <=> \A m \in 1..(j - 1) : input[m] # input[j]

(* The buckets are an index of the kept rows: a bucket holds each row with *)
(* its hash that has been seen, once, and nothing else.                    *)
BucketsIndexKeptRows ==
    \A h \in Hash : 
        /\ \A r \in Encoding : InBucket(buckets[h], r)
                <=> HashOf[r] = h /\ \E j \in 1..Len(keep) : keep[j] /\ input[j] = r
        /\ \A k, l \in 1..Len(buckets[h]) : buckets[h][k] = buckets[h][l] => k = l

(* The kernel is one way to do what FirstOccurrence promises, with the     *)
(* exact bytes as the notion of sameness: the whole batch is judged when   *)
(* the filtered batch is returned, and errors and panics publish nothing.  *)
Abstract == INSTANCE FirstOccurrence WITH
    Row    <- Encoding,
    Same   <- {<<r, r>> : r \in Encoding},
    judged <- IF pc = "done" THEN Len(input) ELSE 0,
    status <- CASE pc = "done" -> "complete"
                [] pc \in {"error", "panic"} -> "failed"
                [] OTHER -> "running"

ImplementsFirstOccurrence == Abstract!Spec

(* The documentation's claim "Does not panic." (dedup.rs, line 50). *)
NeverPanics == pc # "panic"
=============================================================================
