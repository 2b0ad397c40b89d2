---------------------------- MODULE DedupProofs ----------------------------
(***************************************************************************)
(* drop_duplicates.  First the kernel, for every set of row encodings,     *)
(* every hash function and every batch, of whatever length.  Then on a     *)
(* cluster, for every DataFrame, every number of partitions, attempts and  *)
(* tolerated failures, and every symmetric equality of keys that the       *)
(* shuffle respects.                                                       *)
(***************************************************************************)
EXTENDS Dedup, SparkDedup, TLAPS

(* What the loop maintains: each bucket lists, without repetition, exactly *)
(* the scanned rows with its hash.  Unlike BucketsIndexKeptRows it does    *)
(* not mention the verdicts, so a turn of the loop preserves it by itself. *)
BucketsIndexScannedRows ==
    \A h \in Hash : 
        /\ \A r \in Encoding : InBucket(buckets[h], r)
                <=> HashOf[r] = h /\ \E j \in 1..Len(keep) : input[j] = r
        /\ \A k, l \in 1..Len(buckets[h]) : buckets[h][k] = buckets[h][l] => k = l

(* Every scanned row has been kept, at its own place or before it. *)
NoRowIsLost ==
    \A j \in 1..Len(keep) : \E k \in 1..j : keep[k] /\ input[k] = input[j]

(* A batch is returned only when all of it has been judged. *)
ReturnedIsKept ==
    /\ pc = "done" => /\ Len(keep) = Len(input)
                      /\ out = Kept
    /\ pc # "done" => out = {}

KernelInv ==
    /\ KernelTypeOK
    /\ VerdictsAreExact
    /\ BucketsIndexScannedRows
    /\ NoRowIsLost
    /\ ReturnedIsKept

-----------------------------------------------------------------------------
(* Pushing a row onto a bucket makes it contain that row and nothing else  *)
(* that it did not contain before.                                         *)
LEMMA PushedRow ==
    ASSUME NEW b \in Seq(Encoding), NEW r \in Encoding, NEW x \in Encoding
    PROVE  InBucket(Append(b, r), x) <=> InBucket(b, x) \/ x = r
BY DEF InBucket

(* Pushing a row a bucket does not contain keeps its rows distinct. *)
LEMMA PushedDistinct ==
    ASSUME NEW b \in Seq(Encoding), NEW r \in Encoding, ~ InBucket(b, r),
           \A k, l \in 1..Len(b) : b[k] = b[l] => k = l
    PROVE  \A k, l \in 1..Len(Append(b, r)) :
              Append(b, r)[k] = Append(b, r)[l] => k = l
BY DEF InBucket

LEMMA InitKernel == KernelInit => KernelInv
BY DedupAssumption DEF KernelInit, KernelInv, KernelTypeOK, VerdictsAreExact,
   BucketsIndexScannedRows, NoRowIsLost, ReturnedIsKept, InBucket, Kept

(* One turn of the loop preserves the invariant. *)
LEMMA ScanRowKernel ==
    ASSUME KernelInv, ScanRow
    PROVE  KernelInv'
<1> DEFINE n == Len(keep) + 1
           row == input[n]
           h0 == HashOf[row]
           dup == InBucket(buckets[h0], row)
<1>1. /\ n \in 1..Len(input) /\ n \in Nat
      /\ row \in Encoding
      /\ h0 \in Hash
      /\ buckets[h0] \in Seq(Encoding)
  BY DedupAssumption DEF KernelInv, KernelTypeOK, ScanRow
<1>2. /\ keep' = Append(keep, ~dup)
      /\ Len(keep') = n
      /\ \A j \in 1..Len(keep) : keep'[j] = keep[j]
      /\ keep'[n] = ~dup
  <2>1. keep' = Append(keep, ~dup)
    BY DEF ScanRow
  <2> QED BY <2>1 DEF KernelInv, KernelTypeOK
<1>3. buckets' = [buckets EXCEPT ![h0] = IF dup THEN @ ELSE Append(@, row)]
  <2>1. CASE dup
    BY <1>1, <2>1 DEF ScanRow, KernelInv, KernelTypeOK
  <2>2. CASE ~dup
    BY <2>2 DEF ScanRow
  <2> QED BY <2>1, <2>2
<1>4. UNCHANGED <<pc, input, columns, out>> /\ pc = "scan"
  BY DEF ScanRow
<1>5. dup <=> \E j \in 1..Len(keep) : input[j] = row
  BY <1>1 DEF KernelInv, BucketsIndexScannedRows
<1> HIDE DEF dup
<1>6. KernelTypeOK'
  BY <1>1, <1>2, <1>3, <1>4 DEF KernelInv, KernelTypeOK
<1>7. VerdictsAreExact'
  <2> SUFFICES ASSUME NEW j \in 1..n
               PROVE  keep'[j] <=> \A m \in 1..(j - 1) : input[m] # input[j]
    BY <1>2, <1>4 DEF VerdictsAreExact
  <2>1. CASE j = n
    <3>1. keep'[j] <=> ~dup
      BY <1>2, <2>1
    <3>2. dup <=> \E m \in 1..(j - 1) : input[m] = input[j]
      BY <1>1, <1>5, <2>1 DEF KernelInv, KernelTypeOK
    <3> QED BY <3>1, <3>2, Zenon
  <2>2. CASE j # n
    <3>1. j \in 1..Len(keep) /\ keep'[j] = keep[j]
      BY <1>1, <1>2, <2>2 DEF KernelInv, KernelTypeOK
    <3> QED BY <3>1 DEF KernelInv, VerdictsAreExact
  <2> QED BY <2>1, <2>2
<1>8. BucketsIndexScannedRows'
  <2> SUFFICES ASSUME NEW h \in Hash
               PROVE  /\ \A r \in Encoding : InBucket(buckets'[h], r)
                            <=> HashOf[r] = h /\ \E j \in 1..n : input[j] = r
                      /\ \A k, l \in 1..Len(buckets'[h]) :
                            buckets'[h][k] = buckets'[h][l] => k = l
    BY <1>2, <1>4 DEF BucketsIndexScannedRows, InBucket
  <2>1. \A r \in Encoding : (\E j \in 1..n : input[j] = r)
                         <=> (\E j \in 1..Len(keep) : input[j] = r) \/ r = row
    BY <1>1 DEF KernelInv, KernelTypeOK
  <2>2. CASE h # h0 \/ dup
    <3>1. buckets'[h] = buckets[h]
      BY <1>1, <1>3, <2>2 DEF KernelInv, KernelTypeOK
    <3> QED BY <1>5, <2>1, <2>2, <3>1 DEF KernelInv, BucketsIndexScannedRows
  <2>3. CASE h = h0 /\ ~dup
    <3>1. buckets'[h] = Append(buckets[h0], row)
      BY <1>1, <1>3, <2>3 DEF KernelInv, KernelTypeOK
    <3>2. \A r \in Encoding : InBucket(buckets'[h], r)
                            <=> InBucket(buckets[h0], r) \/ r = row
      BY <1>1, <3>1, PushedRow
    <3>3. \A k, l \in 1..Len(buckets'[h]) :
                            buckets'[h][k] = buckets'[h][l] => k = l
      <4>1. \A k, l \in 1..Len(buckets[h0]) : buckets[h0][k] = buckets[h0][l] => k = l
        BY <1>1 DEF KernelInv, BucketsIndexScannedRows
      <4>2. ~ InBucket(buckets[h0], row)
        BY <2>3 DEF dup
      <4> QED BY <1>1, <3>1, <4>1, <4>2, PushedDistinct
    <3> QED BY <2>1, <2>3, <3>2, <3>3 DEF KernelInv, BucketsIndexScannedRows
  <2> QED BY <2>2, <2>3
<1>9. NoRowIsLost'
  <2> SUFFICES ASSUME NEW j \in 1..n
               PROVE  \E k \in 1..j : keep'[k] /\ input[k] = input[j]
    BY <1>2, <1>4 DEF NoRowIsLost
  <2>1. CASE j # n \/ dup
    <3>1. PICK i \in 1..Len(keep) : i <= j /\ input[i] = input[j]
      <4>1. CASE j # n
        <5>1. j \in 1..Len(keep) /\ j <= j
          BY <4>1 DEF KernelInv, KernelTypeOK
        <5> QED BY <5>1
      <4>2. CASE j = n
        <5>1. \E i \in 1..Len(keep) : input[i] = row
          BY <1>5, <2>1, <4>2
        <5> QED BY <4>2, <5>1 DEF KernelInv, KernelTypeOK
      <4> QED BY <4>1, <4>2
    <3>2. PICK k \in 1..i : keep[k] /\ input[k] = input[i]
      BY <3>1 DEF KernelInv, NoRowIsLost
    <3>3. k \in 1..Len(keep) /\ k \in 1..j
      BY <1>1, <3>1, <3>2 DEF KernelInv, KernelTypeOK
    <3>4. keep'[k] = keep[k]
      BY <1>2, <3>3
    <3>5. keep'[k] /\ input[k] = input[j]
      BY <3>1, <3>2, <3>4, Zenon
    <3> QED BY <3>3, <3>5
  <2>2. CASE j = n /\ ~dup
    <3>1. keep'[n]
      BY <1>2, <2>2
    <3> QED BY <1>1, <2>2, <3>1
  <2> QED BY <2>1, <2>2
<1>10. ReturnedIsKept'
  BY <1>2, <1>4 DEF KernelInv, ReturnedIsKept
<1> QED BY <1>6, <1>7, <1>8, <1>9, <1>10 DEF KernelInv

(* The other steps leave the loop's state alone. *)
LEMMA LoopUnchanged ==
    ASSUME KernelInv, UNCHANGED <<input, columns, buckets, keep>>
    PROVE  VerdictsAreExact' /\ BucketsIndexScannedRows' /\ NoRowIsLost'
<1>1. VerdictsAreExact'
  BY DEF KernelInv, VerdictsAreExact
<1>2. BucketsIndexScannedRows'
  BY DEF KernelInv, BucketsIndexScannedRows, InBucket
<1>3. NoRowIsLost'
  BY DEF KernelInv, NoRowIsLost
<1> QED BY <1>1, <1>2, <1>3

LEMMA NextKernel == KernelInv /\ [KernelNext]_kernelVars => KernelInv'
<1> SUFFICES ASSUME KernelInv, [KernelNext]_kernelVars PROVE KernelInv'
  OBVIOUS
<1>1. CASE ScanRow
  BY <1>1, ScanRowKernel
<1>2. CASE HashRows \/ RowOutOfBounds
  <2>1. KernelTypeOK' /\ ReturnedIsKept'
    BY <1>2 DEF HashRows, RowOutOfBounds, Kept, KernelInv, KernelTypeOK, ReturnedIsKept
  <2> QED BY <1>2, <2>1, LoopUnchanged DEF HashRows, RowOutOfBounds, KernelInv
<1>3. CASE Filter
  <2>1. KernelTypeOK' /\ ReturnedIsKept'
    BY <1>3 DEF Filter, Kept, KernelInv, KernelTypeOK, ReturnedIsKept
  <2> QED BY <1>3, <2>1, LoopUnchanged DEF Filter, KernelInv
<1>4. CASE Returned \/ UNCHANGED kernelVars
  <2>1. UNCHANGED kernelVars
    BY <1>4 DEF Returned
  <2>2. KernelTypeOK' /\ ReturnedIsKept'
    BY <2>1 DEF kernelVars, Kept, KernelInv, KernelTypeOK, ReturnedIsKept
  <2> QED BY <2>1, <2>2, LoopUnchanged DEF kernelVars, KernelInv
<1> QED BY <1>1, <1>2, <1>3, <1>4 DEF KernelNext

THEOREM SpecKernel == KernelSpec => []KernelInv
BY InitKernel, NextKernel, PTL DEF KernelSpec

(* The state of the kernel is always of its type. *)
THEOREM DedupTypeOK == KernelSpec => []KernelTypeOK
<1>1. KernelInv => KernelTypeOK
  BY DEF KernelInv
<1> QED BY <1>1, SpecKernel, PTL

(* Whatever rows collide on whatever hash, a row is dropped only after the *)
(* same row has been seen, and never kept twice.                           *)
THEOREM ExactVerdicts == KernelSpec => []VerdictsAreExact
<1>1. KernelInv => VerdictsAreExact
  BY DEF KernelInv
<1> QED BY <1>1, SpecKernel, PTL

(* The buckets index the kept rows and nothing else: a row that was        *)
(* dropped is there because the one it duplicates was kept.                *)
THEOREM ExactIndex == KernelSpec => []BucketsIndexKeptRows
<1>1. KernelInv => BucketsIndexKeptRows
  <2> SUFFICES ASSUME KernelInv, NEW h \in Hash
               PROVE  /\ \A r \in Encoding : InBucket(buckets[h], r)
                            <=> HashOf[r] = h
                                /\ \E j \in 1..Len(keep) : keep[j] /\ input[j] = r
                      /\ \A k, l \in 1..Len(buckets[h]) :
                            buckets[h][k] = buckets[h][l] => k = l
    BY DEF BucketsIndexKeptRows
  <2>1. \A r \in Encoding : (\E j \in 1..Len(keep) : input[j] = r)
                   <=> \E j \in 1..Len(keep) : keep[j] /\ input[j] = r
    <3>1. ASSUME NEW j \in 1..Len(keep)
          PROVE  \E k \in 1..Len(keep) : keep[k] /\ input[k] = input[j]
      <4>1. PICK k \in 1..j : keep[k] /\ input[k] = input[j]
        BY <3>1 DEF KernelInv, NoRowIsLost
      <4>2. k \in 1..Len(keep)
        BY <3>1, <4>1 DEF KernelInv, KernelTypeOK
      <4> QED BY <4>1, <4>2
    <3> QED BY <3>1
  <2> QED BY <2>1 DEF KernelInv, BucketsIndexScannedRows
<1> QED BY <1>1, SpecKernel, PTL

(* The kernel does what FirstOccurrence promises: returning the filtered   *)
(* batch publishes the first occurrence of every row, and every other step *)
(* is invisible or a failure that publishes nothing.                       *)
THEOREM Refinement == KernelSpec => ImplementsFirstOccurrence
<1>1. KernelInit => Abstract!Init
  BY DEF KernelInit, Abstract!Init
<1>2. KernelInv /\ [KernelNext]_kernelVars => [Abstract!Next]_(Abstract!vars)
  <2> SUFFICES ASSUME KernelInv, [KernelNext]_kernelVars
               PROVE  [Abstract!Next]_(Abstract!vars)
    OBVIOUS
  <2>1. CASE ScanRow
    BY <2>1 DEF ScanRow, Abstract!vars
  <2>2. CASE HashRows
    BY <2>2 DEF HashRows, Abstract!vars, Abstract!Next, Abstract!Fail
  <2>3. CASE RowOutOfBounds
    BY <2>3 DEF RowOutOfBounds, Abstract!vars, Abstract!Next, Abstract!Fail
  <2>4. CASE Filter
    <3>1. out' = Abstract!Survivors(input, Len(input))
      <4>1. ASSUME NEW j \in 1..Len(input)
            PROVE  Abstract!IsFirst(input, j)
                     <=> \A m \in 1..(j - 1) : input[m] # input[j]
        BY <4>1 DEF Abstract!IsFirst, KernelInv, KernelTypeOK
      <4>2. out' = {j \in 1..Len(input) : keep[j]}
        BY <2>4 DEF Filter, Kept
      <4>3. \A j \in 1..Len(input) : keep[j] <=> Abstract!IsFirst(input, j)
        BY <2>4, <4>1 DEF Filter, KernelInv, VerdictsAreExact
      <4> QED BY <4>2, <4>3 DEF Abstract!Survivors
    <3>2. Len(input) \in Nat /\ pc = "scan" /\ pc' = "done" /\ input' = input
      BY <2>4 DEF Filter, KernelInv, KernelTypeOK
    <3>3. Abstract!Publish
      BY <3>1, <3>2 DEF Abstract!Publish
    <3> QED BY <3>3 DEF Abstract!Next
  <2>5. CASE Returned \/ UNCHANGED kernelVars
    BY <2>5 DEF Returned, kernelVars, Abstract!vars
  <2> QED BY <2>1, <2>2, <2>3, <2>4, <2>5 DEF KernelNext
<1> QED BY <1>1, <1>2, SpecKernel, PTL DEF KernelSpec, ImplementsFirstOccurrence, Abstract!Spec

-----------------------------------------------------------------------------
(***************************************************************************)
(* On a cluster.  What makes retries and speculation harmless is that an   *)
(* attempt depends on nothing but its partition: whatever a running task   *)
(* has kept is right for what it has read, so whichever attempt is         *)
(* committed is right for the partition.                                   *)
(***************************************************************************)
(* The positions K are first of their keys, and stand for all of J. *)
Distinct(K) == \A i, j \in K : i # j => ~ Equal(i, j)
Covers(K, J) == \A i \in J : i \in K \/ \E j \in K : Equal(i, j)

(* A running task has judged what it has read of its partition; its index  *)
(* holds the keys it has kept.                                             *)
TaskInv(p, a) ==
    status[<<p, a>>] = "running" =>
        /\ left[<<p, a>>] \subseteq RowsOf(p)
        /\ kept[<<p, a>>] \subseteq RowsOf(p)
        /\ seen[<<p, a>>] = {table[i] : i \in kept[<<p, a>>]}
        /\ Distinct(kept[<<p, a>>])
        /\ Covers(kept[<<p, a>>], RowsOf(p) \ left[<<p, a>>])

CommitInv(p) ==
    committed[p] # NotCommitted =>
        /\ committed[p] \subseteq RowsOf(p)
        /\ Distinct(committed[p])
        /\ Covers(committed[p], RowsOf(p))

IInv ==
    /\ TypeOK
    /\ place \in Placements(table, repartition)
    /\ \A p \in Partition : CommitInv(p)
    /\ \A p \in Partition, a \in Attempt : TaskInv(p, a)

-----------------------------------------------------------------------------
LEMMA InitIInv == Init => IInv
<1> USE SparkDedupAssumption
<1> SUFFICES ASSUME Init PROVE IInv  OBVIOUS
<1>1. place \in [Positions -> Partition]
    <2>1. table \in Seq(Row)  BY DEF Init
    <2>2. \A i \in 1..Len(table) : Route[table[i]] \in Partition  BY <2>1
    <2> QED  BY <2>2 DEF Init, Placements, Positions
<1>2. TypeOK  BY <1>1 DEF Init, TypeOK, Tasks, NotCommitted
<1>3. ASSUME NEW p \in Partition PROVE CommitInv(p)  BY DEF Init, CommitInv
<1>4. ASSUME NEW p \in Partition, NEW a \in Attempt PROVE TaskInv(p, a)
    BY DEF Init, TaskInv, Tasks
<1> QED  BY <1>2, <1>3, <1>4 DEF Init, IInv

(* What a step leaves alone: the shuffled DataFrame, other tasks, and the  *)
(* committed partitions.                                                   *)
Shuffled == UNCHANGED <<table, repartition, place>>
SameTask(p, a) ==
    /\ status'[<<p, a>>] = status[<<p, a>>] /\ left'[<<p, a>>] = left[<<p, a>>]
    /\ kept'[<<p, a>>] = kept[<<p, a>>] /\ seen'[<<p, a>>] = seen[<<p, a>>]

LEMMA TaskStands ==
    ASSUME NEW p \in Partition, NEW a \in Attempt, TaskInv(p, a), Shuffled, SameTask(p, a)
    PROVE  TaskInv(p, a)'
BY DEF TaskInv, Shuffled, SameTask, RowsOf, Positions, Distinct, Covers, Equal

LEMMA CommitStands ==
    ASSUME NEW p \in Partition, CommitInv(p), Shuffled, committed'[p] = committed[p]
    PROVE  CommitInv(p)'
BY DEF CommitInv, Shuffled, RowsOf, Positions, Distinct, Covers, Equal

(* It is enough to look at the task that takes the step. *)
LEMMA OneTask ==
    ASSUME IInv, NEW p \in Partition, NEW a \in Attempt, TypeOK', Shuffled,
           TaskInv(p, a)',
           \A q \in Partition, b \in Attempt : <<q, b>> # <<p, a>> => SameTask(q, b),
           \A q \in Partition : committed'[q] = committed[q] \/ CommitInv(q)'
    PROVE  IInv'
<1>1. place' \in Placements(table', repartition')  BY DEF IInv, Shuffled
<1>2. ASSUME NEW q \in Partition PROVE CommitInv(q)'
    BY CommitStands DEF IInv
<1>3. ASSUME NEW q \in Partition, NEW b \in Attempt PROVE TaskInv(q, b)'
    <2>1. CASE q = p /\ b = a  BY <2>1
    <2>2. CASE ~ (q = p /\ b = a)
        <3>1. SameTask(q, b)  BY <2>2
        <3> QED  BY <3>1, TaskStands DEF IInv
    <2> QED  BY <2>1, <2>2
<1> QED  BY <1>1, <1>2, <1>3 DEF IInv

-----------------------------------------------------------------------------
LEMMA StartIInv ==
    ASSUME IInv, NEW p \in Partition, NEW a \in Attempt, Start(p, a)
    PROVE  IInv'
<1> USE SparkDedupAssumption
<1>0. TypeOK /\ <<p, a>> \in Tasks  BY DEF IInv, Tasks
<1>1. RowsOf(p) \subseteq Positions  BY DEF RowsOf
<1>2. Shuffled /\ UNCHANGED <<failures, committed>>  BY DEF Start, Shuffled
<1>3. TypeOK'  BY <1>0, <1>1, <1>2 DEF TypeOK, Start, Shuffled, Positions
<1>4. /\ left'[<<p, a>>] = RowsOf(p) /\ kept'[<<p, a>>] = {} /\ seen'[<<p, a>>] = {}
      /\ RowsOf(p)' = RowsOf(p)
    BY <1>0 DEF TypeOK, Start, RowsOf, Positions
<1>5. TaskInv(p, a)'  BY <1>4 DEF TaskInv, Distinct, Covers
<1>6. ASSUME NEW q \in Partition, NEW b \in Attempt, <<q, b>> # <<p, a>>
      PROVE  SameTask(q, b)
    <2>1. <<q, b>> \in Tasks  BY DEF Tasks
    <2> QED  BY <1>0, <1>6, <2>1 DEF TypeOK, Start, SameTask
<1> QED  BY <1>2, <1>3, <1>5, <1>6, OneTask

(* It is enough to look at what the task has kept, before or after. *)
LEMMA TaskFromKept ==
    ASSUME NEW p \in Partition, NEW a \in Attempt, Shuffled, NEW K, NEW U,
           kept'[<<p, a>>] = K, left'[<<p, a>>] = U,
           seen'[<<p, a>>] = {table[j] : j \in K},
           U \subseteq RowsOf(p), K \subseteq RowsOf(p),
           Distinct(K), Covers(K, RowsOf(p) \ U)
    PROVE  TaskInv(p, a)'
<1>1. RowsOf(p)' = RowsOf(p) /\ table' = table  BY DEF Shuffled, RowsOf, Positions
<1>2. Distinct(kept[<<p, a>>])'  BY <1>1 DEF Distinct, Equal
<1>3. Covers(kept[<<p, a>>], RowsOf(p) \ left[<<p, a>>])'  BY <1>1 DEF Covers, Equal
<1> QED  BY <1>1, <1>2, <1>3 DEF TaskInv

(* Judge, for the row it picks. *)
Judged(p, a, i) ==
    /\ left' = [left EXCEPT ![<<p, a>>] = @ \ {i}]
    /\ IF \E r \in seen[<<p, a>>] : <<r, table[i]>> \in PyEqual
       THEN UNCHANGED <<seen, kept>>
       ELSE /\ seen' = [seen EXCEPT ![<<p, a>>] = @ \cup {table[i]}]
            /\ kept' = [kept EXCEPT ![<<p, a>>] = @ \cup {i}]

(* A row joins the kept ones only if none of them has its key. *)
LEMMA JudgeIInv ==
    ASSUME IInv, NEW p \in Partition, NEW a \in Attempt, Judge(p, a)
    PROVE  IInv'
<1> USE SparkDedupAssumption
<1>0. TypeOK /\ <<p, a>> \in Tasks /\ TaskInv(p, a) /\ status[<<p, a>>] = "running"
    BY DEF IInv, Tasks, Judge
<1>1. PICK i \in left[<<p, a>>] : Judged(p, a, i)  BY DEF Judge, Judged
<1>2. Shuffled /\ UNCHANGED <<status, failures, committed>>  BY DEF Judge, Shuffled
<1>3. /\ left[<<p, a>>] \subseteq RowsOf(p) /\ kept[<<p, a>>] \subseteq RowsOf(p)
      /\ seen[<<p, a>>] = {table[j] : j \in kept[<<p, a>>]}
      /\ Distinct(kept[<<p, a>>]) /\ Covers(kept[<<p, a>>], RowsOf(p) \ left[<<p, a>>])
    BY <1>0 DEF TaskInv
<1>4. i \in Positions /\ table \in Seq(Row) /\ RowsOf(p) \subseteq Positions
    BY <1>0, <1>3 DEF TypeOK, RowsOf
<1>5. \A j \in Positions : table[j] \in Row  BY <1>4 DEF Positions
<1>6. \A j, k \in Positions : Equal(j, k) => Equal(k, j)
    BY <1>5 DEF Equal
<1>7. /\ left'[<<p, a>>] = left[<<p, a>>] \ {i} /\ status'[<<p, a>>] = "running"
      /\ RowsOf(p)' = RowsOf(p)
    BY <1>0, <1>1, <1>2 DEF TypeOK, Judged, Shuffled, RowsOf, Positions
<1>8. ASSUME NEW q \in Partition, NEW b \in Attempt, <<q, b>> # <<p, a>>
      PROVE  SameTask(q, b)
    <2>1. <<q, b>> \in Tasks  BY DEF Tasks
    <2>2. status'[<<q, b>>] = status[<<q, b>>]  BY <1>2
    <2>3. left'[<<q, b>>] = left[<<q, b>>]
        BY <1>0, <1>1, <1>8, <2>1 DEF TypeOK, Judged
    <2>4. CASE UNCHANGED <<seen, kept>>  BY <2>2, <2>3, <2>4 DEF SameTask
    <2>5. CASE /\ seen' = [seen EXCEPT ![<<p, a>>] = @ \cup {table[i]}]
               /\ kept' = [kept EXCEPT ![<<p, a>>] = @ \cup {i}]
        <3>1. seen'[<<q, b>>] = seen[<<q, b>>]  BY <1>0, <1>8, <2>1, <2>5 DEF TypeOK
        <3>2. kept'[<<q, b>>] = kept[<<q, b>>]  BY <1>0, <1>8, <2>1, <2>5 DEF TypeOK
        <3> QED  BY <2>2, <2>3, <3>1, <3>2 DEF SameTask
    <2> QED  BY <1>1, <2>4, <2>5 DEF Judged
<1>9. CASE \E r \in seen[<<p, a>>] : <<r, table[i]>> \in PyEqual
    <2>1. UNCHANGED <<seen, kept>>  BY <1>1, <1>9 DEF Judged
    <2>2. PICK j \in kept[<<p, a>>] : Equal(j, i)  BY <1>3, <1>9 DEF Equal
    <2>3. Equal(i, j)  BY <1>3, <1>4, <1>6, <2>2
    <2>4. Covers(kept[<<p, a>>], RowsOf(p) \ (left[<<p, a>>] \ {i}))
        BY <1>3, <2>3 DEF Covers
    <2>5. TaskInv(p, a)'
        BY <1>2, <1>3, <1>7, <2>1, <2>4, TaskFromKept
    <2>6. TypeOK'  BY <1>0, <1>1, <1>2, <2>1 DEF TypeOK, Judged, Shuffled, Positions
    <2> QED  BY <1>2, <1>8, <2>5, <2>6, OneTask
<1>10. CASE ~ \E r \in seen[<<p, a>>] : <<r, table[i]>> \in PyEqual
    <2>1. /\ seen' = [seen EXCEPT ![<<p, a>>] = @ \cup {table[i]}]
          /\ kept' = [kept EXCEPT ![<<p, a>>] = @ \cup {i}]
        BY <1>1, <1>10 DEF Judged
    <2>2. /\ seen'[<<p, a>>] = seen[<<p, a>>] \cup {table[i]}
          /\ kept'[<<p, a>>] = kept[<<p, a>>] \cup {i}
        BY <1>0, <2>1 DEF TypeOK
    <2>3. \A j \in kept[<<p, a>>] : ~ Equal(j, i) /\ ~ Equal(i, j)
        <3>1. \A j \in kept[<<p, a>>] : ~ Equal(j, i)
            <4>1. \A j \in kept[<<p, a>>] : table[j] \in seen[<<p, a>>]  BY <1>3
            <4> QED  BY <1>10, <4>1 DEF Equal
        <3> QED  BY <1>3, <1>4, <1>6, <3>1
    <2>4. Distinct(kept[<<p, a>>] \cup {i})  BY <1>3, <2>3 DEF Distinct
    <2>5. Covers(kept[<<p, a>>] \cup {i}, RowsOf(p) \ (left[<<p, a>>] \ {i}))
        BY <1>3 DEF Covers
    <2>6. seen'[<<p, a>>] = {table[j] : j \in kept[<<p, a>>] \cup {i}}  BY <1>3, <2>2
    <2>8. TaskInv(p, a)'
        <3>1. kept[<<p, a>>] \cup {i} \subseteq RowsOf(p)  BY <1>3
        <3>2. left[<<p, a>>] \ {i} \subseteq RowsOf(p)  BY <1>3
        <3> QED  BY <1>2, <1>7, <2>2, <2>4, <2>5, <2>6, <3>1, <3>2, TaskFromKept
    <2>9. TypeOK'
        <3>1. left' \in [Tasks -> SUBSET Positions]  BY <1>0, <1>1 DEF TypeOK, Judged
        <3>2. seen' \in [Tasks -> SUBSET Row]  BY <1>0, <1>4, <1>5, <2>1 DEF TypeOK
        <3>3. kept' \in [Tasks -> SUBSET Positions]  BY <1>0, <1>4, <2>1 DEF TypeOK
        <3>4. Positions' = Positions  BY <1>2 DEF Shuffled, Positions
        <3> QED  BY <1>0, <1>2, <3>1, <3>2, <3>3, <3>4 DEF TypeOK, Shuffled
    <2> QED  BY <1>2, <1>8, <2>8, <2>9, OneTask
<1> QED  BY <1>9, <1>10

(* A task that is over leaves nothing behind, however it ended. *)
LEMMA EndIInv ==
    ASSUME IInv, NEW p \in Partition, NEW a \in Attempt, NEW s \in {"idle", "done"},
           End(p, a, s), failures' \in [Partition -> 0..MaxFailures],
           committed' \in [Partition -> (SUBSET Positions) \cup {NotCommitted}],
           \A q \in Partition : committed'[q] = committed[q] \/ CommitInv(q)'
    PROVE  IInv'
<1>0. TypeOK /\ <<p, a>> \in Tasks  BY DEF IInv, Tasks
<1>1. Shuffled /\ UNCHANGED seen  BY DEF End, Shuffled
<1>2. TypeOK'  BY <1>0, <1>1 DEF TypeOK, End, Shuffled, Positions
<1>3. TaskInv(p, a)'  BY <1>0 DEF TypeOK, End, TaskInv
<1>4. ASSUME NEW q \in Partition, NEW b \in Attempt, <<q, b>> # <<p, a>>
      PROVE  SameTask(q, b)
    <2>1. <<q, b>> \in Tasks  BY DEF Tasks
    <2> QED  BY <1>0, <1>1, <1>4, <2>1 DEF TypeOK, End, SameTask
<1> QED  BY <1>1, <1>2, <1>3, <1>4, OneTask

LEMMA FailIInv ==
    ASSUME IInv, NEW p \in Partition, NEW a \in Attempt, Fail(p, a)
    PROVE  IInv'
<1>1. failures' \in [Partition -> 0..MaxFailures]
    <2>1. failures \in [Partition -> 0..MaxFailures] /\ MaxFailures \in Nat
        BY SparkDedupAssumption DEF IInv, TypeOK
    <2>2. failures[p] + 1 \in 0..MaxFailures  BY <2>1 DEF Fail
    <2> QED  BY <2>1, <2>2 DEF Fail
<1>2. End(p, a, "idle") /\ UNCHANGED committed  BY DEF Fail
<1>3. committed' \in [Partition -> (SUBSET Positions) \cup {NotCommitted}]
    BY <1>2 DEF IInv, TypeOK
<1> QED  BY <1>1, <1>2, <1>3, EndIInv

LEMMA DiscardIInv ==
    ASSUME IInv, NEW p \in Partition, NEW a \in Attempt, Discard(p, a)
    PROVE  IInv'
<1>1. End(p, a, "done") /\ UNCHANGED <<failures, committed>>  BY DEF Discard
<1>2. /\ failures' \in [Partition -> 0..MaxFailures]
      /\ committed' \in [Partition -> (SUBSET Positions) \cup {NotCommitted}]
    BY <1>1 DEF IInv, TypeOK
<1> QED  BY <1>1, <1>2, EndIInv

(* What is committed is what a task has made of its whole partition. *)
LEMMA CommitIInv ==
    ASSUME IInv, NEW p \in Partition, NEW a \in Attempt, Commit(p, a)
    PROVE  IInv'
<1>0. TypeOK /\ <<p, a>> \in Tasks /\ TaskInv(p, a)  BY DEF IInv, Tasks
<1>1. /\ End(p, a, "done") /\ UNCHANGED failures
      /\ committed' = [committed EXCEPT ![p] = kept[<<p, a>>]]
      /\ status[<<p, a>>] = "running" /\ left[<<p, a>>] = {}
    BY DEF Commit
<1>2. Shuffled  BY <1>1 DEF End, Shuffled
<1>3. kept[<<p, a>>] \in SUBSET Positions  BY <1>0 DEF TypeOK
<1>4. committed' \in [Partition -> (SUBSET Positions) \cup {NotCommitted}]
    BY <1>0, <1>1, <1>3 DEF TypeOK
<1>5. committed'[p] = kept[<<p, a>>]  BY <1>0, <1>1 DEF TypeOK
<1>6. /\ kept[<<p, a>>] \subseteq RowsOf(p) /\ Distinct(kept[<<p, a>>])
      /\ Covers(kept[<<p, a>>], RowsOf(p))
    BY <1>0, <1>1 DEF TaskInv
<1>7. CommitInv(p)'
    BY <1>2, <1>5, <1>6 DEF CommitInv, Shuffled, RowsOf, Positions, Distinct, Covers, Equal
<1>8. \A q \in Partition : committed'[q] = committed[q] \/ CommitInv(q)'
    BY <1>0, <1>1, <1>7 DEF TypeOK
<1>9. failures' \in [Partition -> 0..MaxFailures]  BY <1>0, <1>1 DEF TypeOK
<1> QED  BY <1>1, <1>4, <1>8, <1>9, EndIInv

(* The invariant holds of every reachable state. *)
THEOREM SpecIInv == Spec => []IInv
<1>1. IInv /\ [Next]_vars => IInv'
    <2> SUFFICES ASSUME IInv, UNCHANGED vars PROVE IInv'
        BY StartIInv, JudgeIInv, FailIInv, CommitIInv, DiscardIInv DEF Next, Ended
    <2>1. TypeOK'  BY DEF IInv, TypeOK, vars, Positions
    <2>2. Shuffled /\ UNCHANGED committed  BY DEF vars, Shuffled
    <2>3. ASSUME NEW p \in Partition PROVE CommitInv(p)'
        BY <2>2, CommitStands DEF IInv
    <2>4. ASSUME NEW p \in Partition, NEW a \in Attempt PROVE TaskInv(p, a)'
        BY <2>2, TaskStands DEF IInv, vars, SameTask
    <2> QED  BY <2>1, <2>2, <2>3, <2>4 DEF IInv, Shuffled
<1> QED  BY <1>1, InitIInv, PTL DEF Spec

-----------------------------------------------------------------------------
(* Tasks read and keep rows of the DataFrame only, within their budget of  *)
(* failures.                                                               *)
THEOREM ClusterTypeOK == Spec => []TypeOK
<1>1. IInv => TypeOK  BY DEF IInv
<1> QED  BY <1>1, SpecIInv, PTL DEF Spec

(* Whatever fails, is retried or runs twice, no key is in the output twice. *)
THEOREM OnePerKey == Spec => []AtMostOnePerKey
<1> USE SparkDedupAssumption
<1>1. IInv => AtMostOnePerKey
    <2> SUFFICES ASSUME IInv, repartition \/ Colocated,
                        NEW i \in Output, NEW j \in Output, i # j, Equal(i, j)
                 PROVE  FALSE
        BY DEF AtMostOnePerKey
    <2>1. PICK p \in Partition : i \in committed[p] /\ committed[p] # NotCommitted
        BY DEF Output
    <2>2. PICK q \in Partition : j \in committed[q] /\ committed[q] # NotCommitted
        BY DEF Output
    <2>3. /\ i \in Positions /\ place[i] = p /\ j \in Positions /\ place[j] = q
          /\ Distinct(committed[p])
        BY <2>1, <2>2 DEF IInv, CommitInv, RowsOf
    <2>4. place[i] = place[j]
        <3>1. CASE Colocated  BY <2>3, <3>1 DEF Colocated
        <3>2. CASE repartition
            <4>1. table \in Seq(Row)  BY DEF IInv, TypeOK
            <4>2. table[i] \in Row /\ table[j] \in Row  BY <2>3, <4>1 DEF Positions
            <4>3. place = [k \in 1..Len(table) |-> Route[table[k]]]
                BY <3>2 DEF IInv, Placements
            <4>4. Route[table[i]] = Route[table[j]]  BY <4>2 DEF Equal
            <4> QED  BY <2>3, <4>3, <4>4 DEF Positions
        <3> QED  BY <3>1, <3>2
    <2> QED  BY <2>1, <2>2, <2>3, <2>4 DEF Distinct
<1> QED  BY <1>1, SpecIInv, PTL DEF Spec

(* And none is lost, with or without repartitioning. *)
THEOREM NoKeyLost == Spec => []EveryKeySurvives
<1>1. IInv => EveryKeySurvives
    <2> SUFFICES ASSUME IInv, JobDone, NEW i \in Positions
                 PROVE  i \in Output \/ \E j \in Output : Equal(i, j)
        BY DEF EveryKeySurvives
    <2> DEFINE p == place[i]
    <2>1. p \in Partition /\ i \in RowsOf(p)  BY DEF IInv, TypeOK, RowsOf
    <2>2. committed[p] # NotCommitted  BY <2>1 DEF JobDone
    <2>3. Covers(committed[p], RowsOf(p))  BY <2>1, <2>2 DEF IInv, CommitInv
    <2>4. committed[p] \subseteq Output  BY <2>1, <2>2 DEF Output
    <2> QED  BY <2>1, <2>3, <2>4 DEF Covers
<1> QED  BY <1>1, SpecIInv, PTL DEF Spec
=============================================================================
