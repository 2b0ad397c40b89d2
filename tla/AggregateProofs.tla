-------------------------- MODULE AggregateProofs --------------------------
(***************************************************************************)
(* Aggregation.  First the stream, for every number of groups, batches and *)
(* rows, every set of values and every width of the sum column, where the  *)
(* group keys are plain: Python's == tells them apart as the kernel does.  *)
(* Then the kernel, on any batch and for any call: how it sorts the rows   *)
(* into groups, and what the cells are that it reduces the groups to.      *)
(***************************************************************************)
EXTENDS AggregateStream, Aggregate, FoldLemmas, FiniteSetTheorems, SequenceTheorems, TLAPS

PlainKeys == Fresh = {} /\ \A g \in Group : PyRep[g] = g

(* What the batch at hand still has to say of group g. *)
Due(g) == IF g \in pending THEN partial[g] ELSE Empty

(* A group not seen in the batch has no partial result yet; the dict holds *)
(* the groups merged so far, and they and the pending ones are the groups  *)
(* the one-batch call knows.                                               *)
Bookkeeping ==
    /\ pc = "reduce" => \A g \in Group \ pending : partial[g] = Empty
    /\ keys \subseteq {<<g, 0>> : g \in groups}
    /\ \A g \in groups : g \in pending \/ <<g, 0>> \in keys
    /\ pending \subseteq groups
    /\ pc \in {"pull", "returned"} => pending = {}

ReturnedInv ==
    pc = "returned" => /\ ~ FinalOverflows
                       /\ out = {<<k, Result(state[k])>> : k \in keys}

IInv == TypeOK /\ MergedSoFar /\ Bookkeeping /\ ReturnedInv

-----------------------------------------------------------------------------
LEMMA EmptyType == Empty \in Acc
BY DEF Empty, Acc

LEMMA SingleType == ASSUME NEW v \in Int PROVE Single(v) \in Acc
BY DEF Single, Acc

LEMMA MergeType == ASSUME NEW a \in Acc, NEW b \in Acc PROVE Merge(a, b) \in Acc
BY DEF Merge, Acc, Empty, Lesser, Greater

LEMMA MergeEmpty ==
    ASSUME NEW a \in Acc
    PROVE  Merge(a, Empty) = a /\ Merge(Empty, a) = a
BY DEF Merge, Acc, Empty

(* Merging is associative: it does not matter where a batch ends. *)
LEMMA MergeAssoc ==
    ASSUME NEW a \in Acc, NEW b \in Acc, NEW c \in Acc
    PROVE  Merge(Merge(a, b), c) = Merge(a, Merge(b, c))
<1>1. CASE a.count = 0 \/ b.count = 0 \/ c.count = 0
  BY <1>1 DEF Merge, Acc, Empty
<1>2. CASE a.count # 0 /\ b.count # 0 /\ c.count # 0
  <2>1. /\ a.count + b.count # 0 /\ b.count + c.count # 0
        /\ (a.count + b.count) + c.count = a.count + (b.count + c.count)
        /\ (a.sum + b.sum) + c.sum = a.sum + (b.sum + c.sum)
    BY <1>2 DEF Acc
  <2>2. /\ Lesser(Lesser(a.min, b.min), c.min) = Lesser(a.min, Lesser(b.min, c.min))
        /\ Greater(Greater(a.max, b.max), c.max) = Greater(a.max, Greater(b.max, c.max))
    BY DEF Acc, Lesser, Greater
  <2> QED BY <1>2, <2>1, <2>2 DEF Merge
<1> QED BY <1>1, <1>2

LEMMA AddType ==
    ASSUME NEW a \in Acc, NEW v \in Value \cup {Null}
    PROVE  Add(a, v) \in Acc
BY AggregateAssumption, SingleType, MergeType DEF Add

LEMMA AddIsMerge ==
    ASSUME NEW a \in Acc, NEW b \in Acc, NEW v \in Value \cup {Null}
    PROVE  Merge(a, Add(b, v)) = Add(Merge(a, b), v)
BY AggregateAssumption, SingleType, MergeAssoc DEF Add

LEMMA PlainDictKey == ASSUME PlainKeys, NEW g \in Group
                      PROVE  DictKey(g) = <<g, 0>> /\ DictKey(g) \in DictKeys
BY AggregateAssumption DEF PlainKeys, DictKey, DictKeys

LEMMA InitIInv == Init => IInv
<1> SUFFICES ASSUME Init PROVE IInv
  OBVIOUS
<1>1. TypeOK
  BY EmptyType, AggregateAssumption DEF Init, TypeOK
<1>2. MergedSoFar
  <2> SUFFICES ASSUME NEW g \in Group
               PROVE Merge(state[<<g, 0>>], Due(g)) = whole[g]
    BY DEF MergedSoFar, Due
  <2>1. state[<<g, 0>>] = Empty /\ whole[g] = Empty /\ Due(g) = Empty
    BY AggregateAssumption DEF Init, DictKeys, Due
  <2> QED BY <2>1, EmptyType, MergeEmpty
<1>3. Bookkeeping /\ ReturnedInv
  BY DEF Init, Bookkeeping, ReturnedInv
<1> QED BY <1>1, <1>2, <1>3 DEF IInv

-----------------------------------------------------------------------------
LEMMA ReduceRowIInv == ASSUME PlainKeys, IInv, ReduceRow PROVE IInv'
<1>1. PICK g \in Group, v \in Value \cup {Null} :
        /\ partial' = [partial EXCEPT ![g] = Add(@, v)]
        /\ pending' = pending \cup {g}
        /\ whole' = [whole EXCEPT ![g] = Add(@, v)]
        /\ groups' = groups \cup {g}
  BY DEF ReduceRow
<1>2. UNCHANGED <<pc, requested, state, keys, out>> /\ pc = "reduce"
  BY DEF ReduceRow
<1>3. stats' \in [batches_in : 0..MaxBatches, rows_in : 0..MaxRows]
  BY AggregateAssumption DEF ReduceRow, IInv, TypeOK
<1>4. partial[g] \in Acc /\ whole[g] \in Acc
  BY DEF IInv, TypeOK
<1>5. partial' \in [Group -> Acc] /\ whole' \in [Group -> Acc]
  BY <1>1, <1>4, AddType DEF IInv, TypeOK
<1>6. TypeOK'
  BY <1>1, <1>2, <1>3, <1>5 DEF IInv, TypeOK
<1>7. MergedSoFar'
  <2> SUFFICES ASSUME NEW h \in Group
               PROVE Merge(state'[<<h, 0>>],
                           IF h \in pending' THEN partial'[h] ELSE Empty) = whole'[h]
    BY DEF MergedSoFar
  <2>1. state[<<h, 0>>] \in Acc
    BY AggregateAssumption DEF IInv, TypeOK, DictKeys
  <2>2. Merge(state[<<h, 0>>], Due(h)) = whole[h]
    BY DEF IInv, MergedSoFar, Due
  <2>3. CASE h = g
    <3>1. Due(g) = partial[g]
      BY <1>2 DEF Due, IInv, Bookkeeping
    <3>2. whole'[g] = Add(whole[g], v) /\ partial'[g] = Add(partial[g], v)
      BY <1>1 DEF IInv, TypeOK
    <3>3. Merge(state[<<g, 0>>], Add(partial[g], v)) = Add(whole[g], v)
      BY <1>4, <2>1, <2>2, <2>3, <3>1, AddIsMerge
    <3> QED BY <1>1, <1>2, <2>3, <3>2, <3>3
  <2>4. CASE h # g
    <3>1. whole'[h] = whole[h] /\ partial'[h] = partial[h]
      BY <1>1, <2>4 DEF IInv, TypeOK
    <3> QED BY <1>1, <1>2, <2>2, <2>4, <3>1 DEF Due
  <2> QED BY <2>3, <2>4
<1>8. Bookkeeping'
  BY <1>1, <1>2 DEF IInv, TypeOK, Bookkeeping
<1>9. ReturnedInv'
  BY <1>2 DEF ReturnedInv
<1> QED BY <1>6, <1>7, <1>8, <1>9 DEF IInv

LEMMA MergeGroupIInv == ASSUME PlainKeys, IInv, MergeGroup PROVE IInv'
<1>1. PICK g \in pending :
        /\ state' = [state EXCEPT ![<<g, 0>>] = Merge(@, partial[g])]
        /\ keys' = keys \cup {<<g, 0>>}
        /\ pending' = pending \ {g}
  BY PlainDictKey DEF MergeGroup, IInv, TypeOK
<1>2. UNCHANGED <<pc, requested, partial, stats, whole, groups, out>> /\ pc = "merge"
  BY DEF MergeGroup
<1>3. g \in Group /\ <<g, 0>> \in DictKeys /\ partial[g] \in Acc /\ state[<<g, 0>>] \in Acc
  <2>1. g \in Group /\ <<g, 0>> \in DictKeys
    BY PlainDictKey DEF IInv, TypeOK
  <2> QED BY <2>1 DEF IInv, TypeOK
<1>4. state' \in [DictKeys -> Acc]
  BY <1>1, <1>3, MergeType DEF IInv, TypeOK
<1>5. TypeOK'
  BY <1>1, <1>2, <1>3, <1>4 DEF IInv, TypeOK
<1>6. MergedSoFar'
  <2> SUFFICES ASSUME NEW h \in Group
               PROVE Merge(state'[<<h, 0>>],
                           IF h \in pending' THEN partial'[h] ELSE Empty) = whole'[h]
    BY DEF MergedSoFar
  <2>1. Merge(state[<<h, 0>>], Due(h)) = whole[h] /\ <<h, 0>> \in DictKeys
    BY AggregateAssumption DEF IInv, MergedSoFar, Due, DictKeys
  <2>2. CASE h = g
    <3>1. state'[<<g, 0>>] = whole[g]
      BY <1>1, <1>3, <2>1, <2>2 DEF Due, IInv, TypeOK
    <3>2. state'[<<g, 0>>] \in Acc
      BY <1>3, <1>4
    <3> QED BY <1>1, <1>2, <2>2, <3>1, <3>2, MergeEmpty
  <2>3. CASE h # g
    <3>1. state'[<<h, 0>>] = state[<<h, 0>>]
      BY <1>1, <2>1, <2>3 DEF IInv, TypeOK
    <3> QED BY <1>1, <1>2, <2>1, <2>3, <3>1 DEF Due
  <2> QED BY <2>2, <2>3
<1>7. Bookkeeping'
  BY <1>1, <1>2 DEF IInv, TypeOK, Bookkeeping
<1>8. ReturnedInv'
  BY <1>2 DEF ReturnedInv
<1> QED BY <1>5, <1>6, <1>7, <1>8 DEF IInv

LEMMA PullIInv == ASSUME IInv, Pull PROVE IInv'
<1>1. /\ partial' = [g \in Group |-> Empty] /\ pc = "pull" /\ pc' = "reduce"
      /\ UNCHANGED <<requested, pending, state, keys, whole, groups, out>>
      /\ pending = {}
  BY DEF Pull, IInv, Bookkeeping
<1>2. stats' \in [batches_in : 0..MaxBatches, rows_in : 0..MaxRows]
  BY AggregateAssumption DEF Pull, IInv, TypeOK
<1>3. partial' \in [Group -> Acc]
  BY <1>1, EmptyType
<1>4. TypeOK'
  BY <1>1, <1>2, <1>3 DEF IInv, TypeOK
<1>5. MergedSoFar'
  BY <1>1 DEF IInv, MergedSoFar
<1>6. Bookkeeping' /\ ReturnedInv'
  BY <1>1 DEF IInv, Bookkeeping, ReturnedInv
<1> QED BY <1>4, <1>5, <1>6 DEF IInv

(* The remaining steps leave every accumulator alone. *)
LEMMA QuietIInv ==
    ASSUME IInv, PullEmpty \/ EndBatch \/ BatchMerged \/ Finish \/ UNCHANGED vars
    PROVE  IInv'
<1>1. UNCHANGED <<requested, partial, pending, state, keys, whole, groups>>
  BY DEF PullEmpty, EndBatch, BatchMerged, Finish, vars
<1>2. stats' \in [batches_in : 0..MaxBatches, rows_in : 0..MaxRows]
  BY AggregateAssumption DEF PullEmpty, EndBatch, BatchMerged, Finish, vars, IInv, TypeOK
<1>3. pc' \in {"pull", "reduce", "merge", "returned", "raised"}
  BY DEF PullEmpty, EndBatch, BatchMerged, Finish, vars, IInv, TypeOK
<1>4. TypeOK'
  BY <1>1, <1>2, <1>3 DEF IInv, TypeOK
<1>5. MergedSoFar'
  BY <1>1 DEF IInv, MergedSoFar
<1>6. Bookkeeping'
  BY <1>1 DEF PullEmpty, EndBatch, BatchMerged, Finish, vars, IInv, Bookkeeping
<1>7. ReturnedInv'
  <2>0. /\ FinalOverflows' <=> FinalOverflows
        /\ {<<k, Result(state[k])>> : k \in keys}' = {<<k, Result(state[k])>> : k \in keys}
    <3>1. FinalOverflows' <=> FinalOverflows
      BY <1>1 DEF FinalOverflows
    <3>2. ASSUME NEW k PROVE Result(state[k])' = Result(state[k])
      <4>1. requested' = requested /\ state' = state
        BY <1>1
      <4> QED BY <4>1 DEF Result, Direct
    <3> QED BY <1>1, <3>1, <3>2
  <2>1. CASE Finish
    BY <2>0, <2>1 DEF Finish, ReturnedInv
  <2>2. CASE UNCHANGED vars
    BY <2>0, <2>2 DEF vars, IInv, ReturnedInv
  <2>3. CASE PullEmpty \/ EndBatch \/ BatchMerged
    BY <2>3 DEF PullEmpty, EndBatch, BatchMerged, ReturnedInv
  <2> QED BY <2>1, <2>2, <2>3
<1> QED BY <1>4, <1>5, <1>6, <1>7 DEF IInv

LEMMA NextIInv == ASSUME PlainKeys PROVE IInv /\ [Next]_vars => IInv'
BY ReduceRowIInv, MergeGroupIInv, PullIInv, QuietIInv DEF Next, Ended

LEMMA SpecIInv == ASSUME PlainKeys PROVE Spec => []IInv
BY InitIInv, NextIInv, PTL DEF Spec

(* Between any two steps of any batch, dict and batch together know what   *)
(* one call over all the rows would know.                                  *)
THEOREM NothingLostBetweenBatches == ASSUME PlainKeys PROVE Spec => []MergedSoFar
<1>1. IInv => MergedSoFar
  BY DEF IInv
<1> QED BY <1>1, SpecIInv, PTL

(* The accumulators and the results of the stream keep their types. *)
THEOREM AggregateTypeOK == ASSUME PlainKeys PROVE Spec => []TypeOK
<1>1. IInv => TypeOK
  BY DEF IInv
<1> QED BY <1>1, SpecIInv, PTL

(* When all batches are merged, dict and one-batch call agree. *)
LEMMA MergedAtEnd ==
    ASSUME IInv, pending = {}
    PROVE  /\ keys = {<<g, 0>> : g \in groups}
           /\ \A g \in groups : state[<<g, 0>>] = whole[g]
<1>1. keys = {<<g, 0>> : g \in groups}
  BY DEF IInv, Bookkeeping
<1>2. ASSUME NEW g \in groups PROVE state[<<g, 0>>] = whole[g]
  <2>1. g \in Group /\ state[<<g, 0>>] \in Acc
    BY AggregateAssumption DEF IInv, TypeOK, DictKeys
  <2>2. Merge(state[<<g, 0>>], Empty) = whole[g]
    BY <2>1 DEF IInv, MergedSoFar
  <2> QED BY <2>1, <2>2, MergeEmpty
<1> QED BY <1>1, <1>2

(* Stream and kernel make the same cells of the same accumulator, but for  *)
(* the mean of a sum that is rounded.                                      *)
LEMMA SameCells ==
    ASSUME NEW a, NEW f \in requested
    PROVE  \/ Result(a)[f] = KernelRow(a)[f]
           \/ /\ f = "mean" /\ AsF64(a.sum) # a.sum
              /\ Result(a)[f] = Quotient(a.sum, a.count)
<1>1. CASE f = "mean" /\ a.count # 0
  <2>1. Result(a)[f] = Quotient(a.sum, a.count)
    BY <1>1 DEF Result
  <2>2. KernelRow(a)[f] = Quotient(AsF64(a.sum), a.count)
    BY <1>1 DEF KernelRow
  <2> QED BY <1>1, <2>1, <2>2
<1>2. CASE ~ (f = "mean" /\ a.count # 0)
  <2>1. Result(a)[f] = Direct(a, f) /\ KernelRow(a)[f] = Direct(a, f)
    BY <1>2 DEF Result, KernelRow
  <2> QED BY <2>1
<1> QED BY <1>1, <1>2

(* However the partition is cut into batches, the stream returns the       *)
(* kernel's groups with the kernel's cells; a mean is another only if the  *)
(* sum is rounded, and is then the exact mean, rounded once.               *)
THEOREM StreamEqualsKernel == ASSUME PlainKeys PROVE Spec => []ReturnsKernelResult
<1>1. IInv => ReturnsKernelResult
  <2> SUFFICES ASSUME IInv, pc = "returned"
               PROVE  /\ {row[1] : row \in out} = {<<g, 0>> : g \in groups}
                      /\ \A row \in out, g \in groups, f \in requested :
                            row[1] = <<g, 0>> =>
                               \/ row[2][f] = KernelRow(whole[g])[f]
                               \/ /\ f = "mean" /\ AsF64(whole[g].sum) # whole[g].sum
                                  /\ row[2][f] = Quotient(whole[g].sum, whole[g].count)
    BY DEF ReturnsKernelResult
  <2>1. pending = {} /\ out = {<<k, Result(state[k])>> : k \in keys}
    BY DEF IInv, Bookkeeping, ReturnedInv
  <2>2. keys = {<<g, 0>> : g \in groups} /\ \A g \in groups : state[<<g, 0>>] = whole[g]
    BY <2>1, MergedAtEnd
  <2>3. {row[1] : row \in out} = {<<g, 0>> : g \in groups}
    <3>1. ASSUME NEW row \in out PROVE row[1] \in keys
      BY <2>1
    <3>2. ASSUME NEW k \in keys PROVE \E row \in out : row[1] = k
      <4>1. <<k, Result(state[k])>> \in out /\ <<k, Result(state[k])>>[1] = k
        BY <2>1
      <4> QED BY <4>1
    <3>3. {row[1] : row \in out} = keys
      BY <3>1, <3>2
    <3> QED BY <2>2, <3>3
  <2>4. ASSUME NEW row \in out, NEW g \in groups, NEW f \in requested, row[1] = <<g, 0>>
        PROVE  \/ row[2][f] = KernelRow(whole[g])[f]
               \/ /\ f = "mean" /\ AsF64(whole[g].sum) # whole[g].sum
                  /\ row[2][f] = Quotient(whole[g].sum, whole[g].count)
    <3>1. row[2] = Result(whole[g])
      <4>1. PICK k \in keys : row = <<k, Result(state[k])>>
        BY <2>1
      <4>2. k = <<g, 0>>
        BY <2>4, <4>1
      <4>3. row[2] = Result(state[k])
        BY <4>1
      <4> QED BY <2>2, <4>2, <4>3
    <3> QED BY <3>1, SameCells
  <2> QED BY <2>3, <2>4
<1> QED BY <1>1, SpecIInv, PTL

(* A sum the kernel would refuse is never returned. *)
THEOREM OverflowReported == ASSUME PlainKeys PROVE Spec => []OverflowIsNeverHidden
<1>1. IInv => OverflowIsNeverHidden
  <2> SUFFICES ASSUME IInv, pc = "returned", KernelOverflows PROVE FALSE
    BY DEF OverflowIsNeverHidden
  <2>1. pending = {} /\ ~ FinalOverflows
    BY DEF IInv, Bookkeeping, ReturnedInv
  <2>2. PICK g \in groups : whole[g].sum \notin I64
    BY DEF KernelOverflows
  <2>3. <<g, 0>> \in keys /\ state[<<g, 0>>] = whole[g]
    BY <2>1, MergedAtEnd
  <2> QED BY <2>1, <2>2, <2>3 DEF FinalOverflows, KernelOverflows
<1> QED BY <1>1, SpecIInv, PTL

-----------------------------------------------------------------------------
(***************************************************************************)
(* Inside one call of the kernel, on any batch, by any key columns: how    *)
(* the rows come into groups.                                              *)
(***************************************************************************)
(* The first rows of the groups rs, in the groups' order. *)
Firsts(rs) == [g \in DOMAIN rs |-> rs[g][1]]

(* The groups rs are those of the first n rows: none is empty, and no row  *)
(* is without a group.                                                     *)
Grouped(rs, n) ==
    /\ \A g \in DOMAIN rs : rs[g] # <<>>
    /\ \A j \in 1..n : \E g \in DOMAIN rs : KeyOf(rs[g][1]) = KeyOf(j)
    /\ InOrder(Firsts(rs), FirstOfKey(n))
    /\ \A g \in DOMAIN rs : InOrder(rs[g], RowsLike(rs[g][1], n))

KernelTypeInv ==
    /\ Len(batch.rows) \in Nat /\ DOMAIN batch.rows = 1..Len(batch.rows)
    /\ next \in 0..Len(batch.rows)
    /\ rows_per_group \in Seq(Seq(Nat))
    /\ stage \in {"resolve", "check"} => rows_per_group = <<>> /\ next = 0

KernelInv ==
    /\ KernelTypeInv
    /\ request.group_by # <<>> => Grouped(rows_per_group, next)
    /\ request.group_by = <<>> =>
          /\ stage = "group" => rows_per_group = <<>> /\ next = 0
          /\ \A g \in DOMAIN rows_per_group : InOrder(rows_per_group[g], DOMAIN batch.rows)
          /\ GroupedSoFar

(* A row that comes after all of a list's goes to its end. *)
LEMMA InOrderAppend ==
    ASSUME NEW s \in Seq(Nat), NEW S \in SUBSET Nat, NEW r \in Nat,
           InOrder(s, S), \A x \in S : x < r
    PROVE  InOrder(Append(s, r), S \cup {r})
<1> DEFINE t == Append(s, r)
<1>1. /\ Len(t) = Len(s) + 1 /\ DOMAIN t = 1..(Len(s) + 1) /\ t[Len(s) + 1] = r
      /\ DOMAIN s = 1..Len(s) /\ Len(s) \in Nat
      /\ \A k \in DOMAIN s : t[k] = s[k]
  OBVIOUS
<1>2. {s[k] : k \in DOMAIN s} = S /\ \A k, l \in DOMAIN s : k < l => s[k] < s[l]
  BY DEF InOrder
<1> HIDE DEF t
<1>3. DOMAIN t = DOMAIN s \cup {Len(s) + 1}
  BY <1>1
<1>4. {t[k] : k \in DOMAIN t} = S \cup {r}
  BY <1>1, <1>2, <1>3
<1>5. ASSUME NEW k \in DOMAIN t, NEW l \in DOMAIN t, k < l PROVE t[k] < t[l]
  <2>1. k \in DOMAIN s
    BY <1>1, <1>5
  <2>2. CASE l \in DOMAIN s
    BY <1>1, <1>2, <1>5, <2>1, <2>2
  <2>3. CASE l = Len(s) + 1
    <3>1. s[k] \in S
      BY <1>2, <2>1
    <3> QED BY <1>1, <2>1, <2>3, <3>1
  <2> QED BY <1>3, <2>2, <2>3
<1>6. InOrder(t, S \cup {r})
  BY <1>4, <1>5 DEF InOrder
<1> QED BY <1>6 DEF t

(* What one more row adds to the first rows of the keys, and to those of r. *)
LEMMA OneMoreRow ==
    ASSUME NEW n \in Nat, NEW r
    PROVE  /\ FirstOfKey(n) \in SUBSET Nat /\ RowsLike(r, n) \in SUBSET Nat
           /\ \A x \in FirstOfKey(n) \cup RowsLike(r, n) : x < n + 1
           /\ FirstOfKey(n + 1) =
                 IF \A j \in 1..n : KeyOf(j) # KeyOf(n + 1)
                 THEN FirstOfKey(n) \cup {n + 1} ELSE FirstOfKey(n)
           /\ RowsLike(r, n + 1) =
                 IF KeyOf(n + 1) = KeyOf(r)
                 THEN RowsLike(r, n) \cup {n + 1} ELSE RowsLike(r, n)
<1> DEFINE K(i) == KeyOf(i)
<1>1. 1..(n + 1) = 1..n \cup {n + 1} /\ (n + 1) - 1 = n /\ 1..n \in SUBSET Nat
  OBVIOUS
<1>2. \A x \in 1..n : x < n + 1
  OBVIOUS
<1>3. \A m : FirstOfKey(m) = {i \in 1..m : \A j \in 1..(i - 1) : K(j) # K(i)}
  BY DEF FirstOfKey
<1>4. \A m : RowsLike(r, m) = {i \in 1..m : K(i) = K(r)}
  BY DEF RowsLike
<1> HIDE DEF K
<1>5. RowsLike(r, n + 1) = IF K(n + 1) = K(r)
                                  THEN RowsLike(r, n) \cup {n + 1}
                                  ELSE RowsLike(r, n)
  <2> DEFINE R(m) == RowsLike(r, m)
  <2>1. \A i : i \in R(n + 1) <=> i \in 1..(n + 1) /\ K(i) = K(r)
    BY <1>4
  <2>2. \A i : i \in R(n) <=> i \in 1..n /\ K(i) = K(r)
    BY <1>4
  <2>3. R(n + 1) = IF K(n + 1) = K(r) THEN R(n) \cup {n + 1} ELSE R(n)
    <3> HIDE DEF R
    <3> QED BY <1>1, <2>1, <2>2
  <2> QED BY <2>3
<1>6. FirstOfKey(n + 1) = IF \A j \in 1..n : K(j) # K(n + 1)
                                 THEN FirstOfKey(n) \cup {n + 1}
                                 ELSE FirstOfKey(n)
  BY <1>1, <1>3
<1>7. /\ FirstOfKey(n) \in SUBSET Nat /\ RowsLike(r, n) \in SUBSET Nat
      /\ \A x \in FirstOfKey(n) \cup RowsLike(r, n) : x < n + 1
  BY <1>1, <1>2, <1>3, <1>4
<1> QED BY <1>5, <1>6, <1>7 DEF K

(* The first row of a group is a row, and the first of its key. *)
LEMMA FirstRows ==
    ASSUME NEW rs \in Seq(Seq(Nat)), NEW n \in Nat, Grouped(rs, n), NEW g \in DOMAIN rs
    PROVE  /\ rs[g] \in Seq(Nat) /\ Len(rs[g]) > 0
           /\ rs[g][1] \in 1..n
           /\ Firsts(rs)[g] = rs[g][1]
           /\ rs[g][1] \in FirstOfKey(n)
<1>1. rs[g] \in Seq(Nat) /\ rs[g] # <<>>
  BY DEF Grouped
<1>2. Firsts(rs)[g] = rs[g][1] /\ g \in DOMAIN Firsts(rs)
  BY DEF Firsts
<1>3. {Firsts(rs)[k] : k \in DOMAIN Firsts(rs)} = FirstOfKey(n)
  BY DEF Grouped, InOrder
<1>4. rs[g][1] \in FirstOfKey(n)
  BY <1>2, <1>3
<1>5. rs[g][1] \in 1..n
  BY <1>4 DEF FirstOfKey
<1> QED BY <1>1, <1>2, <1>4, <1>5

(* A row of a new key opens a group, after all others. *)
LEMMA OpenGroup ==
    ASSUME NEW rs \in Seq(Seq(Nat)), NEW n \in Nat, Grouped(rs, n),
           \A g \in DOMAIN rs : KeyOf(rs[g][1]) # KeyOf(n + 1)
    PROVE  Grouped(Append(rs, <<n + 1>>), n + 1)
<1> DEFINE ts == Append(rs, <<n + 1>>)
           new == Len(rs) + 1
<1>1. /\ Len(ts) = new /\ DOMAIN ts = 1..new /\ ts[new] = <<n + 1>>
      /\ DOMAIN rs = 1..Len(rs) /\ Len(rs) \in Nat
      /\ \A g \in DOMAIN rs : ts[g] = rs[g]
  <2>1. <<n + 1>> \in Seq(Nat)
    OBVIOUS
  <2> QED BY <2>1
<1>2. ts[new][1] = n + 1 /\ new \in DOMAIN ts
  BY <1>1
<1> HIDE DEF ts
<1>3. DOMAIN ts = DOMAIN rs \cup {new}
  BY <1>1
<1>4. \A g \in DOMAIN ts : ts[g] # <<>>
  <2>1. \A g \in DOMAIN rs : rs[g] # <<>>
    BY DEF Grouped
  <2>2. <<n + 1>> # <<>>
    OBVIOUS
  <2> QED BY <1>1, <1>3, <2>1, <2>2
<1>5. ASSUME NEW j \in 1..(n + 1)
      PROVE  \E g \in DOMAIN ts : KeyOf(ts[g][1]) = KeyOf(j)
  <2>1. CASE j \in 1..n
    <3>1. PICK g \in DOMAIN rs : KeyOf(rs[g][1]) = KeyOf(j)
      BY <2>1 DEF Grouped
    <3> QED BY <1>1, <1>3, <3>1
  <2>2. CASE j = n + 1
    BY <1>2, <2>2
  <2> QED BY <2>1, <2>2
<1>6. \A j \in 1..n : KeyOf(j) # KeyOf(n + 1)
  BY DEF Grouped
<1>7. FirstOfKey(n + 1) = FirstOfKey(n) \cup {n + 1}
  BY <1>6, OneMoreRow
<1>8. Firsts(ts) = Append(Firsts(rs), n + 1) /\ Firsts(rs) \in Seq(Nat)
  <2>1. ASSUME NEW g \in DOMAIN rs PROVE rs[g][1] \in Nat
    <3>1. rs[g][1] \in 1..n
      BY FirstRows
    <3> QED BY <3>1
  <2>2. /\ DOMAIN Firsts(rs) = 1..Len(rs) /\ Firsts(rs) \in Seq(Nat)
        /\ Len(Firsts(rs)) = Len(rs)
        /\ \A g \in DOMAIN rs : Firsts(rs)[g] = rs[g][1]
    BY <1>1, <2>1 DEF Firsts
  <2>3. /\ DOMAIN Append(Firsts(rs), n + 1) = 1..new
        /\ Append(Firsts(rs), n + 1)[new] = n + 1
        /\ \A g \in DOMAIN rs : Append(Firsts(rs), n + 1)[g] = rs[g][1]
    BY <1>1, <2>2
  <2>4. /\ DOMAIN Firsts(ts) = 1..new
        /\ Firsts(ts)[new] = n + 1
        /\ \A g \in DOMAIN rs : Firsts(ts)[g] = rs[g][1]
    BY <1>1, <1>2, <1>3 DEF Firsts
  <2>5. Append(Firsts(rs), n + 1) = [g \in 1..new |-> Append(Firsts(rs), n + 1)[g]]
    BY <2>2, <2>3
  <2>6. Firsts(ts) = [g \in 1..new |-> Firsts(ts)[g]]
    BY <1>1 DEF Firsts
  <2>7. \A g \in 1..new : Firsts(ts)[g] = Append(Firsts(rs), n + 1)[g]
    BY <1>1, <1>3, <2>3, <2>4
  <2> QED BY <2>2, <2>5, <2>6, <2>7
<1>9. InOrder(Firsts(ts), FirstOfKey(n + 1))
  <2>1. /\ FirstOfKey(n) \in SUBSET Nat
        /\ \A x \in FirstOfKey(n) : x < n + 1
    BY OneMoreRow
  <2>2. InOrder(Firsts(rs), FirstOfKey(n))
    BY DEF Grouped
  <2>3. InOrder(Append(Firsts(rs), n + 1), FirstOfKey(n) \cup {n + 1})
    BY <1>8, <2>1, <2>2, InOrderAppend
  <2> QED BY <1>7, <1>8, <2>3
<1>10. ASSUME NEW g \in DOMAIN ts
       PROVE  InOrder(ts[g], RowsLike(ts[g][1], n + 1))
  <2>1. CASE g \in DOMAIN rs
    <3>1. RowsLike(rs[g][1], n + 1) = RowsLike(rs[g][1], n)
      BY <2>1, OneMoreRow
    <3> QED BY <1>1, <2>1, <3>1 DEF Grouped
  <2>2. CASE g = new
    <3>1. RowsLike(n + 1, n + 1) = {n + 1}
      BY <1>6 DEF RowsLike
    <3>2. InOrder(<<n + 1>>, {n + 1})
      BY DEF InOrder
    <3> QED BY <1>1, <1>2, <2>2, <3>1, <3>2
  <2> QED BY <1>3, <2>1, <2>2
<1>11. Grouped(ts, n + 1)
  BY <1>4, <1>5, <1>9, <1>10 DEF Grouped
<1> QED BY <1>11 DEF ts

(* A row of a known key goes to the end of its group. *)
LEMMA JoinGroup ==
    ASSUME NEW rs \in Seq(Seq(Nat)), NEW n \in Nat, Grouped(rs, n),
           NEW same \in SUBSET DOMAIN rs, same # {},
           same = {g \in DOMAIN rs : KeyOf(rs[g][1]) = KeyOf(n + 1)}
    PROVE  LET ts == [g \in DOMAIN rs |-> IF g \in same THEN Append(rs[g], n + 1) ELSE rs[g]]
           IN  Grouped(ts, n + 1) /\ ts \in Seq(Seq(Nat))
<1> DEFINE ts == [g \in DOMAIN rs |-> IF g \in same THEN Append(rs[g], n + 1) ELSE rs[g]]
<1>0. \A g \in DOMAIN rs : rs[g] \in Seq(Nat) /\ Len(rs[g]) > 0 /\ rs[g][1] \in 1..n
  BY FirstRows
<1>1. /\ DOMAIN ts = DOMAIN rs /\ DOMAIN rs = 1..Len(rs) /\ Len(rs) \in Nat
      /\ \A g \in same : ts[g] = Append(rs[g], n + 1)
      /\ \A g \in DOMAIN rs \ same : ts[g] = rs[g]
  OBVIOUS
<1>2. ASSUME NEW g \in DOMAIN rs
      PROVE  ts[g] \in Seq(Nat) /\ ts[g] # <<>> /\ ts[g][1] = rs[g][1]
  <2>1. CASE g \in same
    <3>1. ts[g] = Append(rs[g], n + 1)
      BY <1>1, <2>1
    <3> HIDE DEF ts
    <3>2. Len(ts[g]) = Len(rs[g]) + 1 /\ ts[g] \in Seq(Nat) /\ ts[g][1] = rs[g][1]
      BY <1>0, <3>1
    <3> QED BY <1>0, <3>2
  <2>2. CASE g \notin same
    BY <1>0, <1>1, <2>2
  <2> QED BY <2>1, <2>2
<1>3. ts \in Seq(Seq(Nat))
  <2> DEFINE Lists == Seq(Nat)
  <2>1. \A g \in 1..Len(rs) : ts[g] \in Lists
    BY <1>1, <1>2
  <2> HIDE DEF Lists
  <2>2. ts \in Seq(Lists)
    BY <1>1, <2>1
  <2> QED BY <2>2 DEF Lists
<1> HIDE DEF ts
<1>4. \A g \in DOMAIN ts : ts[g] # <<>>
  BY <1>1, <1>2
<1>5. PICK h \in DOMAIN rs : h \in same /\ KeyOf(rs[h][1]) = KeyOf(n + 1)
  OBVIOUS
<1>6. ASSUME NEW j \in 1..(n + 1)
      PROVE  \E g \in DOMAIN ts : KeyOf(ts[g][1]) = KeyOf(j)
  <2>1. CASE j \in 1..n
    <3>1. PICK g \in DOMAIN rs : KeyOf(rs[g][1]) = KeyOf(j)
      BY <2>1 DEF Grouped
    <3> QED BY <1>1, <1>2, <3>1
  <2>2. CASE j = n + 1
    BY <1>1, <1>2, <1>5, <2>2
  <2> QED BY <2>1, <2>2
<1>7. FirstOfKey(n + 1) = FirstOfKey(n)
  <2>1. rs[h][1] \in 1..n
    BY <1>0, <1>5
  <2> QED BY <1>5, <2>1, OneMoreRow
<1>8. Firsts(ts) = Firsts(rs)
  BY <1>1, <1>2 DEF Firsts
<1>9. InOrder(Firsts(ts), FirstOfKey(n + 1))
  BY <1>7, <1>8 DEF Grouped
<1>10. ASSUME NEW g \in DOMAIN ts
       PROVE  InOrder(ts[g], RowsLike(ts[g][1], n + 1))
  <2>0. InOrder(rs[g], RowsLike(rs[g][1], n)) /\ rs[g] \in Seq(Nat)
    BY <1>0, <1>1 DEF Grouped
  <2>1. CASE g \in same
    <3>1. RowsLike(rs[g][1], n + 1) = RowsLike(rs[g][1], n) \cup {n + 1}
      BY <2>1, OneMoreRow
    <3>2. /\ RowsLike(rs[g][1], n) \in SUBSET Nat
          /\ \A x \in RowsLike(rs[g][1], n) : x < n + 1
      BY OneMoreRow
    <3>3. InOrder(Append(rs[g], n + 1), RowsLike(rs[g][1], n) \cup {n + 1})
      <4> DEFINE S == RowsLike(rs[g][1], n)
      <4>1. n + 1 \in Nat /\ S \in SUBSET Nat /\ (\A x \in S : x < n + 1) /\ InOrder(rs[g], S)
        BY <2>0, <3>2
      <4> HIDE DEF S
      <4>2. InOrder(Append(rs[g], n + 1), S \cup {n + 1})
        BY <2>0, <4>1, InOrderAppend, Zenon
      <4> QED BY <4>2 DEF S
    <3> QED BY <1>1, <1>2, <2>1, <3>1, <3>3
  <2>2. CASE g \notin same
    <3>1. RowsLike(rs[g][1], n + 1) = RowsLike(rs[g][1], n)
      BY <1>1, <2>2, OneMoreRow
    <3> QED BY <1>1, <1>2, <2>0, <2>2, <3>1
  <2> QED BY <2>1, <2>2
<1>11. Grouped(ts, n + 1)
  BY <1>4, <1>6, <1>9, <1>10 DEF Grouped
<1> QED BY <1>3, <1>11 DEF ts

LEMMA InitKernel == KernelInit => KernelInv
<1> SUFFICES ASSUME KernelInit PROVE KernelInv
  OBVIOUS
<1>1. KernelTypeInv
  BY AggregateKernelAssumption DEF BatchesOfRows, KernelInit, KernelTypeInv
<1>2. Grouped(<<>>, 0)
  BY DEF Grouped, Firsts, InOrder, FirstOfKey
<1> QED BY <1>1, <1>2 DEF KernelInv, KernelInit, GroupedSoFar

LEMMA GroupRowInv == ASSUME KernelInv, GroupRow PROVE KernelInv'
<1> DEFINE same == {g \in DOMAIN rows_per_group :
                       KeyOf(rows_per_group[g][1]) = KeyOf(next + 1)}
<1>1. /\ rows_per_group \in Seq(Seq(Nat)) /\ next \in Nat /\ next < Len(batch.rows)
      /\ Grouped(rows_per_group, next)
      /\ Len(batch.rows) \in Nat /\ DOMAIN batch.rows = 1..Len(batch.rows)
      /\ stage = "group" /\ request.group_by # <<>>
  BY DEF KernelInv, KernelTypeInv, GroupRow
<1>2. batch' = batch /\ request' = request /\ stage' = stage /\ next' = next + 1
  BY DEF GroupRow, call
<1>3. rows_per_group' =
          IF same = {} THEN Append(rows_per_group, <<next + 1>>)
          ELSE [g \in DOMAIN rows_per_group |->
                  IF g \in same THEN Append(rows_per_group[g], next + 1)
                  ELSE rows_per_group[g]]
  BY DEF GroupRow
<1>4. Grouped(rows_per_group', next + 1) /\ rows_per_group' \in Seq(Seq(Nat))
  <2>1. CASE same = {}
    <3>1. <<next + 1>> \in Seq(Nat)
      BY <1>1
    <3>2. rows_per_group' = Append(rows_per_group, <<next + 1>>)
      BY <1>3, <2>1
    <3>3. Append(rows_per_group, <<next + 1>>) \in Seq(Seq(Nat))
      <4> DEFINE Lists == Seq(Nat)
      <4>1. rows_per_group \in Seq(Lists) /\ <<next + 1>> \in Lists
        BY <1>1, <3>1
      <4> HIDE DEF Lists
      <4>2. Append(rows_per_group, <<next + 1>>) \in Seq(Lists)
        BY <4>1
      <4> QED BY <4>2 DEF Lists
    <3>4. Grouped(Append(rows_per_group, <<next + 1>>), next + 1)
      BY <1>1, <2>1, OpenGroup
    <3> QED BY <3>2, <3>3, <3>4
  <2>2. CASE same # {}
    <3>1. same \in SUBSET DOMAIN rows_per_group
      OBVIOUS
    <3> QED BY <1>1, <1>3, <2>2, <3>1, JoinGroup
  <2> QED BY <2>1, <2>2
<1>5. KernelTypeInv'
  BY <1>1, <1>2, <1>4 DEF KernelTypeInv
<1>6. Grouped(rows_per_group, next)'
  <2>1. \A i : KeyOf(i)' = KeyOf(i)
    BY <1>2 DEF KeyOf
  <2> QED BY <1>2, <1>4, <2>1
          DEF Grouped, Firsts, InOrder, FirstOfKey, RowsLike
<1> QED BY <1>1, <1>2, <1>5, <1>6 DEF KernelInv

(* The steps that group no row leave the groups as they are. *)
LEMMA QuietKernel ==
    ASSUME KernelInv,
           \/ ResolveGroupBy \/ CheckAggregations \/ NoRowEncoding
           \/ TakeKeys \/ Reduce \/ FinishBatch \/ UNCHANGED kernelVars
    PROVE  KernelInv'
<1>1. /\ batch' = batch /\ request' = request /\ next' = next
      /\ rows_per_group' = rows_per_group
  BY DEF ResolveGroupBy, CheckAggregations, NoRowEncoding, TakeKeys,
         Reduce, FinishBatch, Fail, call, kernelVars
<1>2. /\ stage' \in {"resolve", "check"} => stage \in {"resolve", "check"}
      /\ stage' = "group" => stage \in {"check", "group"}
      /\ request.group_by = <<>> /\ stage' = "reduce" => stage = "reduce"
  BY DEF ResolveGroupBy, CheckAggregations, NoRowEncoding, TakeKeys,
         Reduce, FinishBatch, Fail, call, kernelVars
<1>3. KernelTypeInv'
  BY <1>1, <1>2 DEF KernelInv, KernelTypeInv
<1>4. Grouped(rows_per_group, next)' <=> Grouped(rows_per_group, next)
  <2>1. \A i : KeyOf(i)' = KeyOf(i)
    BY <1>1 DEF KeyOf
  <2> QED BY <1>1, <2>1
          DEF Grouped, Firsts, InOrder, FirstOfKey, RowsLike
<1>5. ASSUME request.group_by = <<>>
      PROVE  /\ stage' = "group" => rows_per_group' = <<>> /\ next' = 0
             /\ (\A g \in DOMAIN rows_per_group : InOrder(rows_per_group[g], DOMAIN batch.rows))'
             /\ GroupedSoFar'
  BY <1>1, <1>2, <1>5 DEF KernelInv, KernelTypeInv, GroupedSoFar, InOrder
<1> QED BY <1>1, <1>3, <1>4, <1>5 DEF KernelInv

LEMMA GroupAllInv == ASSUME KernelInv, GroupAll PROVE KernelInv'
<1> DEFINE all == [i \in DOMAIN batch.rows |-> i]
<1>1. /\ batch' = batch /\ request' = request /\ next' = Len(batch.rows)
      /\ stage' = "reduce" /\ rows_per_group' = <<all>> /\ request.group_by = <<>>
      /\ Len(batch.rows) \in Nat /\ DOMAIN batch.rows = 1..Len(batch.rows)
  BY DEF GroupAll, call, KernelInv, KernelTypeInv
<1>2. all \in Seq(Nat) /\ InOrder(all, DOMAIN batch.rows)
  BY <1>1 DEF InOrder
<1> HIDE DEF all
<1>3. <<all>> \in Seq(Seq(Nat)) /\ Len(<<all>>) = 1 /\ <<all>>[1] = all
  <2> DEFINE Lists == Seq(Nat)
  <2>1. all \in Lists
    BY <1>2
  <2> HIDE DEF Lists
  <2>2. <<all>> \in Seq(Lists)
    BY <2>1
  <2> QED BY <2>2 DEF Lists
<1>4. KernelTypeInv'
  BY <1>1, <1>3 DEF KernelTypeInv
<1>5. GroupedSoFar'
  BY <1>1, <1>2, <1>3 DEF GroupedSoFar, InOrder
<1>6. (\A g \in DOMAIN rows_per_group : InOrder(rows_per_group[g], DOMAIN batch.rows))'
  BY <1>1, <1>2, <1>3 DEF InOrder
<1> QED BY <1>1, <1>4, <1>5, <1>6 DEF KernelInv

LEMMA SpecKernel == KernelSpec => []KernelInv
<1>1. KernelInv /\ [KernelNext]_kernelVars => KernelInv'
  <2> SUFFICES ASSUME KernelInv, [KernelNext]_kernelVars PROVE KernelInv'
    OBVIOUS
  <2>1. CASE GroupRow
    BY <2>1, GroupRowInv
  <2>2. CASE GroupAll
    BY <2>2, GroupAllInv
  <2>3. CASE ~ (GroupRow \/ GroupAll)
    <3>1. \/ ResolveGroupBy \/ CheckAggregations \/ NoRowEncoding
          \/ TakeKeys \/ Reduce \/ FinishBatch \/ UNCHANGED kernelVars
      BY <2>3 DEF KernelNext, Returned
    <3> QED BY <3>1, QuietKernel
  <2> QED BY <2>1, <2>2, <2>3
<1> QED BY <1>1, InitKernel, PTL DEF KernelSpec

(* After every row of any batch, each row so far is in the one group of    *)
(* its key, every group lists its rows in the order of the batch, and the  *)
(* groups are in the order in which their keys were first seen.            *)
THEOREM RowsAreGrouped == KernelSpec => []GroupedSoFar
<1>1. KernelInv => GroupedSoFar
  BY DEF KernelInv, Grouped, Firsts, GroupedSoFar
<1> QED BY <1>1, SpecKernel, PTL

-----------------------------------------------------------------------------
(***************************************************************************)
(* What one cell is: the folds over the rows of a group, row by row.       *)
(***************************************************************************)
LEMMA TotalIsSum ==
    ASSUME NEW T, IsFiniteSet(T), NEW name, NEW f,
           \A i \in T : batch.rows[i][name] \in Int /\ f[i] = batch.rows[i][name]
    PROVE  Total(T, name) = SumOver(f, T)
<1> DEFINE cell(i) == batch.rows[i][name]
           w(g, s) == IF s = {} THEN 0 ELSE cell(CHOOSE x \in s : TRUE) + g[s \ {CHOOSE x \in s : TRUE}]
           c == CHOOSE g : g = [s \in SUBSET T |-> w(g, s)]
<1>1. Total(T, name) = c[T]
  BY Zenon DEF Total, MapThenSumSet, MapThenFoldSet
<1>2. ASSUME NEW g, NEW s \in SUBSET T PROVE w(g, s) = SumStep(f, g, s)
  <2>1. CASE s = {}
    BY <2>1 DEF SumStep
  <2>2. CASE s # {}
    <3> DEFINE x == CHOOSE x \in s : TRUE
    <3>1. x \in T
      BY <2>2
    <3> HIDE DEF x
    <3>2. f[x] = cell(x)
      BY <3>1
    <3> QED BY <2>2, <3>2 DEF SumStep, x
  <2> QED BY <2>1, <2>2
<1> HIDE DEF w
<1>3. ASSUME NEW g PROVE Summing(f, T, g) <=> g = [s \in SUBSET T |-> w(g, s)]
  BY <1>2 DEF Summing
<1>4. PICK g \in [SUBSET T -> Int] : Summing(f, T, g) /\ SumOver(f, T) = g[T]
  BY SumIs
<1>5. c = [s \in SUBSET T |-> w(c, s)]
  <2>1. \E h : h = [s \in SUBSET T |-> w(h, s)]
    BY <1>3, <1>4
  <2> QED BY <2>1
<1> HIDE DEF c
<1>6. Summing(f, T, c)
  BY <1>3, <1>5
<1>7. c[T] = g[T]
  BY <1>4, <1>6, SumsAgree
<1> QED BY <1>1, <1>4, <1>7

LEMMA TotalAdd ==
    ASSUME NEW T, IsFiniteSet(T), NEW name, \A i \in T : batch.rows[i][name] \in Int,
           NEW x, x \notin T, batch.rows[x][name] \in Int
    PROVE  /\ Total(T, name) \in Int
           /\ Total(T \cup {x}, name) = Total(T, name) + batch.rows[x][name]
<1> DEFINE U == T \cup {x}
           f == [i \in U |-> batch.rows[i][name]]
<1>1. IsFiniteSet(U) /\ U \ {x} = T /\ x \in U
  BY FS_AddElement
<1>2. \A i \in U : batch.rows[i][name] \in Int /\ f[i] = batch.rows[i][name]
  OBVIOUS
<1> HIDE DEF f, U
<1>3. Total(U, name) = SumOver(f, U)
  BY <1>1, <1>2, TotalIsSum
<1>4. Total(T, name) = SumOver(f, T)
  BY <1>1, <1>2, TotalIsSum
<1>5. SumOver(f, U) = f[x] + SumOver(f, T) /\ SumOver(f, T) \in Int
  BY <1>1, <1>2, SumWithout
<1> QED BY <1>1, <1>2, <1>3, <1>4, <1>5 DEF U

LEMMA TotalOfNone == ASSUME NEW name PROVE Total({}, name) = 0
<1>1. IsFiniteSet({}) /\ \A i \in {} : batch.rows[i][name] \in Int /\ <<>>[i] = batch.rows[i][name]
  BY FS_EmptySet
<1>2. Total({}, name) = SumOver(<<>>, {})
  BY <1>1, TotalIsSum
<1> QED BY <1>2, SumOfNone

(* The value of an accumulator of a numeric column. *)
Amount(type) == IF type = "float" THEN Seq(Int) ELSE Int
Accumulator(type) ==
    {a \in [sum : Amount(type) \cup {NullCell, Overflow}, count : Nat] :
        a.count = 0 <=> a.sum = NullCell}

LEMMA NumbersAreIntegers ==
    ASSUME NEW type \in Numeric
    PROVE  NumbersOf[type] \subseteq Int
<1>1. /\ NumbersOf["sint"] = Int64 /\ NumbersOf["uint"] = U64
      /\ NumbersOf["decimal"] = Mantissa /\ NumbersOf["float"] = Int
  BY DEF NumbersOf
<1>2. Int64 \subseteq Int /\ U64 \subseteq Int /\ Mantissa \subseteq Int
  BY AggregateKernelAssumption
<1> QED BY <1>1, <1>2 DEF Numeric

LEMMA AddCellType ==
    ASSUME NEW type \in Numeric, NEW a \in Accumulator(type),
           NEW c \in NumbersOf[type] \cup {NullCell}
    PROVE  AddCell(type, a, c) \in Accumulator(type)
<1>1. CASE IsNullCell(c) \/ a.sum = Overflow
  BY <1>1 DEF AddCell
<1>2. CASE ~ (IsNullCell(c) \/ a.sum = Overflow)
  <2> DEFINE s == IF a.count = 0 THEN Num(type, c)
                  ELSE Checked(type, Plus(type, a.sum, Num(type, c)))
  <2>1. c \in Int
    BY <1>2, NumbersAreIntegers DEF IsNullCell
  <2>2. a.count \in Nat /\ (a.count # 0 => a.sum \in Amount(type))
    BY <1>2 DEF Accumulator
  <2>3. Num(type, c) \in Amount(type)
    <3>1. <<c>> \in Seq(Int)
      BY <2>1
    <3> QED BY <2>1, <3>1 DEF Num, Amount
  <2>4. a.count # 0 => Plus(type, a.sum, Num(type, c)) \in Amount(type)
    <3>1. CASE type = "float"
      BY <2>2, <2>3, <3>1 DEF Amount, Plus
    <3>2. CASE type # "float"
      BY <2>2, <2>3, <3>2 DEF Amount, Plus
    <3> QED BY <3>1, <3>2
  <2>5. s \in Amount(type) \cup {Overflow}
    BY <2>3, <2>4 DEF Checked
  <2>6. s # NullCell
    BY <2>5, AggregateKernelAssumption DEF Amount
  <2>7. AddCell(type, a, c) = [count |-> a.count + 1, sum |-> s]
    BY <1>2 DEF AddCell
  <2> HIDE DEF s
  <2> QED BY <2>2, <2>5, <2>6, <2>7 DEF Accumulator
<1> QED BY <1>1, <1>2

(* Cells of a numeric column, of the rows in a list. *)
Listed(list, name) ==
    /\ Len(list) \in Nat /\ DOMAIN list = 1..Len(list)
    /\ \A k \in DOMAIN list :
          batch.rows[list[k]][name] \in NumbersOf[batch.types[name]] \cup {NullCell}

NoneAdded == [sum |-> NullCell, count |-> 0]

(* The accumulator after each row of a list. *)
LEMMA SumAndCountByRow ==
    ASSUME NEW list, NEW name, batch.types[name] \in Numeric, Listed(list, name)
    PROVE  \E acc : /\ acc[0] = NoneAdded
                    /\ \A m \in 0..(Len(list) - 1) :
                          acc[m + 1] = AddCell(batch.types[name], acc[m],
                                               batch.rows[list[m + 1]][name])
                    /\ acc[Len(list)] = SumAndCount(name, list)
<1> DEFINE n == Len(list)
           type == batch.types[name]
           cell(k) == batch.rows[list[k]][name]
           A == Accumulator(type)
           w(g, s) == IF s = {} THEN NoneAdded ELSE AddCell(type, g[s \ {Max(s)}], cell(Max(s)))
           c == CHOOSE g : g = [s \in SUBSET DOMAIN list |-> w(g, s)]
           step == [p \in A \X (1..n) |-> AddCell(type, p[1], cell(p[2]))]
<1>1. SumAndCount(name, list) = c[DOMAIN list]
  BY Zenon DEF SumAndCount, FoldLeft, MapThenFoldSet, NoneAdded
<1>2. n \in Nat /\ DOMAIN list = 1..n /\ \A k \in 1..n : cell(k) \in NumbersOf[type] \cup {NullCell}
  BY DEF Listed
<1>3. NoneAdded \in A
  BY DEF NoneAdded, Accumulator
<1>4. \A a \in A, k \in 1..n : AddCell(type, a, cell(k)) \in A
  BY <1>2, AddCellType
<1> HIDE DEF A, cell, n, type
<1>5. step \in [A \X (1..n) -> A] /\ \A a \in A, k \in 1..n : step[<<a, k>>] = AddCell(type, a, cell(k))
  BY <1>4
<1> HIDE DEF step, w
<1>6. PICK g \in [SUBSET (1..n) -> A] : PrefixFolding(n, NoneAdded, step, g)
  BY <1>2, <1>3, <1>5, PrefixFold
<1>7. ASSUME NEW s \in SUBSET (1..n)
      PROVE  (IF s = {} THEN NoneAdded ELSE step[<<g[s \ {Max(s)}], Max(s)>>]) = w(g, s)
  <2>1. CASE s = {}
    BY <2>1 DEF w
  <2>2. CASE s # {}
    <3>1. Max(s) \in 1..n
      BY <1>2, <2>2, MaxIn
    <3>2. g[s \ {Max(s)}] \in A
      OBVIOUS
    <3> QED BY <1>5, <2>2, <3>1, <3>2 DEF w
  <2> QED BY <2>1, <2>2
<1>8. g = [s \in SUBSET (1..n) |-> w(g, s)]
  BY <1>6, <1>7 DEF PrefixFolding
<1>9. c = [s \in SUBSET (1..n) |-> w(c, s)]
  <2>1. \E h : h = [s \in SUBSET DOMAIN list |-> w(h, s)]
    BY <1>2, <1>8
  <2> QED BY <1>2, <2>1
<1> HIDE DEF c
<1>10. \A s \in SUBSET (1..n) : c[s] = w(c, s)
  BY <1>9
<1> DEFINE acc == [m \in 0..n |-> c[1..m]]
<1>11. acc[0] = NoneAdded
  <2>1. 0 \in 0..n /\ 1..0 = {}
    BY <1>2
  <2> QED BY <1>10, <2>1 DEF w
<1>12. ASSUME NEW m \in 0..(n - 1)
       PROVE  acc[m + 1] = AddCell(type, acc[m], cell(m + 1))
  <2>1. m \in 0..n /\ m + 1 \in 0..n /\ m \in Nat /\ 1..(m + 1) \in SUBSET (1..n)
    BY <1>2
  <2>2. c[1..(m + 1)] = AddCell(type, c[1..m], cell(m + 1))
    <3>1. /\ 1..(m + 1) # {} /\ Max(1..(m + 1)) = m + 1
          /\ (1..(m + 1)) \ {m + 1} = 1..m
      BY <2>1, FirstNumbers
    <3>2. c[1..(m + 1)] = w(c, 1..(m + 1))
      BY <1>10, <2>1
    <3> QED BY <3>1, <3>2 DEF w
  <2> QED BY <2>1, <2>2
<1>13. acc[n] = SumAndCount(name, list)
  BY <1>1, <1>2
<1> HIDE DEF acc
<1> QED BY <1>11, <1>12, <1>13 DEF cell, n, type

(* A running total of the rows T leaves the mantissa. *)
Beyond(T, name) == \E j \in T : Total({i \in T : i <= j}, name) \notin Mantissa

(* The accumulator a is what the rows T, none of them null, make. *)
Reduced(type, name, T, a) ==
    IF type = "decimal" /\ Beyond(T, name) THEN a.sum = Overflow
    ELSE /\ a.count = Cardinality(T)
         /\ T = {} => a.sum = NullCell
         /\ T # {} /\ type # "float" => a.sum = Total(T, name)
         /\ T # {} /\ type = "float" => a.sum \in Seq(Int) /\ Addends(a.sum, T, name)

(* In a set that is extended at its end, every row keeps its rank. *)
LEMMA Ranks ==
    ASSUME NEW T \in SUBSET Nat, IsFiniteSet(T), NEW x \in Nat, \A i \in T : i < x
    PROVE  LET U == T \cup {x}
           IN  /\ IsFiniteSet(U) /\ Cardinality(T) \in Nat
               /\ Cardinality(U) = Cardinality(T) + 1
               /\ {i \in U : i <= x} = U
               /\ \A j \in T : /\ {i \in U : i <= j} = {i \in T : i <= j}
                               /\ Cardinality({i \in T : i <= j}) \in 1..Cardinality(T)
<1> DEFINE U == T \cup {x}
<1>1. x \notin T
  OBVIOUS
<1>2. IsFiniteSet(U) /\ Cardinality(T) \in Nat /\ Cardinality(U) = Cardinality(T) + 1
  BY <1>1, FS_AddElement, FS_CardinalityType
<1>3. {i \in U : i <= x} = U
  <2>1. \A i \in U : i <= x
    OBVIOUS
  <2> HIDE DEF U
  <2> QED BY <2>1
<1>4. ASSUME NEW j \in T
      PROVE  /\ {i \in U : i <= j} = {i \in T : i <= j}
             /\ Cardinality({i \in T : i <= j}) \in 1..Cardinality(T)
  <2> DEFINE below == {i \in T : i <= j}
  <2>1. {i \in U : i <= j} = below
    OBVIOUS
  <2>2. below \in SUBSET T /\ j \in below
    OBVIOUS
  <2> HIDE DEF below
  <2>3. IsFiniteSet(below) /\ Cardinality(below) \in Nat /\ Cardinality(below) <= Cardinality(T)
    BY <2>2, FS_Subset, FS_CardinalityType
  <2>4. Cardinality(below) # 0
    BY <2>2, <2>3, FS_EmptySet
  <2> QED BY <1>2, <2>1, <2>3, <2>4 DEF below
<1> QED BY <1>2, <1>3, <1>4

(* Addends are listed in the order of the rows. *)
LEMMA AddendsAppend ==
    ASSUME NEW T \in SUBSET Nat, IsFiniteSet(T), NEW x \in Nat, \A i \in T : i < x,
           NEW name, batch.rows[x][name] \in Int,
           NEW s \in Seq(Int), Addends(s, T, name)
    PROVE  Addends(s \o <<batch.rows[x][name]>>, T \cup {x}, name)
<1> DEFINE U == T \cup {x}
           c == batch.rows[x][name]
           n == Cardinality(T)
           t == s \o <<c>>
<1>1. /\ n \in Nat /\ Cardinality(U) = n + 1 /\ {i \in U : i <= x} = U
      /\ \A j \in T : /\ {i \in U : i <= j} = {i \in T : i <= j}
                      /\ Cardinality({i \in T : i <= j}) \in 1..n
  BY Ranks
<1>2. DOMAIN s = 1..n /\ \A i \in T : s[Cardinality({j \in T : j <= i})] = batch.rows[i][name]
  BY DEF Addends
<1>3. <<c>> \in Seq(Int) /\ Len(s) = n
  BY <1>1, <1>2
<1>4. DOMAIN t = 1..(n + 1) /\ t[n + 1] = c /\ \A k \in 1..n : t[k] = s[k]
  BY <1>1, <1>3
<1> HIDE DEF t, n, c
<1>5. ASSUME NEW i \in U PROVE t[Cardinality({j \in U : j <= i})] = batch.rows[i][name]
  <2>1. CASE i \in T
    BY <1>1, <1>2, <1>4, <2>1
  <2>2. CASE i = x
    BY <1>1, <1>4, <2>2 DEF c
  <2> QED BY <2>1, <2>2
<1>6. DOMAIN t = 1..Cardinality(U)
  BY <1>1, <1>4
<1> HIDE DEF U
<1>7. Addends(t, U, name)
  BY <1>5, <1>6 DEF Addends
<1> QED BY <1>7 DEF t, c, U

LEMMA OneMoreCell ==
    ASSUME NEW T \in SUBSET Nat, IsFiniteSet(T), NEW x \in Nat, \A i \in T : i < x,
           NEW name, NEW type \in Numeric,
           \A i \in T \cup {x} : batch.rows[i][name] \in NumbersOf[type],
           NEW a \in Accumulator(type), Reduced(type, name, T, a)
    PROVE  Reduced(type, name, T \cup {x}, AddCell(type, a, batch.rows[x][name]))
<1> DEFINE U == T \cup {x}
           c == batch.rows[x][name]
           b == AddCell(type, a, c)
           n == Cardinality(T)
<1>1. /\ IsFiniteSet(U) /\ n \in Nat /\ Cardinality(U) = n + 1 /\ {i \in U : i <= x} = U
      /\ \A j \in T : {i \in U : i <= j} = {i \in T : i <= j}
  BY Ranks
<1>2. c \in NumbersOf[type] /\ c \in Int /\ \A i \in T : batch.rows[i][name] \in Int
  BY NumbersAreIntegers
<1>3. Total(T, name) \in Int /\ Total(U, name) = Total(T, name) + c /\ x \notin T
  <2>1. x \notin T
    OBVIOUS
  <2> QED BY <1>2, <2>1, TotalAdd
<1>4. T = {} => Total(T, name) = 0 /\ n = 0
  BY TotalOfNone, FS_EmptySet
<1>5. T # {} => n # 0
  BY FS_EmptySet
<1>6. ~ IsNullCell(c) /\ \A k \in Int : k # Overflow /\ k # NullCell
  BY <1>2, AggregateKernelAssumption DEF IsNullCell
<1>7. NullCell # Overflow /\ \A k \in Seq(Int) : k # Overflow /\ k # NullCell
  BY AggregateKernelAssumption
<1>8. Beyond(U, name) <=> Beyond(T, name) \/ Total(U, name) \notin Mantissa
  BY <1>1 DEF Beyond
<1> HIDE DEF U, n, c
<1>9. CASE type = "decimal" /\ Beyond(T, name)
  <2>1. b = a /\ a.sum = Overflow
    BY <1>9 DEF Reduced, AddCell
  <2> QED BY <1>8, <1>9, <2>1 DEF Reduced, U, c
<1>10. CASE ~ (type = "decimal" /\ Beyond(T, name))
  <2>1. /\ a.count = n /\ (T = {} => a.sum = NullCell)
        /\ T # {} /\ type # "float" => a.sum = Total(T, name)
        /\ T # {} /\ type = "float" => a.sum \in Seq(Int) /\ Addends(a.sum, T, name)
    BY <1>10 DEF Reduced, n
  <2>2. a.sum # Overflow
    BY <1>3, <1>6, <1>7, <2>1
  <2>3. b = [count |-> n + 1,
             sum |-> IF n = 0 THEN Num(type, c)
                     ELSE Checked(type, Plus(type, a.sum, Num(type, c)))]
    BY <1>6, <2>1, <2>2 DEF AddCell
  <2> HIDE DEF b
  <2>4. U # {}
    BY DEF U
  <2>5. CASE type = "float"
    <3>1. b.sum \in Seq(Int) /\ Addends(b.sum, U, name)
      <4>1. CASE T = {}
        <5>1. b.sum = <<c>> /\ <<c>> \in Seq(Int)
          BY <1>2, <1>4, <2>3, <2>5, <4>1 DEF Num
        <5>2. Addends(<<>>, T, name)
          BY <1>4, <4>1 DEF Addends, n
        <5>3. Addends(<<>> \o <<c>>, U, name)
          <6>1. <<>> \in Seq(Int)
            OBVIOUS
          <6> QED BY <1>2, <5>2, <6>1, AddendsAppend DEF U, c
        <5>4. <<>> \o <<c>> = <<c>>
          BY <5>1
        <5> QED BY <5>1, <5>3, <5>4
      <4>2. CASE T # {}
        <5>1. b.sum = a.sum \o <<c>>
          BY <1>5, <2>3, <2>5, <4>2 DEF Num, Plus, Checked
        <5>2. <<c>> \in Seq(Int) /\ a.sum \in Seq(Int)
          BY <1>2, <2>1, <2>5, <4>2
        <5>3. Addends(a.sum \o <<c>>, U, name)
          BY <1>2, <2>1, <2>5, <4>2, AddendsAppend DEF U, c
        <5> QED BY <5>1, <5>2, <5>3
      <4> QED BY <4>1, <4>2
    <3>2. b.count = Cardinality(U)
      BY <1>1, <2>3
    <3> QED BY <2>4, <2>5, <3>1, <3>2 DEF Reduced, U, b, c
  <2>6. CASE type # "float"
    <3>1. CASE T = {}
      <4>1. b.sum = c /\ Total(U, name) = c
        BY <1>2, <1>3, <1>4, <2>3, <2>6, <3>1 DEF Num
      <4>2. type = "decimal" => c \in Mantissa
        BY <1>2 DEF NumbersOf
      <4>3. ~ (type = "decimal" /\ Beyond(U, name))
        BY <1>8, <4>1, <4>2, <1>10
      <4> QED BY <1>1, <2>3, <2>4, <2>6, <4>1, <4>3 DEF Reduced, U, b, c
    <3>2. CASE T # {}
      <4>1. b.sum = Checked(type, Total(U, name)) /\ b.count = Cardinality(U)
        BY <1>1, <1>3, <1>5, <2>1, <2>3, <2>6, <3>2 DEF Num, Plus
      <4> QED BY <1>8, <1>10, <2>4, <2>6, <4>1 DEF Reduced, Checked, U, b, c
    <3> QED BY <3>1, <3>2
  <2> QED BY <2>5, <2>6
<1> QED BY <1>9, <1>10

(* The non-null rows among the first m of a list. *)
NonNullOf(list, m, name) ==
    {i \in {list[k] : k \in 1..m} : ~ IsNullCell(batch.rows[i][name])}

Increasing(list) == \A k, l \in DOMAIN list : k < l => list[k] < list[l]

LEMMA NextOfList ==
    ASSUME NEW list \in Seq(Nat), Increasing(list), NEW name,
           NEW m \in Nat, m < Len(list)
    PROVE  LET T == NonNullOf(list, m, name)
               x == list[m + 1]
           IN  /\ T \in SUBSET Nat /\ IsFiniteSet(T) /\ x \in Nat /\ \A i \in T : i < x
               /\ NonNullOf(list, m + 1, name) =
                     IF IsNullCell(batch.rows[x][name]) THEN T ELSE T \cup {x}
<1> DEFINE T == NonNullOf(list, m, name)
           x == list[m + 1]
           S == {list[k] : k \in 1..m}
<1>1. /\ DOMAIN list = 1..Len(list) /\ Len(list) \in Nat /\ m + 1 \in DOMAIN list
      /\ 1..m \subseteq DOMAIN list /\ 1..(m + 1) = 1..m \cup {m + 1}
      /\ \A k \in 1..m : k < m + 1
      /\ \A k \in DOMAIN list : list[k] \in Nat
  OBVIOUS
<1>2. x \in Nat /\ S \in SUBSET Nat /\ \A i \in S : i < x
  BY <1>1 DEF Increasing
<1>3. {list[k] : k \in 1..(m + 1)} = S \cup {x}
  BY <1>1
<1>4. IsFiniteSet(S)
  <2>1. IsFiniteSet(0..x) /\ S \in SUBSET (0..x)
    <3> HIDE DEF S, x
    <3>1. x \in Int /\ 0 \in Int /\ \A i \in S : i \in 0..x
      BY <1>2
    <3> QED BY <3>1, FS_Interval
  <2> QED BY <2>1, FS_Subset
<1> HIDE DEF x
<1>5. T \in SUBSET S
  BY DEF NonNullOf
<1>6. IsFiniteSet(T)
  BY <1>4, <1>5, FS_Subset
<1>7. NonNullOf(list, m + 1, name) = IF IsNullCell(batch.rows[x][name]) THEN T ELSE T \cup {x}
  BY <1>3 DEF NonNullOf
<1> QED BY <1>2, <1>5, <1>6, <1>7 DEF x

LEMMA WholeList ==
    ASSUME NEW list \in Seq(Nat), NEW name
    PROVE  /\ NonNullOf(list, 0, name) = {}
           /\ NonNullOf(list, Len(list), name) =
                 {i \in ToSet(list) : ~ IsNullCell(batch.rows[i][name])}
<1>1. 1..0 = {} /\ DOMAIN list = 1..Len(list)
  OBVIOUS
<1> QED BY <1>1 DEF NonNullOf, ToSet

LEMMA CellsReduced ==
    ASSUME NEW list \in Seq(Nat), Increasing(list), NEW name,
           batch.types[name] \in Numeric, Listed(list, name)
    PROVE  /\ SumAndCount(name, list) \in Accumulator(batch.types[name])
           /\ Reduced(batch.types[name], name,
                      {i \in ToSet(list) : ~ IsNullCell(batch.rows[i][name])},
                      SumAndCount(name, list))
<1> DEFINE type == batch.types[name]
           n == Len(list)
           cell(i) == batch.rows[i][name]
           T(m) == NonNullOf(list, m, name)
<1>1. PICK acc : /\ acc[0] = NoneAdded
                 /\ \A m \in 0..(n - 1) : acc[m + 1] = AddCell(type, acc[m], cell(list[m + 1]))
                 /\ acc[n] = SumAndCount(name, list)
  BY SumAndCountByRow
<1>2. n \in Nat /\ DOMAIN list = 1..n
  OBVIOUS
<1>3. \A k \in 1..n : cell(list[k]) \in NumbersOf[type] \cup {NullCell}
  BY DEF Listed
<1> DEFINE Holding(m) == acc[m] \in Accumulator(type) /\ Reduced(type, name, T(m), acc[m])
           N == {m \in Nat : m <= n => Holding(m)}
<1>4. 0 \in N
  <2>1. NoneAdded \in Accumulator(type)
    BY DEF NoneAdded, Accumulator
  <2>2. Reduced(type, name, {}, NoneAdded)
    BY FS_EmptySet DEF Reduced, Beyond, NoneAdded
  <2>3. T(0) = {}
    BY WholeList
  <2> HIDE DEF T
  <2> QED BY <1>1, <2>1, <2>2, <2>3
<1>5. ASSUME NEW m \in N PROVE m + 1 \in N
  <2> SUFFICES ASSUME m + 1 <= n PROVE Holding(m + 1)
    OBVIOUS
  <2> DEFINE x == list[m + 1]
  <2>1. m \in Nat /\ m < n /\ m \in 0..(n - 1) /\ Holding(m) /\ m + 1 \in 1..n
    BY <1>2
  <2>2. /\ T(m) \in SUBSET Nat /\ IsFiniteSet(T(m)) /\ x \in Nat /\ \A i \in T(m) : i < x
        /\ T(m + 1) = IF IsNullCell(cell(x)) THEN T(m) ELSE T(m) \cup {x}
    BY <2>1, NextOfList
  <2>3. acc[m + 1] = AddCell(type, acc[m], cell(x)) /\ cell(x) \in NumbersOf[type] \cup {NullCell}
    BY <1>1, <1>3, <2>1
  <2>4. acc[m + 1] \in Accumulator(type)
    BY <2>1, <2>3, AddCellType
  <2>5. Reduced(type, name, T(m + 1), acc[m + 1])
    <3>1. CASE IsNullCell(cell(x))
      <4>1. acc[m + 1] = acc[m] /\ T(m + 1) = T(m)
        BY <2>2, <2>3, <3>1 DEF AddCell
      <4> HIDE DEF T
      <4> QED BY <2>1, <4>1
    <3>2. CASE ~ IsNullCell(cell(x))
      <4>1. \A i \in T(m) \cup {x} : cell(i) \in NumbersOf[type]
        <5>1. \A i \in T(m) : \E k \in 1..n : i = list[k] /\ ~ IsNullCell(cell(i))
          BY <1>2, <2>1 DEF NonNullOf
        <5> QED BY <1>3, <2>3, <3>2, <5>1 DEF IsNullCell
      <4>2. Reduced(type, name, T(m) \cup {x}, AddCell(type, acc[m], cell(x)))
        <5> HIDE DEF T, x, type
        <5> QED BY <2>1, <2>2, <4>1, OneMoreCell DEF type
      <4> QED BY <2>2, <2>3, <3>2, <4>2
    <3> QED BY <3>1, <3>2
  <2> QED BY <2>4, <2>5
<1> HIDE DEF N
<1>6. N = Nat
  <2>1. N \in SUBSET Nat
    BY DEF N
  <2> QED BY <1>4, <1>5, <2>1, SetInduction
<1>7. Holding(n)
  BY <1>2, <1>6 DEF N
<1> QED BY <1>1, <1>7, WholeList

(* The positions of a list and the rows at them are equally many. *)
LEMMA NonNullCounts ==
    ASSUME NEW list \in Seq(Nat), Increasing(list), NEW name
    PROVE  /\ NonNull(name, list) \in Nat
           /\ NonNull(name, list) =
                 Cardinality({i \in ToSet(list) : ~ IsNullCell(batch.rows[i][name])})
<1> DEFINE full(i) == ~ IsNullCell(batch.rows[i][name])
           K == {k \in DOMAIN list : full(list[k])}
           T == {i \in ToSet(list) : full(i)}
           f == [k \in K |-> list[k]]
<1>1. DOMAIN list = 1..Len(list) /\ Len(list) \in Nat /\ \A k \in DOMAIN list : list[k] \in Nat
  OBVIOUS
<1>2. IsFiniteSet(K)
  <2>1. IsFiniteSet(1..Len(list)) /\ K \in SUBSET (1..Len(list))
    BY <1>1, FS_Interval
  <2> QED BY <2>1, FS_Subset
<1>3. \A k, l \in DOMAIN list : list[k] = list[l] => k = l
  <2> SUFFICES ASSUME NEW k \in DOMAIN list, NEW l \in DOMAIN list, k # l
               PROVE  list[k] # list[l]
    OBVIOUS
  <2>1. k < l \/ l < k
    BY <1>1
  <2>2. list[k] < list[l] \/ list[l] < list[k]
    BY <2>1 DEF Increasing
  <2> QED BY <1>1, <2>2
<1>4. f \in Bijection(K, T)
  <2>1. f \in [K -> T] /\ \A i \in T : \E k \in K : f[k] = i
    BY DEF ToSet
  <2>2. \A k, l \in K : f[k] = f[l] => k = l
    BY <1>3
  <2> HIDE DEF f, K, T
  <2> QED BY <2>1, <2>2 DEF Bijection, Injection, Surjection, IsInjective
<1>5. ExistsBijection(K, T)
  BY <1>4 DEF ExistsBijection
<1>6. NonNull(name, list) = Cardinality(K)
  BY DEF NonNull
<1> HIDE DEF K, T
<1>7. Cardinality(K) = Cardinality(T) /\ Cardinality(K) \in Nat
  BY <1>2, <1>5, FS_Bijection, FS_CardinalityType
<1> QED BY <1>6, <1>7 DEF T

(* The better of the best cell so far and the next one. *)
Choose(func, best, c) ==
    IF ~ IsNullCell(c) /\ (best = NullCell \/ Better(func, c, best)) THEN c ELSE best

(* The best cell so far after each row of a list. *)
LEMMA BestCellByRow ==
    ASSUME NEW func, NEW list, NEW name, batch.types[name] \in Numeric, Listed(list, name)
    PROVE  \E best : /\ best[0] = NullCell
                     /\ \A m \in 0..(Len(list) - 1) :
                           best[m + 1] = Choose(func, best[m], batch.rows[list[m + 1]][name])
                     /\ best[Len(list)] = BestCell(func, name, list)
<1> DEFINE n == Len(list)
           cell(k) == batch.rows[list[k]][name]
           A == Int \cup {NullCell}
           w(g, s) == IF s = {} THEN NullCell ELSE Choose(func, g[s \ {Max(s)}], cell(Max(s)))
           c == CHOOSE g : g = [s \in SUBSET DOMAIN list |-> w(g, s)]
           step == [p \in A \X (1..n) |-> Choose(func, p[1], cell(p[2]))]
<1>1. BestCell(func, name, list) = c[DOMAIN list]
  BY Zenon DEF BestCell, FoldLeft, MapThenFoldSet, Choose
<1>2. n \in Nat /\ DOMAIN list = 1..n /\ \A k \in 1..n : cell(k) \in A
  BY NumbersAreIntegers DEF Listed
<1>3. NullCell \in A
  OBVIOUS
<1>4. \A a \in A, k \in 1..n : Choose(func, a, cell(k)) \in A
  BY <1>2 DEF Choose
<1> HIDE DEF A, cell, n
<1>5. step \in [A \X (1..n) -> A] /\ \A a \in A, k \in 1..n : step[<<a, k>>] = Choose(func, a, cell(k))
  BY <1>4
<1> HIDE DEF step, w
<1>6. PICK g \in [SUBSET (1..n) -> A] : PrefixFolding(n, NullCell, step, g)
  BY <1>2, <1>3, <1>5, PrefixFold
<1>7. ASSUME NEW s \in SUBSET (1..n)
      PROVE  (IF s = {} THEN NullCell ELSE step[<<g[s \ {Max(s)}], Max(s)>>]) = w(g, s)
  <2>1. CASE s = {}
    BY <2>1 DEF w
  <2>2. CASE s # {}
    <3>1. Max(s) \in 1..n
      BY <1>2, <2>2, MaxIn
    <3>2. g[s \ {Max(s)}] \in A
      OBVIOUS
    <3> QED BY <1>5, <2>2, <3>1, <3>2 DEF w
  <2> QED BY <2>1, <2>2
<1>8. g = [s \in SUBSET (1..n) |-> w(g, s)]
  BY <1>6, <1>7 DEF PrefixFolding
<1>9. c = [s \in SUBSET (1..n) |-> w(c, s)]
  <2>1. \E h : h = [s \in SUBSET DOMAIN list |-> w(h, s)]
    BY <1>2, <1>8
  <2> QED BY <1>2, <2>1
<1> HIDE DEF c
<1>10. \A s \in SUBSET (1..n) : c[s] = w(c, s)
  BY <1>9
<1> DEFINE best == [m \in 0..n |-> c[1..m]]
<1>11. best[0] = NullCell
  <2>1. 0 \in 0..n /\ 1..0 = {}
    BY <1>2
  <2> QED BY <1>10, <2>1 DEF w
<1>12. ASSUME NEW m \in 0..(n - 1)
       PROVE  best[m + 1] = Choose(func, best[m], cell(m + 1))
  <2>1. m \in 0..n /\ m + 1 \in 0..n /\ m \in Nat /\ 1..(m + 1) \in SUBSET (1..n)
    BY <1>2
  <2>2. c[1..(m + 1)] = Choose(func, c[1..m], cell(m + 1))
    <3>1. /\ 1..(m + 1) # {} /\ Max(1..(m + 1)) = m + 1
          /\ (1..(m + 1)) \ {m + 1} = 1..m
      BY <2>1, FirstNumbers
    <3>2. c[1..(m + 1)] = w(c, 1..(m + 1))
      BY <1>10, <2>1
    <3> QED BY <3>1, <3>2 DEF w
  <2> QED BY <2>1, <2>2
<1>13. best[n] = BestCell(func, name, list)
  BY <1>1, <1>2
<1> HIDE DEF best
<1> QED BY <1>11, <1>12, <1>13 DEF cell, n

(* The cell b is the best of the rows T, none of them null. *)
BestOf(func, name, T, b) ==
    IF T = {} THEN b = NullCell
    ELSE /\ \E i \in T : b = batch.rows[i][name]
         /\ \A i \in T : IF func = "min" THEN b <= batch.rows[i][name]
                         ELSE b >= batch.rows[i][name]

LEMMA BestIsChosen ==
    ASSUME NEW func, NEW list \in Seq(Nat), Increasing(list), NEW name,
           batch.types[name] \in Numeric, Listed(list, name)
    PROVE  BestOf(func, name, {i \in ToSet(list) : ~ IsNullCell(batch.rows[i][name])},
                  BestCell(func, name, list))
<1> DEFINE n == Len(list)
           cell(i) == batch.rows[i][name]
           T(m) == NonNullOf(list, m, name)
<1>1. PICK best : /\ best[0] = NullCell
                  /\ \A m \in 0..(n - 1) : best[m + 1] = Choose(func, best[m], cell(list[m + 1]))
                  /\ best[n] = BestCell(func, name, list)
  BY BestCellByRow
<1>2. n \in Nat /\ DOMAIN list = 1..n
  OBVIOUS
<1>3. \A k \in 1..n : cell(list[k]) \in Int \cup {NullCell}
  BY NumbersAreIntegers DEF Listed
<1> DEFINE Holding(m) == BestOf(func, name, T(m), best[m])
           N == {m \in Nat : m <= n => Holding(m)}
<1>4. 0 \in N
  BY <1>1, WholeList DEF BestOf
<1>5. ASSUME NEW m \in N PROVE m + 1 \in N
  <2> SUFFICES ASSUME m + 1 <= n PROVE Holding(m + 1)
    OBVIOUS
  <2> DEFINE x == list[m + 1]
  <2>1. m \in Nat /\ m < n /\ m \in 0..(n - 1) /\ Holding(m) /\ m + 1 \in 1..n
    BY <1>2
  <2>2. T(m + 1) = IF IsNullCell(cell(x)) THEN T(m) ELSE T(m) \cup {x}
    BY <2>1, NextOfList
  <2>3. best[m + 1] = Choose(func, best[m], cell(x)) /\ cell(x) \in Int \cup {NullCell}
    BY <1>1, <1>3, <2>1
  <2>4. \A i \in T(m) : cell(i) \in Int
    <3>1. \A i \in T(m) : \E k \in 1..n : i = list[k] /\ ~ IsNullCell(cell(i))
      BY <1>2, <2>1 DEF NonNullOf
    <3> QED BY <1>3, <3>1 DEF IsNullCell
  <2> HIDE DEF T, x
  <2>5. CASE IsNullCell(cell(x))
    <3>1. best[m + 1] = best[m] /\ T(m + 1) = T(m)
      BY <2>2, <2>3, <2>5 DEF Choose
    <3> QED BY <2>1, <3>1
  <2>6. CASE ~ IsNullCell(cell(x))
    <3>1. T(m + 1) = T(m) \cup {x} /\ cell(x) \in Int
      BY <2>2, <2>3, <2>6 DEF IsNullCell
    <3>2. CASE T(m) = {}
      <4>1. best[m + 1] = cell(x)
        BY <2>1, <2>3, <2>6, <3>2 DEF Choose, BestOf
      <4>2. T(m + 1) = {x}
        BY <3>1, <3>2
      <4> HIDE DEF cell
      <4> QED BY <3>1, <4>1, <4>2 DEF BestOf, cell
    <3>3. CASE T(m) # {}
      <4>1. /\ \E i \in T(m) : best[m] = cell(i)
            /\ \A i \in T(m) : IF func = "min" THEN best[m] <= cell(i) ELSE best[m] >= cell(i)
        BY <2>1, <3>3 DEF BestOf
      <4>2. best[m] \in Int /\ best[m] # NullCell
        BY <2>4, <4>1, AggregateKernelAssumption
      <4>3. best[m + 1] = IF Better(func, cell(x), best[m]) THEN cell(x) ELSE best[m]
        BY <2>3, <2>6, <4>2 DEF Choose
      <4>4. \A i \in T(m + 1) : IF func = "min" THEN best[m + 1] <= cell(i)
                                ELSE best[m + 1] >= cell(i)
        BY <2>4, <3>1, <4>1, <4>2, <4>3 DEF Better
      <4>5. \E i \in T(m + 1) : best[m + 1] = cell(i)
        BY <3>1, <4>1, <4>3
      <4> QED BY <3>1, <4>4, <4>5 DEF BestOf
    <3> QED BY <3>2, <3>3
  <2> QED BY <2>5, <2>6
<1> HIDE DEF N
<1>6. N = Nat
  <2>1. N \in SUBSET Nat
    BY DEF N
  <2> QED BY <1>4, <1>5, <2>1, SetInduction
<1>7. Holding(n)
  BY <1>2, <1>6 DEF N
<1> QED BY <1>1, <1>7, WholeList

LEMMA TotalIsInteger ==
    ASSUME NEW T, IsFiniteSet(T), NEW name, \A i \in T : batch.rows[i][name] \in Int
    PROVE  Total(T, name) \in Int
<1> DEFINE f == [i \in T |-> batch.rows[i][name]]
<1>1. \A i \in T : batch.rows[i][name] \in Int /\ f[i] = batch.rows[i][name]
  OBVIOUS
<1> HIDE DEF f
<1>2. Total(T, name) = SumOver(f, T)
  BY <1>1, TotalIsSum
<1>3. PICK g \in [SUBSET T -> Int] : SumOver(f, T) = g[T]
  BY <1>1, SumIs
<1> QED BY <1>2, <1>3

(* A quotient that is cut towards zero. *)
LEMMA CutTowards0 ==
    ASSUME NEW m \in Int, NEW n \in Nat, n # 0
    PROVE  /\ Toward0(m, n) \in Int
           /\ m >= 0 => Toward0(m, n) * n \in (m - n + 1)..m
           /\ m < 0 => Toward0(m, n) * n \in m..(m + n - 1)
<1>1. ASSUME NEW a \in Nat PROVE a \div n \in Int /\ (a \div n) * n \in (a - n + 1)..a
  OBVIOUS
<1>2. CASE m >= 0
  BY <1>1, <1>2 DEF Toward0
<1>3. CASE m < 0
  <2> DEFINE q == (-m) \div n
  <2>1. -m \in Nat
    BY <1>3
  <2>2. q \in Int /\ q * n \in ((-m) - n + 1)..(-m)
    BY <1>1, <2>1
  <2>3. Toward0(m, n) = -q
    BY <1>3 DEF Toward0
  <2> HIDE DEF q
  <2>4. (-q) * n = -(q * n)
    BY <2>2
  <2> QED BY <1>3, <2>2, <2>3, <2>4
<1> QED BY <1>2, <1>3

(* The nearest float of a quotient is a number of fractions.                *)
LEMMA NearestIsInteger ==
    ASSUME NEW x \in Int, NEW n \in Nat \ {0}
    PROVE  Nearest(x, n) \in Int
<1> DEFINE us == {u \in {1, 2, 4, 8, 16, 32, WidestUlp} :
                     x \in (-u * F64Exact * n)..(u * F64Exact * n) \/ u = WidestUlp}
           u == Ulp(x, n)
<1>1. us \in SUBSET Nat /\ us # {} /\ \A v \in us : v # 0
  BY DEF WidestUlp
<1>2. Ulp(x, n) = Min(us)
  BY DEF Ulp
<1> HIDE DEF us
<1>3. u \in Nat \ {0}
  BY <1>1, <1>2, MinIn
<1> HIDE DEF u
<1> DEFINE m == n * u
<1>4. m \in Nat \ {0}
  BY <1>3
<1> HIDE DEF m
<1>5. x \div m \in Int
  BY <1>4
<1>6. NearestInt(x, m) \in Int
  BY <1>5 DEF NearestInt
<1>7. Nearest(x, n) = u * NearestInt(x, m)
  BY DEF Nearest, u, m
<1> QED BY <1>3, <1>6, <1>7

LEMMA MeansAreNumbers ==
    ASSUME NEW x \in Int, NEW n \in Nat \ {0}
    PROVE  Quotient(AsF64(x), n) \in Int
<1>1. AsF64(x) \in Int
  BY NearestIsInteger DEF AsF64
<1> DEFINE y == Fraction * AsF64(x)
<1>2. y \in Int
  BY <1>1 DEF Fraction
<1>3. Quotient(AsF64(x), n) = Nearest(y, n)
  BY DEF Quotient
<1> HIDE DEF y
<1> QED BY <1>2, <1>3, NearestIsInteger

(* The rows of a list are rows of the batch, in their order. *)
RowList(list) ==
    /\ list \in Seq(Nat) /\ Increasing(list)
    /\ \A k \in DOMAIN list : list[k] \in DOMAIN batch.rows

FullRows(list, name) == {i \in ToSet(list) : ~ IsNullCell(batch.rows[i][name])}

LEMMA NumericCells ==
    ASSUME batch \in Batches, NEW list, RowList(list), NEW name, Known(name),
           batch.types[name] \in Numeric
    PROVE  Listed(list, name)
<1>1. Len(list) \in Nat /\ DOMAIN list = 1..Len(list)
  BY DEF RowList
<1>2. \A i \in DOMAIN batch.rows :
          batch.rows[i][name] \in NumbersOf[batch.types[name]] \cup {NullCell}
  BY AggregateKernelAssumption DEF BatchesOfRows, Known
<1> QED BY <1>1, <1>2 DEF Listed, RowList

LEMMA SumOrMean ==
    ASSUME batch \in Batches, NEW list, RowList(list), NEW agg, agg.func \in Sums,
           Known(agg.column), batch.types[agg.column] \in Numeric
    PROVE  LET S == FullRows(list, agg.column)
               c == Cell(agg, list)
           IN  /\ c = Overflow <=> Unrepresentable(agg, S)
               /\ c # Overflow => Promised(agg, S, c)
<1> DEFINE name == agg.column
           type == batch.types[name]
           S == FullRows(list, name)
           s == SumAndCount(name, list)
           c == Cell(agg, list)
           n == Cardinality(S)
<1>1. type \in Numeric /\ Listed(list, name)
  BY NumericCells
<1>2. s \in Accumulator(type) /\ Reduced(type, name, S, s)
  BY <1>1, CellsReduced DEF RowList, FullRows
<1>3. c = IF agg.func = "sum" THEN SumCell(type, s) ELSE MeanCell(type, s)
  BY DEF Cell, Sums
<1>4. /\ NullCell \notin Int \cup Seq(Int) \cup {Overflow}
      /\ Overflow \notin Int \cup Seq(Int) \cup ((Int \cup Seq(Int)) \X Nat)
      /\ 0 \in Int64 /\ 0 \in U64
  BY AggregateKernelAssumption
<1>5. Unrepresentable(agg, S) <=>
          \/ agg.func = "sum" /\ type = "sint" /\ Total(S, name) \notin Int64
          \/ agg.func = "sum" /\ type = "uint" /\ Total(S, name) \notin U64
          \/ type = "decimal" /\ Beyond(S, name)
  BY DEF Unrepresentable, Beyond
<1>6. Promised(agg, S, c) <=>
          IF S = {} THEN c = NullCell
          ELSE /\ agg.func = "sum" =>
                     IF type = "float" THEN Addends(c, S, name) ELSE c = Total(S, name)
               /\ agg.func = "mean" /\ type = "float" => c[2] = n /\ Addends(c[1], S, name)
               /\ agg.func = "mean" /\ type = "decimal" =>
                     c * n \in IF Total(S, name) >= 0
                              THEN (Total(S, name) - n + 1)..Total(S, name)
                              ELSE Total(S, name)..(Total(S, name) + n - 1)
               /\ agg.func = "mean" /\ type \in {"sint", "uint"} =>
                     c = Quotient(AsF64(Total(S, name)), n)
  BY DEF Promised, Sums
<1>7. IsFiniteSet(S) /\ n \in Nat /\ (n = 0 <=> S = {})
  <2>1. n = NonNull(name, list) /\ n \in Nat
    BY NonNullCounts DEF RowList, FullRows
  <2>2. IsFiniteSet(S)
    <3>1. S = NonNullOf(list, Len(list), name)
      BY WholeList DEF RowList, FullRows
    <3>2. IsFiniteSet(1..Len(batch.rows)) /\ S \in SUBSET (1..Len(batch.rows))
      <4>1. Len(batch.rows) \in Nat /\ DOMAIN batch.rows = 1..Len(batch.rows)
        BY AggregateKernelAssumption DEF BatchesOfRows
      <4>2. 1 \in Int /\ Len(batch.rows) \in Int
        BY <4>1
      <4> QED BY <4>1, <4>2, FS_Interval DEF FullRows, ToSet, RowList
    <3> QED BY <3>2, FS_Subset
  <2> QED BY <2>1, <2>2, FS_EmptySet
<1>8. Total(S, name) \in Int
  <2>1. \A i \in S : batch.rows[i][name] \in Int
    BY <1>1, NumbersAreIntegers DEF FullRows, ToSet, Listed, IsNullCell
  <2> HIDE DEF S
  <2> QED BY <1>7, <2>1, TotalIsInteger
<1>9. /\ s.count \in Nat /\ (s.count = 0 <=> s.sum = NullCell)
      /\ type = "float" => s.sum \in Seq(Int) \cup {NullCell, Overflow}
      /\ type # "float" => s.sum \in Int \cup {NullCell, Overflow}
  BY <1>2 DEF Accumulator, Amount
<1> HIDE DEF S, s, c, n
<1>10. CASE type = "decimal" /\ Beyond(S, name)
  <2>1. s.sum = Overflow
    BY <1>2, <1>10 DEF Reduced
  <2>2. c = Overflow
    BY <1>3, <2>1 DEF SumCell, MeanCell
  <2> QED BY <1>5, <1>10, <2>2 DEF S, c
<1>11. CASE ~ (type = "decimal" /\ Beyond(S, name))
  <2>1. /\ s.count = n /\ (S = {} => s.sum = NullCell)
        /\ S # {} /\ type # "float" => s.sum = Total(S, name)
        /\ S # {} /\ type = "float" => s.sum \in Seq(Int) /\ Addends(s.sum, S, name)
    BY <1>2, <1>11 DEF Reduced, n
  <2>2. CASE S = {}
    <3>1. s.count = 0 /\ s.sum = NullCell
      BY <1>7, <2>1, <2>2
    <3>2. c = NullCell
      BY <1>3, <3>1 DEF SumCell, MeanCell
    <3>3. Total(S, name) = 0
      BY <2>2, TotalOfNone
    <3> QED BY <1>4, <1>5, <1>6, <1>11, <2>2, <3>2, <3>3 DEF S, c
  <2>3. CASE S # {}
    <3>1. s.count = n /\ n \in Nat /\ n # 0 /\ s.sum # NullCell
      BY <1>7, <1>9, <2>1, <2>3
    <3>2. CASE type = "float"
      <4>1. s.sum \in Seq(Int) /\ Addends(s.sum, S, name) /\ s.sum # Overflow
        BY <1>4, <2>1, <2>3, <3>2
      <4>2. c = IF agg.func = "sum" THEN s.sum ELSE <<s.sum, n>>
        BY <1>3, <3>1, <3>2, <4>1 DEF SumCell, MeanCell
      <4>3. c # Overflow
        BY <1>4, <3>1, <4>1, <4>2
      <4> QED BY <1>5, <1>6, <2>3, <3>2, <4>1, <4>2, <4>3 DEF S, c, n
    <3>3. CASE type # "float"
      <4>1. s.sum = Total(S, name) /\ s.sum \in Int /\ s.sum # Overflow
        <5>1. s.sum = Total(S, name)
          BY <2>1, <2>3, <3>3
        <5> QED BY <1>4, <1>8, <5>1
      <4>2. CASE agg.func = "sum"
        <5>1. c = IF \/ type = "sint" /\ s.sum \notin Int64
                     \/ type = "uint" /\ s.sum \notin U64
                  THEN Overflow ELSE s.sum
          BY <1>3, <3>1, <4>1, <4>2 DEF SumCell
        <5> QED BY <1>5, <1>6, <1>11, <2>3, <3>3, <4>1, <4>2, <5>1 DEF S, c
      <4>3. CASE agg.func = "mean" /\ type = "decimal"
        <5>1. c = Toward0(s.sum, n)
          BY <1>3, <3>1, <4>1, <4>3 DEF MeanCell
        <5>2. /\ c \in Int
              /\ s.sum >= 0 => c * n \in (s.sum - n + 1)..s.sum
              /\ s.sum < 0 => c * n \in s.sum..(s.sum + n - 1)
          BY <3>1, <4>1, <5>1, CutTowards0
        <5>3. c # Overflow
          BY <1>4, <5>2
        <5>4. ~ Unrepresentable(agg, S)
          BY <1>5, <1>11, <4>3
        <5>5. Promised(agg, S, c)
          <6>1. CASE s.sum >= 0
            BY <1>6, <2>3, <4>1, <4>3, <5>2, <6>1
          <6>2. CASE s.sum < 0
            <7>1. ~ (Total(S, name) >= 0)
              BY <4>1, <6>2
            <7> QED BY <1>6, <2>3, <4>1, <4>3, <5>2, <6>2, <7>1
          <6> QED BY <4>1, <6>1, <6>2
        <5> QED BY <5>3, <5>4, <5>5 DEF S, c
      <4>4. CASE agg.func = "mean" /\ type \in {"sint", "uint"}
        <5>1. c = Quotient(AsF64(s.sum), n)
          BY <1>3, <3>1, <4>1, <4>4 DEF MeanCell
        <5>2. Quotient(AsF64(s.sum), n) \in Int
          BY <3>1, <4>1, MeansAreNumbers
        <5>3. c # Overflow
          BY <1>4, <5>1, <5>2
        <5>4. ~ Unrepresentable(agg, S)
          BY <1>5, <4>4
        <5>5. Promised(agg, S, c)
          BY <1>6, <2>3, <4>1, <4>4, <5>1
        <5> QED BY <5>3, <5>4, <5>5 DEF S, c
      <4> QED BY <1>1, <3>3, <4>2, <4>3, <4>4 DEF Sums, Numeric
    <3> QED BY <3>2, <3>3
  <2> QED BY <2>2, <2>3
<1> QED BY <1>10, <1>11 DEF S, c

(* What is computed of a group is what is promised of it. *)
LEMMA CellIsExact ==
    ASSUME batch \in Batches, NEW list, RowList(list), NEW agg, agg.func \in AggFunc,
           Known(agg.column), Aggregable(agg)
    PROVE  LET S == FullRows(list, agg.column)
               c == Cell(agg, list)
           IN  /\ c = Overflow <=> Unrepresentable(agg, S)
               /\ c # Overflow => Promised(agg, S, c)
<1> DEFINE name == agg.column
           S == FullRows(list, name)
           c == Cell(agg, list)
<1>0. \A k \in Int : k # Overflow
  BY AggregateKernelAssumption
<1>1. CASE agg.func = "count"
  <2>1. c = NonNull(name, list)
    BY <1>1 DEF Cell
  <2>2. NonNull(name, list) \in Nat /\ NonNull(name, list) = Cardinality(S)
    BY NonNullCounts DEF RowList, FullRows
  <2>3. ~ Unrepresentable(agg, S)
    BY <1>1 DEF Unrepresentable, Sums
  <2> HIDE DEF c, S
  <2>4. Promised(agg, S, c)
    BY <1>1, <2>1, <2>2 DEF Promised
  <2> QED BY <1>0, <2>1, <2>2, <2>3, <2>4 DEF c, S
<1>2. CASE agg.func \in Sums
  <2>1. batch.types[agg.column] \in Numeric
    BY <1>2 DEF Aggregable, Sums
  <2> QED BY <1>2, <2>1, SumOrMean
<1>3. CASE agg.func \in {"min", "max"}
  <2>1. batch.types[name] \in Numeric
    BY <1>3 DEF Aggregable
  <2>2. Listed(list, name)
    BY <2>1, NumericCells
  <2>3. c = BestCell(agg.func, name, list)
    BY <1>3 DEF Cell
  <2>4. BestOf(agg.func, name, S, c)
    BY <2>1, <2>2, <2>3, BestIsChosen DEF RowList, FullRows
  <2>5. \A i \in S : batch.rows[i][name] \in Int
    BY <2>1, <2>2, NumbersAreIntegers DEF FullRows, ToSet, Listed, IsNullCell
  <2>6. ~ Unrepresentable(agg, S)
    BY <1>3 DEF Unrepresentable, Sums
  <2> HIDE DEF c, S
  <2>7. c # Overflow
    <3>1. NullCell # Overflow
      BY AggregateKernelAssumption
    <3> QED BY <1>0, <2>4, <2>5, <3>1 DEF BestOf
  <2>8. Promised(agg, S, c)
    <3>1. CASE S = {}
      BY <1>3, <2>4, <3>1 DEF Promised, BestOf
    <3>2. CASE S # {}
      BY <1>3, <2>4, <2>5, <3>2 DEF Promised, BestOf
    <3> QED BY <3>1, <3>2
  <2> QED BY <2>6, <2>7, <2>8 DEF c, S
<1> QED BY <1>1, <1>2, <1>3 DEF AggFunc

LEMMA SameCell ==
    ASSUME batch' = batch, NEW CONSTANT agg, NEW CONSTANT list
    PROVE  Cell(agg, list)' = Cell(agg, list)
<1>1. NonNull(agg.column, list)' = NonNull(agg.column, list)
  BY DEF NonNull
<1>2. SumAndCount(agg.column, list)' = SumAndCount(agg.column, list)
  BY DEF SumAndCount, FoldLeft, MapThenFoldSet
<1>3. BestCell(agg.func, agg.column, list)' = BestCell(agg.func, agg.column, list)
  BY DEF BestCell, FoldLeft, MapThenFoldSet
<1> QED BY <1>1, <1>2, <1>3, Zenon DEF Cell

-----------------------------------------------------------------------------
(* The whole call. *)
(* The aggregations are of known columns and of types they can reduce. *)
Accepted ==
    \A k \in DOMAIN request.aggs : Known(request.aggs[k].column) /\ Aggregable(request.aggs[k])

(* The first columns of the output are the keys, then the first m          *)
(* aggregations, computed of every group.                                  *)
Reduces(m) ==
    /\ m \in 0..Len(request.aggs)
    /\ \E C : out_columns \in Seq(C)
    /\ Len(out_columns) = Len(request.group_by) + m
    /\ \A k \in 1..m, g \in DOMAIN rows_per_group :
          /\ out_columns[Len(request.group_by) + k].cells[g]
                = Cell(request.aggs[k], rows_per_group[g])
          /\ Cell(request.aggs[k], rows_per_group[g]) # Overflow

ReduceInv ==
    /\ batch \in Batches /\ request \in Calls
    /\ stage \in {"resolve", "check", "group", "reduce", "returned", "failed"}
    /\ stage \in {"group", "reduce", "returned"} => Accepted
    /\ stage # "failed" <=> error = "none"
    /\ stage \in {"resolve", "check", "group"} => out_columns = <<>>
    /\ stage \in {"reduce", "returned"} => \E m \in Nat : Reduces(m)
    /\ stage = "returned" => Reduces(Len(request.aggs))
    /\ error = "Overflow" =>
          /\ Accepted
          /\ \E k \in DOMAIN request.aggs, g \in DOMAIN rows_per_group :
                Cell(request.aggs[k], rows_per_group[g]) = Overflow

LEMMA InitReduce == KernelInit => ReduceInv
BY DEF KernelInit, ReduceInv

(* The call and its groups stay, and what depends on them. *)
Settled == batch' = batch /\ request' = request /\ rows_per_group' = rows_per_group

LEMMA SettledCells ==
    ASSUME Settled
    PROVE  /\ Accepted' <=> Accepted
           /\ \A k, g : Cell(request.aggs[k], rows_per_group[g])'
                          = Cell(request.aggs[k], rows_per_group[g])
<1>1. Accepted' <=> Accepted
  BY DEF Settled, Accepted, Known, Aggregable
<1>2. ASSUME NEW CONSTANT k, NEW CONSTANT g
      PROVE  Cell(request.aggs[k], rows_per_group[g])' = Cell(request.aggs[k], rows_per_group[g])
  BY SameCell DEF Settled
<1> QED BY <1>1, <1>2

LEMMA SettledReduces ==
    ASSUME Settled, out_columns' = out_columns, NEW m
    PROVE  Reduces(m)' <=> Reduces(m)
<1>1. \A k, g : Cell(request.aggs[k], rows_per_group[g])' = Cell(request.aggs[k], rows_per_group[g])
  BY SettledCells
<1> QED BY <1>1 DEF Reduces, Settled

LEMMA GroupReduce ==
    ASSUME ReduceInv, GroupAll \/ GroupRow \/ TakeKeys
    PROVE  ReduceInv'
<1>1. batch' = batch /\ request' = request /\ error' = error /\ stage = "group"
  BY DEF GroupAll, GroupRow, TakeKeys, call
<1>2. /\ stage' \in {"group", "reduce"} /\ error = "none" /\ out_columns = <<>> /\ Accepted
      /\ Len(request.group_by) \in Nat /\ DOMAIN request.group_by = 1..Len(request.group_by)
      /\ Len(request.aggs) \in Nat
  BY <1>1, AggregateKernelAssumption DEF GroupAll, GroupRow, TakeKeys, ReduceInv, CallsOfLists
<1>3. Accepted'
  BY <1>1, <1>2 DEF Accepted, Known, Aggregable
<1>4. stage' = "group" => out_columns' = <<>>
  BY <1>1, <1>2 DEF GroupAll, GroupRow, TakeKeys
<1>5. stage' = "reduce" => Reduces(0)'
  <2>1. CASE GroupAll
    <3>1. out_columns' = <<>> /\ request.group_by = <<>>
      BY <1>2, <2>1 DEF GroupAll
    <3>2. out_columns' \in Seq({}) /\ Len(out_columns') = 0 /\ Len(request.group_by) = 0
      BY <3>1
    <3> QED BY <1>1, <1>2, <3>2 DEF Reduces
  <2>2. CASE TakeKeys
    <3> DEFINE column(k) == out_columns'[k]
    <3>1. DOMAIN out_columns' = 1..Len(request.group_by)
          /\ out_columns' = [k \in 1..Len(request.group_by) |-> column(k)]
      BY <1>2, <2>2 DEF TakeKeys
    <3>2. out_columns' \in Seq({column(k) : k \in 1..Len(request.group_by)})
          /\ Len(out_columns') = Len(request.group_by)
      <4> HIDE DEF column
      <4> QED BY <1>2, <3>1
    <3> QED BY <1>1, <1>2, <3>2 DEF Reduces
  <2>3. CASE GroupRow
    BY <1>1, <2>3 DEF GroupRow
  <2> QED BY <2>1, <2>2, <2>3
<1> QED BY <1>1, <1>2, <1>3, <1>4, <1>5 DEF ReduceInv

LEMMA ReduceReduce == ASSUME ReduceInv, Reduce PROVE ReduceInv'
<1> DEFINE n == Len(request.group_by)
           cells == [g \in DOMAIN rows_per_group |-> Cell(Current, rows_per_group[g])]
<1>1. /\ stage = "reduce" /\ ~ Computed /\ Accepted /\ error = "none"
      /\ n \in Nat /\ Len(request.aggs) \in Nat
      /\ DOMAIN request.aggs = 1..Len(request.aggs)
  BY AggregateKernelAssumption DEF Reduce, ReduceInv, CallsOfLists
<1>2. Settled
  BY DEF Reduce, Fail, call, Settled
<1>3. /\ Accepted'
      /\ \A k, g : Cell(request.aggs[k], rows_per_group[g])' = Cell(request.aggs[k], rows_per_group[g])
  BY <1>1, <1>2, SettledCells
<1>4. PICK m \in Nat : Reduces(m)
  BY <1>1 DEF ReduceInv
<1>5. m < Len(request.aggs) /\ Len(out_columns) = n + m /\ Current = request.aggs[m + 1]
  <2>1. Len(out_columns) = n + m /\ m \in 0..Len(request.aggs)
    BY <1>4 DEF Reduces
  <2>2. m # Len(request.aggs)
    BY <1>1, <2>1 DEF Computed
  <2> HIDE DEF n
  <2>3. (n + m) - n + 1 = m + 1
    BY <1>1
  <2>4. Current = request.aggs[m + 1]
    BY <2>1, <2>3 DEF Current, n
  <2> QED BY <1>1, <2>1, <2>2, <2>4
<1>6. m + 1 \in DOMAIN request.aggs /\ m + 1 \in 0..Len(request.aggs)
  BY <1>1, <1>5
<1>7. CASE \E g \in DOMAIN rows_per_group : cells[g] = Overflow
  <2>1. stage' = "failed" /\ error' = "Overflow"
    BY <1>7 DEF Reduce, Fail
  <2>2. \E g \in DOMAIN rows_per_group : Cell(request.aggs[m + 1], rows_per_group[g]) = Overflow
    BY <1>5, <1>7
  <2>3. (\E k \in DOMAIN request.aggs, g \in DOMAIN rows_per_group :
            Cell(request.aggs[k], rows_per_group[g]) = Overflow)'
    <3>1. request' = request /\ rows_per_group' = rows_per_group
      BY <1>2 DEF Settled
    <3> QED BY <1>3, <1>6, <2>2, <3>1
  <2> QED BY <1>2, <1>3, <2>1, <2>3 DEF ReduceInv, Settled
<1>8. CASE \A g \in DOMAIN rows_per_group : cells[g] # Overflow
  <2> DEFINE column == [name |-> Current.alias, type |-> OutType(Current), cells |-> cells]
  <2>1. out_columns' = Append(out_columns, column) /\ stage' = stage /\ error' = error
    BY <1>8 DEF Reduce
  <2>2. \A g \in DOMAIN rows_per_group :
            /\ column.cells[g] = Cell(request.aggs[m + 1], rows_per_group[g])
            /\ Cell(request.aggs[m + 1], rows_per_group[g]) # Overflow
    BY <1>5, <1>8
  <2> HIDE DEF column
  <2>3. PICK C : out_columns \in Seq(C)
    BY <1>4 DEF Reduces
  <2>4. /\ out_columns' \in Seq(C \cup {column})
        /\ Len(out_columns') = n + m + 1 /\ out_columns'[n + m + 1] = column
        /\ \A k \in 1..(n + m) : out_columns'[k] = out_columns[k]
    <3>1. out_columns \in Seq(C \cup {column})
      BY <2>3
    <3> QED BY <1>1, <1>5, <2>1, <3>1
  <2>5. ASSUME NEW k \in 1..(m + 1), NEW g \in DOMAIN rows_per_group
        PROVE  /\ out_columns'[n + k].cells[g] = Cell(request.aggs[k], rows_per_group[g])
               /\ Cell(request.aggs[k], rows_per_group[g]) # Overflow
    <3>1. CASE k = m + 1
      <4>1. n + k = n + m + 1
        <5> HIDE DEF n
        <5> QED BY <1>1, <3>1
      <4> QED BY <2>2, <2>4, <3>1, <4>1
    <3>2. CASE k \in 1..m
      <4>1. n + k \in 1..(n + m)
        BY <1>1, <3>2
      <4> QED BY <1>4, <2>4, <3>2, <4>1 DEF Reduces
    <3> QED BY <3>1, <3>2
  <2>6. Reduces(m + 1)'
    <3>1. request' = request /\ rows_per_group' = rows_per_group
      BY <1>2 DEF Settled
    <3>2. Len(out_columns') = n + (m + 1)
      <4> HIDE DEF n
      <4> QED BY <1>1, <2>4
    <3>3. \E D : out_columns' \in Seq(D)
      BY <2>4
    <3>4. \A k \in 1..(m + 1), g \in DOMAIN rows_per_group :
              /\ out_columns'[n + k].cells[g] = Cell(request.aggs[k], rows_per_group[g])'
              /\ Cell(request.aggs[k], rows_per_group[g])' # Overflow
      BY <1>3, <2>5
    <3> QED BY <1>6, <3>1, <3>2, <3>3, <3>4 DEF Reduces
  <2>7. m + 1 \in Nat
    OBVIOUS
  <2> QED BY <1>1, <1>2, <1>3, <2>1, <2>6, <2>7 DEF ReduceInv, Settled
<1> QED BY <1>7, <1>8

LEMMA QuietReduce ==
    ASSUME ReduceInv,
           ResolveGroupBy \/ CheckAggregations \/ NoRowEncoding \/ FinishBatch \/ UNCHANGED kernelVars
    PROVE  ReduceInv'
<1>1. Settled /\ out_columns' = out_columns
  BY DEF ResolveGroupBy, CheckAggregations, NoRowEncoding, FinishBatch, Fail, call, kernelVars, Settled
<1>2. /\ Accepted' <=> Accepted
      /\ \A k, g : Cell(request.aggs[k], rows_per_group[g])' = Cell(request.aggs[k], rows_per_group[g])
      /\ \A m : Reduces(m)' <=> Reduces(m)
  BY <1>1, SettledCells, SettledReduces
<1>3. CASE UNCHANGED kernelVars
  BY <1>1, <1>2, <1>3 DEF kernelVars, Settled, ReduceInv
<1>4. CASE ResolveGroupBy
  BY <1>1, <1>2, <1>4 DEF ResolveGroupBy, Fail, Settled, ReduceInv
<1>5. CASE CheckAggregations
  <2>1. stage' = "group" => Accepted
    BY <1>5 DEF CheckAggregations, Fail, Accepted
  <2>2. /\ stage = "check" /\ stage' \in {"group", "failed"} /\ error' # "Overflow"
        /\ stage' = "failed" <=> error' # "none"
    BY <1>5 DEF CheckAggregations, Fail, ReduceInv
  <2> QED BY <1>1, <1>2, <2>1, <2>2 DEF Settled, ReduceInv
<1>6. CASE NoRowEncoding
  BY <1>1, <1>2, <1>6 DEF NoRowEncoding, Fail, Settled, ReduceInv
<1>7. CASE FinishBatch
  <2>1. CASE stage' = "returned"
    <3>1. Computed /\ stage = "reduce" /\ error' = error
      BY <1>7, <2>1 DEF FinishBatch, Fail
    <3>2. PICK m \in Nat : Reduces(m)
      BY <3>1 DEF ReduceInv
    <3>3. Len(request.group_by) \in Nat /\ Len(request.aggs) \in Nat
      BY AggregateKernelAssumption DEF ReduceInv, CallsOfLists
    <3>4. m = Len(request.aggs)
      BY <3>1, <3>2, <3>3 DEF Computed, Reduces
    <3> QED BY <1>1, <1>2, <2>1, <3>1, <3>2, <3>4 DEF Settled, ReduceInv
  <2>2. CASE stage' # "returned"
    BY <1>1, <1>2, <1>7, <2>2 DEF FinishBatch, Fail, Settled, ReduceInv
  <2> QED BY <2>1, <2>2
<1> QED BY <1>3, <1>4, <1>5, <1>6, <1>7

LEMMA SpecReduce == KernelSpec => []ReduceInv
<1>1. ReduceInv /\ [KernelNext]_kernelVars => ReduceInv'
  BY GroupReduce, ReduceReduce, QuietReduce DEF KernelNext, Returned
<1> QED BY <1>1, InitReduce, PTL DEF KernelSpec

(* Every group lists rows of the batch, in their order. *)
LEMMA GroupsAreRowLists ==
    ASSUME KernelInv, NEW g \in DOMAIN rows_per_group
    PROVE  RowList(rows_per_group[g])
<1>1. /\ Len(batch.rows) \in Nat /\ DOMAIN batch.rows = 1..Len(batch.rows)
      /\ next \in 0..Len(batch.rows) /\ rows_per_group[g] \in Seq(Nat)
  BY DEF KernelInv, KernelTypeInv
<1>2. PICK S \in SUBSET DOMAIN batch.rows : InOrder(rows_per_group[g], S)
  <2>1. CASE request.group_by = <<>>
    BY <2>1 DEF KernelInv
  <2>2. CASE request.group_by # <<>>
    <3>1. InOrder(rows_per_group[g], RowsLike(rows_per_group[g][1], next))
      BY <2>2 DEF KernelInv, Grouped
    <3>2. 1..next \subseteq DOMAIN batch.rows
      BY <1>1
    <3> QED BY <3>1, <3>2 DEF RowsLike
  <2> QED BY <2>1, <2>2
<1> QED BY <1>1, <1>2 DEF RowList, Increasing, InOrder

(* Every cell of an accepted call is exact, before any of them is computed. *)
LEMMA EveryCellIsExact ==
    ASSUME KernelInv, ReduceInv, Accepted,
           NEW k \in DOMAIN request.aggs, NEW g \in DOMAIN rows_per_group
    PROVE  LET agg == request.aggs[k]
               c == Cell(agg, rows_per_group[g])
           IN  /\ c = Overflow <=> Unrepresentable(agg, Rows(g, agg.column))
               /\ c # Overflow => Promised(agg, Rows(g, agg.column), c)
<1>1. batch \in Batches /\ request.aggs[k].func \in AggFunc
  BY AggregateKernelAssumption DEF ReduceInv, CallsOfLists
<1>2. RowList(rows_per_group[g])
  BY GroupsAreRowLists
<1>3. Known(request.aggs[k].column) /\ Aggregable(request.aggs[k])
  BY DEF Accepted
<1>4. Rows(g, request.aggs[k].column) = FullRows(rows_per_group[g], request.aggs[k].column)
  BY DEF Rows, FullRows
<1> QED BY <1>1, <1>2, <1>3, <1>4, CellIsExact

(* A call fails with Overflow exactly if some sum or mean of some group    *)
(* cannot be said: integers by their totals, whatever the order of their   *)
(* rows, decimals by a running total.                                      *)
THEOREM OverflowExact == KernelSpec => []OverflowIsExact
<1>1. KernelInv /\ ReduceInv => OverflowIsExact
  <2> SUFFICES ASSUME KernelInv, ReduceInv,
                      stage \in {"returned", "failed"}, error \in {"none", "Overflow"}
               PROVE  error = "Overflow" <=>
                          \E k \in DOMAIN request.aggs, g \in DOMAIN rows_per_group :
                              Unrepresentable(request.aggs[k], Rows(g, request.aggs[k].column))
    BY DEF OverflowIsExact
  <2>1. CASE error = "Overflow"
    <3>1. Accepted
      BY <2>1 DEF ReduceInv
    <3>2. PICK k \in DOMAIN request.aggs, g \in DOMAIN rows_per_group :
              Cell(request.aggs[k], rows_per_group[g]) = Overflow
      BY <2>1 DEF ReduceInv
    <3>3. Unrepresentable(request.aggs[k], Rows(g, request.aggs[k].column))
      BY <3>1, <3>2, EveryCellIsExact
    <3> QED BY <2>1, <3>3
  <2>2. CASE error = "none"
    <3>1. Accepted /\ Reduces(Len(request.aggs))
      BY <2>2 DEF ReduceInv
    <3>2. DOMAIN request.aggs = 1..Len(request.aggs)
      BY AggregateKernelAssumption DEF ReduceInv, CallsOfLists
    <3>3. ASSUME NEW k \in DOMAIN request.aggs, NEW g \in DOMAIN rows_per_group
          PROVE  ~ Unrepresentable(request.aggs[k], Rows(g, request.aggs[k].column))
      <4>1. Cell(request.aggs[k], rows_per_group[g]) # Overflow
        BY <3>1, <3>2 DEF Reduces
      <4> QED BY <3>1, <4>1, EveryCellIsExact
    <3> QED BY <2>2, <3>3
  <2> QED BY <2>1, <2>2
<1> QED BY <1>1, SpecKernel, SpecReduce, PTL

(* Every cell of a returned batch is the exact reduction of the set of the *)
(* non-null rows of its group: the number of them, their least, greatest,  *)
(* total or mean, and null where there is none.                            *)
THEOREM ExactCells == KernelSpec => []CellsAreExact
<1>1. KernelInv /\ ReduceInv => CellsAreExact
  <2> SUFFICES ASSUME KernelInv, ReduceInv, stage = "returned",
                      NEW k \in DOMAIN request.aggs, NEW g \in DOMAIN rows_per_group
               PROVE  Promised(request.aggs[k], Rows(g, request.aggs[k].column),
                               out_columns[Len(request.group_by) + k].cells[g])
    BY DEF CellsAreExact
  <2>1. Accepted /\ Reduces(Len(request.aggs))
    BY DEF ReduceInv
  <2>2. DOMAIN request.aggs = 1..Len(request.aggs)
    BY AggregateKernelAssumption DEF ReduceInv, CallsOfLists
  <2>3. /\ out_columns[Len(request.group_by) + k].cells[g]
             = Cell(request.aggs[k], rows_per_group[g])
        /\ Cell(request.aggs[k], rows_per_group[g]) # Overflow
    BY <2>1, <2>2 DEF Reduces
  <2> QED BY <2>1, <2>3, EveryCellIsExact
<1> QED BY <1>1, SpecKernel, SpecReduce, PTL
=============================================================================
