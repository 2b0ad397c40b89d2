------------------------- MODULE DedupStreamProofs -------------------------
(* Proofs about DedupStream, for every partition, every way of cutting it  *)
(* into batches, every limit and every equality of cells that is symmetric,*)
(* transitive and respected by the hash.                                   *)
EXTENDS DedupStream, FiniteSetTheorems, TLAPS

scanned == start + Len(keep)

(* The index holds scanned rows only, and every row that was kept. *)
IndexIsSound ==
    \A h \in Hash : \A k \in 1..Len(seen[h]) :
        \E q \in 1..scanned : input[q] = seen[h][k]

IndexIsComplete ==
    \A q \in 1..scanned : KeptAt(q) =>
        LET bucket == seen[HashOf[input[q]]]
        IN  \E k \in 1..Len(bucket) : bucket[k] = input[q]

(* A row was kept, or an equal one before it was.  Verdicts compare a row  *)
(* with all earlier rows, the code only with the kept ones: this bridges   *)
(* the two.                                                                *)
NoRowIsLost ==
    \A q \in 1..scanned :
        KeptAt(q) \/ \E k \in 1..(q - 1) : KeptAt(k) /\ <<input[k], input[q]>> \in PyEqual

BetweenBatches ==
    /\ pc \in {"pull", "yielded", "returned", "closed"} => size = 0
    /\ size = 0 => keep = <<>>
    /\ pc = "returned" => stats.rows_in = Len(input)

LoopInv ==
    /\ VerdictsSpanBatches
    /\ IndexIsSound
    /\ IndexIsComplete
    /\ NoRowIsLost

IInv == TypeOK /\ LoopInv /\ BetweenBatches

-----------------------------------------------------------------------------
Stats == [batches_in : Nat, rows_in : Nat, rows_out : Nat, distinct_keys : Nat]

LEMMA StatsUpdates ==
    ASSUME NEW s \in Stats, NEW n \in Nat, NEW d \in Nat
    PROVE  /\ [s EXCEPT !.batches_in = @ + 1] \in Stats
           /\ [s EXCEPT !.batches_in = @ + 1, !.rows_in = @ + n] \in Stats
           /\ [s EXCEPT !.distinct_keys = d] \in Stats
           /\ [s EXCEPT !.distinct_keys = d, !.rows_out = @ + n] \in Stats
<1>1. [s EXCEPT !.batches_in = @ + 1] \in Stats
  BY DEF Stats
<1>2. [s EXCEPT !.batches_in = @ + 1, !.rows_in = @ + n] \in Stats
  <2> DEFINE t == [s EXCEPT !.batches_in = @ + 1]
  <2>1. t \in Stats /\ t.rows_in = s.rows_in
    BY <1>1 DEF Stats
  <2> HIDE DEF t
  <2>2. [t EXCEPT !.rows_in = t.rows_in + n] \in Stats
    BY <2>1 DEF Stats
  <2> QED BY <2>1, <2>2 DEF t
<1>3. [s EXCEPT !.distinct_keys = d] \in Stats
  BY DEF Stats
<1>4. [s EXCEPT !.distinct_keys = d, !.rows_out = @ + n] \in Stats
  <2> DEFINE t == [s EXCEPT !.distinct_keys = d]
  <2>1. t \in Stats /\ t.rows_out = s.rows_out
    BY <1>3 DEF Stats
  <2> HIDE DEF t
  <2>2. [t EXCEPT !.rows_out = t.rows_out + n] \in Stats
    BY <2>1 DEF Stats
  <2> QED BY <2>1, <2>2 DEF t
<1> QED BY <1>1, <1>2, <1>3, <1>4

LEMMA LenSeenType == ASSUME TypeOK PROVE LenSeen \in Nat
BY StreamAssumption, FS_Subset, FS_CardinalityType DEF LenSeen

LEMMA StartType == ASSUME TypeOK PROVE /\ start \in Nat
                                       /\ scanned \in Nat
                                       /\ start + size = stats.rows_in
                                       /\ start + size <= Len(input)
BY DEF TypeOK, start, scanned

LEMMA KeptType == ASSUME TypeOK PROVE IsFiniteSet(Kept) /\ Cardinality(Kept) \in Nat
<1>1. IsFiniteSet((start + 1)..(start + size))
  <2>1. start + 1 \in Int /\ start + size \in Int
    BY StartType DEF TypeOK
  <2> QED BY <2>1, FS_Interval
<1>2. Kept \subseteq (start + 1)..(start + size)
  BY DEF Kept
<1> QED BY <1>1, <1>2, FS_Subset, FS_CardinalityType

LEMMA InitIInv == Init => IInv
<1> SUFFICES ASSUME Init PROVE IInv
  OBVIOUS
<1>1. TypeOK
  BY StreamAssumption DEF Init, TypeOK
<1>2. scanned = 0
  BY DEF Init, scanned, start
<1>3. VerdictsSpanBatches /\ IndexIsComplete /\ NoRowIsLost
  BY <1>2 DEF scanned, VerdictsSpanBatches, IndexIsComplete, NoRowIsLost
<1>4. IndexIsSound
  BY DEF Init, IndexIsSound
<1>5. BetweenBatches
  BY DEF Init, BetweenBatches
<1> QED BY <1>1, <1>3, <1>4, <1>5 DEF IInv, LoopInv

(* A step that scans nothing and changes no verdict preserves what the     *)
(* loop maintains.                                                         *)
LEMMA LoopUnchanged ==
    ASSUME IInv, UNCHANGED <<input, seen>>, scanned' = scanned,
           \A p \in 1..scanned : KeptAt(p)' <=> KeptAt(p)
    PROVE  LoopInv'
<1>0. scanned \in Nat
  BY StartType DEF IInv
<1>1. VerdictsSpanBatches'
  BY DEF IInv, LoopInv, VerdictsSpanBatches, scanned
<1>2. IndexIsSound'
  BY DEF IInv, LoopInv, IndexIsSound
<1>3. IndexIsComplete'
  BY DEF IInv, LoopInv, IndexIsComplete
<1>4. NoRowIsLost'
  <2> SUFFICES ASSUME NEW q \in 1..scanned
               PROVE KeptAt(q)' \/ \E k \in 1..(q - 1) :
                        KeptAt(k)' /\ <<input[k], input[q]>> \in PyEqual
    BY DEF NoRowIsLost
  <2>1. 1..(q - 1) \subseteq 1..scanned
    BY <1>0
  <2> QED BY <2>1 DEF IInv, LoopInv, NoRowIsLost
<1> QED BY <1>1, <1>2, <1>3, <1>4 DEF LoopInv

LEMMA Pushed ==
    ASSUME NEW b \in Seq(Row), NEW r \in Row
    PROVE  /\ Len(Append(b, r)) = Len(b) + 1 /\ Len(b) \in Nat
           /\ \A k \in 1..Len(b) : Append(b, r)[k] = b[k]
           /\ Append(b, r)[Len(b) + 1] = r
OBVIOUS

LEMMA ScanRowIInv ==
    ASSUME IInv, ScanRow
    PROVE  IInv'
<1>0. PICK p \in Nat : p = scanned + 1     \* rigid: KeptAt(p)' is about this p
  BY StartType DEF IInv
<1> DEFINE key == input[p]
           h0 == HashOf[key]
           dup == InBucket(seen[h0], key)
<1>1. /\ p \in 1..Len(input) /\ p \in Nat /\ scanned \in Nat /\ start \in Nat
      /\ p = scanned + 1 /\ p = start + Len(keep) + 1
      /\ key \in Row
      /\ h0 \in Hash
      /\ seen[h0] \in Seq(Row)
  <2>1. p \in 1..Len(input) /\ p \in Nat /\ scanned \in Nat /\ start \in Nat
    BY <1>0, StartType DEF IInv, TypeOK, ScanRow, scanned
  <2>2. key \in Row
    BY <2>1 DEF IInv, TypeOK
  <2>3. p = start + Len(keep) + 1
    BY <1>0 DEF scanned
  <2> QED BY <1>0, <2>1, <2>2, <2>3, StreamAssumption DEF IInv, TypeOK
<1>2. /\ UNCHANGED <<pc, input, columns, limit, size, stats, out>>
      /\ pc = "scan"
      /\ Len(keep) < size
      /\ start' = start
  BY DEF ScanRow, start
<1>3. /\ keep' = Append(keep, ~dup)
      /\ seen' = [seen EXCEPT ![h0] = IF dup THEN @ ELSE Append(@, key)]
  <2>1. keep' = Append(keep, ~dup)
    BY <1>1 DEF ScanRow
  <2>2. CASE dup
    BY <1>1, <2>1, <2>2 DEF ScanRow, IInv, TypeOK
  <2>3. CASE ~dup
    BY <1>1, <2>1, <2>3 DEF ScanRow
  <2> QED BY <2>1, <2>2, <2>3
<1>3a. \A h \in Hash : seen'[h] = IF h = h0 /\ ~dup THEN Append(seen[h], key)
                                                  ELSE seen[h]
  BY <1>1, <1>3 DEF IInv, TypeOK
<1>3b. \A h \in Hash : \A k \in 1..Len(seen[h]) :
          k \in 1..Len(seen'[h]) /\ seen'[h][k] = seen[h][k]
  <2> SUFFICES ASSUME NEW h \in Hash, NEW k \in 1..Len(seen[h])
               PROVE  k \in 1..Len(seen'[h]) /\ seen'[h][k] = seen[h][k]
    OBVIOUS
  <2>1. CASE h = h0 /\ ~dup
    <3>1. seen'[h] = Append(seen[h], key) /\ seen[h] \in Seq(Row) /\ key \in Row
      BY <1>1, <1>3a, <2>1
    <3> HIDE DEF key
    <3> QED BY <3>1, Pushed
  <2>2. CASE ~(h = h0 /\ ~dup)
    BY <1>3a, <2>2
  <2> QED BY <2>1, <2>2
<1>4. /\ keep' \in Seq(BOOLEAN)
      /\ Len(keep') = Len(keep) + 1
      /\ scanned' = p
  BY <1>1, <1>2, <1>3 DEF IInv, TypeOK, scanned
<1>5. KeptAt(p)' <=> ~dup
  <2>1. keep'[p - start] = ~dup
    BY <1>1, <1>3 DEF IInv, TypeOK
  <2>2. KeptAt(p)' = keep'[p - start]
    BY <1>1, <1>2 DEF KeptAt, IInv, TypeOK
  <2> QED BY <2>1, <2>2
<1>6. \A q \in 1..scanned : KeptAt(q)' <=> KeptAt(q)
  <2> SUFFICES ASSUME NEW q \in 1..scanned PROVE KeptAt(q)' <=> KeptAt(q)
    OBVIOUS
  <2>1. CASE q <= start
    BY <1>2, <2>1 DEF KeptAt
  <2>2. CASE ~(q <= start)
    <3>1. q - start \in 1..Len(keep)
      BY <1>1, <2>2 DEF scanned, IInv, TypeOK
    <3>2. keep'[q - start] = keep[q - start]
      BY <1>3, <3>1 DEF IInv, TypeOK
    <3> QED BY <1>2, <2>2, <3>2 DEF KeptAt
  <2> QED BY <2>1, <2>2
<1>7. dup <=> \E q \in 1..scanned : <<input[q], key>> \in PyEqual
  <2>1. ASSUME dup PROVE \E q \in 1..scanned : <<input[q], key>> \in PyEqual
    <3>1. PICK k \in 1..Len(seen[h0]) : <<seen[h0][k], key>> \in PyEqual
      BY <2>1 DEF InBucket
    <3>2. PICK q \in 1..scanned : input[q] = seen[h0][k]
      BY <1>1 DEF IInv, LoopInv, IndexIsSound
    <3> QED BY <3>1, <3>2
  <2>2. ASSUME NEW q \in 1..scanned, <<input[q], key>> \in PyEqual PROVE dup
    <3>1. PICK k \in 1..scanned : KeptAt(k) /\ <<input[k], key>> \in PyEqual
      <4>1. CASE KeptAt(q)
        BY <2>2, <4>1
      <4>2. CASE ~KeptAt(q)
        <5>1. PICK k \in 1..(q - 1) : KeptAt(k) /\ <<input[k], input[q]>> \in PyEqual
          BY <4>2 DEF IInv, LoopInv, NoRowIsLost
        <5>2. k \in 1..scanned /\ input[k] \in Row /\ input[q] \in Row
          BY <1>1, <5>1 DEF IInv, TypeOK
        <5>3. <<input[k], key>> \in PyEqual
          BY <1>1, <2>2, <5>1, <5>2, PyEqualAssumption
        <5> QED BY <5>1, <5>2, <5>3
      <4> QED BY <4>1, <4>2
    <3>2. input[k] \in Row
      BY <1>1 DEF IInv, TypeOK
    <3>3. HashOf[input[k]] = h0
      BY <1>1, <3>1, <3>2, PyEqualAssumption
    <3>4. PICK l \in 1..Len(seen[h0]) : seen[h0][l] = input[k]
      BY <3>1, <3>3 DEF IInv, LoopInv, IndexIsComplete
    <3> QED BY <3>1, <3>4 DEF InBucket
  <2> QED BY <2>1, <2>2
<1> HIDE DEF dup
<1>8. TypeOK'
  <2>1. seen' \in [Hash -> Seq(Row)]
    BY <1>1, <1>3 DEF IInv, TypeOK
  <2>2. Len(keep') <= size
    BY <1>2, <1>4 DEF IInv, TypeOK
  <2> QED BY <1>2, <1>4, <2>1, <2>2 DEF IInv, TypeOK
<1>9. VerdictsSpanBatches'
  <2> SUFFICES ASSUME NEW q \in 1..p
               PROVE  KeptAt(q)' <=> \A k \in 1..(q - 1) :
                                       <<input[k], input[q]>> \notin PyEqual
    BY <1>2, <1>4 DEF VerdictsSpanBatches, scanned
  <2>1. CASE q = p
    <3>1. 1..(p - 1) = 1..scanned
      BY <1>1
    <3> QED BY <1>5, <1>7, <2>1, <3>1, Zenon
  <2>2. CASE q # p
    <3>1. q \in 1..scanned
      BY <1>1, <2>2
    <3> QED BY <1>6, <3>1 DEF IInv, LoopInv, VerdictsSpanBatches, scanned
  <2> QED BY <2>1, <2>2
<1>10. IndexIsSound'
  <2> SUFFICES ASSUME NEW h \in Hash, NEW k \in 1..Len(seen'[h])
               PROVE  \E q \in 1..p : input[q] = seen'[h][k]
    BY <1>2, <1>4 DEF IndexIsSound
  <2>1. CASE h = h0 /\ ~dup /\ k = Len(seen[h0]) + 1
    <3>1. seen'[h] = Append(seen[h], key) /\ seen[h] \in Seq(Row) /\ key \in Row
      BY <1>1, <1>3a, <2>1
    <3>2. seen'[h][k] = key
      <4> HIDE DEF key, h0
      <4> QED BY <2>1, <3>1, Pushed
    <3> QED BY <1>1, <3>2
  <2>2. CASE ~(h = h0 /\ ~dup /\ k = Len(seen[h0]) + 1)
    <3>1. k \in 1..Len(seen[h]) /\ seen'[h][k] = seen[h][k]
      <4>1. CASE h = h0 /\ ~dup
        <5>1. seen'[h] = Append(seen[h], key) /\ seen[h] \in Seq(Row) /\ key \in Row
          BY <1>1, <1>3a, <4>1
        <5>2. k # Len(seen[h]) + 1
          BY <2>2, <4>1
        <5> HIDE DEF key, h0
        <5> QED BY <5>1, <5>2, Pushed
      <4>2. CASE ~(h = h0 /\ ~dup)
        BY <1>3a, <4>2
      <4> QED BY <4>1, <4>2
    <3>2. PICK q \in 1..scanned : input[q] = seen[h][k]
      BY <3>1 DEF IInv, LoopInv, IndexIsSound
    <3> QED BY <1>1, <3>1, <3>2
  <2> QED BY <2>1, <2>2
<1>11. IndexIsComplete'
  <2> SUFFICES ASSUME NEW q \in 1..p, KeptAt(q)'
               PROVE  \E k \in 1..Len(seen'[HashOf[input[q]]]) :
                         seen'[HashOf[input[q]]][k] = input[q]
    BY <1>2, <1>4 DEF IndexIsComplete
  <2>1. CASE q = p
    <3>1. ~dup
      BY <1>5, <2>1
    <3>2. seen'[h0] = Append(seen[h0], key)
      BY <1>1, <1>3a, <3>1
    <3>3. /\ Len(seen[h0]) + 1 \in 1..Len(seen'[h0])
          /\ seen'[h0][Len(seen[h0]) + 1] = key
      BY <1>1, <3>2
    <3> QED BY <2>1, <3>3
  <2>2. CASE q # p
    <3> DEFINE h == HashOf[input[q]]
    <3>1. q \in 1..scanned /\ input[q] \in Row
      BY <1>1, <2>2 DEF IInv, TypeOK
    <3>2. h \in Hash
      BY <3>1, StreamAssumption
    <3>3. PICK k \in 1..Len(seen[h]) : seen[h][k] = input[q]
      BY <1>6, <3>1 DEF IInv, LoopInv, IndexIsComplete
    <3>4. k \in 1..Len(seen'[h]) /\ seen'[h][k] = seen[h][k]
      BY <1>3b, <3>2
    <3> QED BY <3>3, <3>4
  <2> QED BY <2>1, <2>2
<1>12. NoRowIsLost'
  <2> SUFFICES ASSUME NEW q \in 1..p
               PROVE  KeptAt(q)' \/ \E k \in 1..(q - 1) :
                        KeptAt(k)' /\ <<input[k], input[q]>> \in PyEqual
    BY <1>2, <1>4 DEF NoRowIsLost
  <2>1. CASE q = p
    <3>1. CASE ~dup
      BY <1>5, <2>1, <3>1
    <3>2. CASE dup
      <4>1. PICK j \in 1..scanned : <<input[j], key>> \in PyEqual
        BY <1>7, <3>2
      <4>2. PICK k \in 1..scanned : KeptAt(k) /\ <<input[k], key>> \in PyEqual
        <5>1. CASE KeptAt(j)
          BY <4>1, <5>1
        <5>2. CASE ~KeptAt(j)
          <6>1. PICK k \in 1..(j - 1) : KeptAt(k) /\ <<input[k], input[j]>> \in PyEqual
            BY <5>2 DEF IInv, LoopInv, NoRowIsLost
          <6>2. k \in 1..scanned /\ input[k] \in Row /\ input[j] \in Row
            BY <1>1, <6>1 DEF IInv, TypeOK
          <6>3. <<input[k], key>> \in PyEqual
            BY <1>1, <4>1, <6>1, <6>2, PyEqualAssumption
          <6> QED BY <6>1, <6>2, <6>3
        <5> QED BY <5>1, <5>2
      <4>3. k \in 1..(q - 1) /\ KeptAt(k)'
        BY <1>1, <1>6, <2>1, <4>2
      <4> QED BY <2>1, <4>2, <4>3
    <3> QED BY <3>1, <3>2
  <2>2. CASE q # p
    <3>1. q \in 1..scanned /\ 1..(q - 1) \subseteq 1..scanned
      BY <1>1, <2>2
    <3>2. KeptAt(q) \/ \E k \in 1..(q - 1) :
             KeptAt(k) /\ <<input[k], input[q]>> \in PyEqual
      BY <3>1 DEF IInv, LoopInv, NoRowIsLost
    <3> QED BY <1>6, <3>1, <3>2
  <2> QED BY <2>1, <2>2
<1>13. BetweenBatches'
  <2>1. size # 0
    BY <1>2 DEF IInv, TypeOK
  <2> QED BY <1>2, <2>1 DEF BetweenBatches
<1> QED BY <1>8, <1>9, <1>10, <1>11, <1>12, <1>13 DEF IInv, LoopInv

LEMMA PullIInv ==
    ASSUME IInv, Pull
    PROVE  IInv'
<1>1. PICK n \in 1..(Len(input) - stats.rows_in) :
         size' = n /\ stats' = [stats EXCEPT !.batches_in = @ + 1, !.rows_in = @ + n]
  BY DEF Pull
<1>2. size = 0 /\ keep = <<>>
  BY DEF Pull, IInv, BetweenBatches
<1>3. /\ stats.rows_in \in Nat /\ n \in Nat \ {0}
      /\ stats'.rows_in = stats.rows_in + n
      /\ stats'.rows_in <= Len(input)
  BY <1>1 DEF IInv, TypeOK
<1>4. start' = start /\ scanned' = scanned
  BY <1>1, <1>2, <1>3 DEF start, scanned, Pull
<1>5. TypeOK'
  <2>1. stats \in Stats /\ n \in Nat
    BY <1>3 DEF IInv, TypeOK, Stats
  <2>2. stats' \in Stats
    BY <1>1, <2>1, StatsUpdates
  <2>3. /\ size' \in 0..stats'.rows_in
        /\ Len(keep) <= size'
        /\ stats'.rows_in - size' = stats.rows_in - size
    BY <1>1, <1>2, <1>3
  <2> QED BY <1>3, <2>2, <2>3 DEF Pull, IInv, TypeOK, Stats
<1>6. LoopInv'
  BY <1>4, LoopUnchanged DEF Pull, KeptAt
<1>7. BetweenBatches'
  BY <1>1, <1>2, <1>3 DEF Pull, BetweenBatches
<1> QED BY <1>5, <1>6, <1>7 DEF IInv

LEMMA YieldIInv ==
    ASSUME IInv, Yield
    PROVE  IInv'
<1>1. /\ UNCHANGED <<input, columns, limit, seen>>
      /\ pc' = "yielded" /\ size' = 0 /\ keep' = <<>>
      /\ Len(keep) = size
      /\ out' = out \cup Kept
      /\ stats' = [stats EXCEPT !.distinct_keys = LenSeen,
                                !.rows_out = @ + Cardinality(Kept)]
  BY DEF Yield
<1>2. /\ start \in Nat /\ size \in Nat
      /\ start' = start + size
      /\ scanned = start + size /\ scanned' = scanned
      /\ stats'.rows_in = stats.rows_in /\ stats.rows_in = start + size
  BY <1>1, StartType DEF IInv, TypeOK, start, scanned
<1>3. LenSeen \in Nat /\ Cardinality(Kept) \in Nat
  BY LenSeenType, KeptType DEF IInv
<1>4. out \subseteq 1..start
  BY DEF IInv, TypeOK, start
<1>5. TypeOK'
  <2>0. stats \in Stats
    BY DEF IInv, TypeOK, Stats
  <2>1. stats' \in Stats
    BY <1>1, <1>3, <2>0, StatsUpdates
  <2>2. out' \subseteq 1..(stats'.rows_in - size')
    BY <1>1, <1>2, <1>4 DEF Kept
  <2> QED BY <1>1, <1>2, <2>1, <2>2 DEF IInv, TypeOK, Stats
<1>6. ASSUME NEW p \in 1..scanned
      PROVE  KeptAt(p)' <=> KeptAt(p)
  <2>1. KeptAt(p)' <=> p \in out \/ p \in Kept
    BY <1>1, <1>2 DEF KeptAt
  <2>2. CASE p <= start
    <3>1. p \notin Kept
      BY <1>2, <2>2 DEF Kept
    <3> QED BY <2>1, <2>2, <3>1 DEF KeptAt
  <2>3. CASE ~(p <= start)
    <3>1. p \notin out /\ p \in (start + 1)..(start + size)
      BY <1>2, <1>4, <2>3
    <3>2. p \in Kept <=> keep[p - start]
      BY <3>1 DEF Kept
    <3> QED BY <2>1, <2>3, <3>1, <3>2 DEF KeptAt
  <2> QED BY <2>2, <2>3
<1>7. LoopInv'
  BY <1>1, <1>2, <1>6, LoopUnchanged
<1>8. BetweenBatches'
  BY <1>1 DEF BetweenBatches
<1> QED BY <1>5, <1>7, <1>8 DEF IInv

(* The remaining steps move pc and the counters only. *)
LEMMA QuietIInv ==
    ASSUME IInv,
           PullEmpty \/ RaiseMemoryError \/ Resume \/ Close \/ Exhausted \/ UNCHANGED vars
    PROVE  IInv'
<1>1. /\ UNCHANGED <<input, columns, limit, size, keep, seen, out>>
      /\ stats'.rows_in = stats.rows_in
  BY DEF PullEmpty, RaiseMemoryError, Resume, Close, Exhausted, vars, IInv, TypeOK
<1>2. start' = start /\ scanned' = scanned
  BY <1>1 DEF start, scanned
<1>3. TypeOK'
  <2>0. stats \in Stats /\ LenSeen \in Nat
    BY LenSeenType DEF IInv, TypeOK, Stats
  <2>1. stats' \in Stats
    BY <2>0, StatsUpdates DEF PullEmpty, RaiseMemoryError, Resume, Close, Exhausted, vars
  <2>2. pc' \in {"pull", "scan", "yielded", "returned", "raised", "closed"}
    BY DEF PullEmpty, RaiseMemoryError, Resume, Close, Exhausted, vars, IInv, TypeOK
  <2> QED BY <1>1, <2>1, <2>2 DEF IInv, TypeOK, Stats
<1>4. LoopInv'
  BY <1>1, <1>2, LoopUnchanged DEF KeptAt
<1>5. BetweenBatches'
  BY <1>1 DEF PullEmpty, RaiseMemoryError, Resume, Close, Exhausted, vars, IInv,
     BetweenBatches
<1> QED BY <1>3, <1>4, <1>5 DEF IInv

LEMMA NextIInv == IInv /\ [Next]_vars => IInv'
BY ScanRowIInv, PullIInv, YieldIInv, QuietIInv DEF Next, Ended

THEOREM SpecIInv == Spec => []IInv
BY InitIInv, NextIInv, PTL DEF Spec

(* The task's state is always of its type. *)
THEOREM StreamTypeOK == Spec => []TypeOK
<1>1. IInv => TypeOK
  BY DEF IInv
<1> QED BY <1>1, SpecIInv, PTL

(* The index outlives the batches: a row is kept exactly when nothing      *)
(* before it in the partition equals it, whichever batch that was in.      *)
THEOREM VerdictsAcrossBatches == Spec => []VerdictsSpanBatches
<1>1. IInv => VerdictsSpanBatches
  BY DEF IInv, LoopInv
<1> QED BY <1>1, SpecIInv, PTL

-----------------------------------------------------------------------------
(* The published rows are the survivors among the rows judged. *)
LEMMA PublishedAreSurvivors ==
    ASSUME IInv
    PROVE  out = Abstract!Survivors(input, start)
<1>1. start \in Nat /\ out \subseteq 1..start
  BY StartType DEF IInv, TypeOK, start
<1>2. ASSUME NEW p \in 1..start
      PROVE  p \in out <=> Abstract!IsFirst(input, p)
  <2>1. p \in 1..(start + Len(keep)) /\ p <= start
    BY <1>1 DEF IInv, TypeOK
  <2>2. KeptAt(p) <=> p \in out
    BY <2>1 DEF KeptAt
  <2> QED BY <2>1, <2>2 DEF IInv, LoopInv, VerdictsSpanBatches, Abstract!IsFirst
<1> QED BY <1>1, <1>2 DEF Abstract!Survivors

(* However the partition is cut into batches, wherever the stream ends:    *)
(* yielding publishes the first occurrences of one more stretch of rows,   *)
(* and no other step changes what has been published.                      *)
THEOREM Refinement == Spec => ImplementsFirstOccurrence
<1>1. Init => Abstract!Init
  BY DEF Init, Abstract!Init, start
<1>2. IInv /\ IInv' /\ [Next]_vars => [Abstract!Next]_(Abstract!vars)
  <2> SUFFICES ASSUME IInv, IInv', [Next]_vars
               PROVE  [Abstract!Next]_(Abstract!vars)
    OBVIOUS
  <2>0. /\ out = Abstract!Survivors(input, start)
        /\ start \in Nat /\ start + size = stats.rows_in /\ start + size <= Len(input)
        /\ size \in Nat /\ Len(input) \in Nat
    <3>1. out = Abstract!Survivors(input, start)
      BY PublishedAreSurvivors
    <3>2. TypeOK
      BY DEF IInv
    <3>3. size \in Nat /\ Len(input) \in Nat
      BY <3>2 DEF TypeOK
    <3> QED BY <3>1, <3>2, <3>3, StartType
  <2>0a. out' = Abstract!Survivors(input', start')
    <3>1. (out = Abstract!Survivors(input, start))'
      BY PublishedAreSurvivors, PTL
    <3> QED BY <3>1 DEF Abstract!Survivors, Abstract!IsFirst
  <2>1. CASE Pull
    <3>1. start' = start
      BY <2>1 DEF Pull, start, IInv, TypeOK, BetweenBatches
    <3> QED BY <2>1, <3>1 DEF Pull, Abstract!vars, Abstract!Next, Abstract!Fail
  <2>2. CASE ScanRow \/ PullEmpty \/ Resume \/ Close
    <3>1. start' = start
      BY <2>2 DEF ScanRow, PullEmpty, Resume, Close, start, IInv, TypeOK
    <3> QED BY <2>2, <3>1 DEF ScanRow, PullEmpty, Resume, Close, Abstract!vars
  <2>3. CASE RaiseMemoryError
    <3>1. start' = start
      BY <2>3 DEF RaiseMemoryError, start, IInv, TypeOK
    <3> QED BY <2>3, <3>1 DEF RaiseMemoryError, Abstract!Next, Abstract!Fail
  <2>4. CASE Yield
    <3>1. /\ start' = start + size
          /\ pc = "scan" /\ pc' = "yielded" /\ input' = input
      BY <2>0, <2>4 DEF Yield, start, IInv, TypeOK
    <3>2. start' \in start..Len(input)
      BY <2>0, <3>1
    <3> QED BY <2>0a, <3>1, <3>2 DEF Abstract!Next, Abstract!Publish
  <2>5. CASE Exhausted
    <3>1. start' = start /\ start = Len(input) /\ out' = out
          /\ pc = "pull" /\ pc' = "returned" /\ input' = input
      BY <2>0, <2>5 DEF Exhausted, start, IInv, BetweenBatches
    <3> QED BY <2>0, <3>1 DEF Abstract!Next, Abstract!Publish
  <2>6. CASE Ended \/ UNCHANGED vars
    BY <2>6 DEF Ended, vars, start, Abstract!vars
  <2> QED BY <2>1, <2>2, <2>3, <2>4, <2>5, <2>6 DEF Next
<1> QED BY <1>1, <1>2, SpecIInv, PTL DEF Spec, ImplementsFirstOccurrence, Abstract!Spec

-----------------------------------------------------------------------------
(* What the counters count: buckets hold keys of their own hash, so the    *)
(* dict has an entry for every hash of a scanned row and for no other.     *)
BucketsByHash ==
    \A h \in Hash : \A k \in 1..Len(seen[h]) : HashOf[seen[h][k]] = h

HashesOf(P) == {HashOf[input[p]] : p \in P}
SeenHashes == {h \in Hash : seen[h] # <<>>}

CountersInv ==
    /\ BucketsByHash
    /\ stats.rows_out = Cardinality(out)
    /\ pc \in {"pull", "yielded", "returned", "closed"} => stats.distinct_keys = LenSeen
    /\ YieldedHashesWithinLimit

LEMMA SeenHashesAreScanned ==
    ASSUME IInv, BucketsByHash
    PROVE  /\ SeenHashes = HashesOf(1..scanned)
           /\ HashesOf(out) \subseteq SeenHashes
<1>1. /\ scanned \in Nat /\ scanned <= Len(input) /\ out \subseteq 1..start
      /\ start \in Nat /\ start <= scanned /\ input \in Seq(Row)
      /\ seen \in [Hash -> Seq(Row)]
    <2>1. TypeOK  BY DEF IInv
    <2> QED  BY <2>1, StartType DEF TypeOK, scanned, start
<1>2. \A q \in 1..scanned : input[q] \in Row /\ HashOf[input[q]] \in Hash
    BY <1>1, StreamAssumption
<1>3. ASSUME NEW h \in SeenHashes PROVE h \in HashesOf(1..scanned)
    <2>1. h \in Hash /\ 1 \in 1..Len(seen[h])  BY <1>1 DEF SeenHashes
    <2>2. PICK q \in 1..scanned : input[q] = seen[h][1]
        BY <2>1 DEF IInv, LoopInv, IndexIsSound
    <2>3. HashOf[input[q]] = h  BY <2>1, <2>2 DEF BucketsByHash
    <2> QED  BY <2>3 DEF HashesOf
<1>4. ASSUME NEW q \in 1..scanned, KeptAt(q) PROVE HashOf[input[q]] \in SeenHashes
    <2>1. PICK k \in 1..Len(seen[HashOf[input[q]]]) :
                seen[HashOf[input[q]]][k] = input[q]
        BY <1>4 DEF IInv, LoopInv, IndexIsComplete
    <2>2. seen[HashOf[input[q]]] # <<>>  BY <2>1
    <2> QED  BY <1>2, <2>2 DEF SeenHashes
<1>5. ASSUME NEW q \in 1..scanned PROVE HashOf[input[q]] \in SeenHashes
    <2>1. CASE KeptAt(q)  BY <1>4, <2>1
    <2>2. CASE ~ KeptAt(q)
        <3>1. PICK k \in 1..(q - 1) : KeptAt(k) /\ <<input[k], input[q]>> \in PyEqual
            BY <2>2 DEF IInv, LoopInv, NoRowIsLost
        <3>2. k \in 1..scanned  BY <1>1
        <3>3. HashOf[input[k]] = HashOf[input[q]]
            BY <1>2, <3>1, <3>2, PyEqualAssumption
        <3> QED  BY <1>4, <3>1, <3>2, <3>3
    <2> QED  BY <2>1, <2>2
<1>6. SeenHashes = HashesOf(1..scanned)  BY <1>3, <1>5 DEF HashesOf
<1>7. out \subseteq 1..scanned  BY <1>1
<1> QED  BY <1>6, <1>7 DEF HashesOf

LEMMA SeenHashesFinite == IsFiniteSet(SeenHashes) /\ LenSeen = Cardinality(SeenHashes)
BY StreamAssumption, FS_Subset DEF SeenHashes, LenSeen

LEMMA InitCounters == Init => CountersInv
<1> SUFFICES ASSUME Init PROVE CountersInv  OBVIOUS
<1>1. BucketsByHash  BY DEF Init, BucketsByHash
<1>2. out = {} /\ Cardinality(out) = 0  BY FS_EmptySet DEF Init
<1>3. LenSeen = 0
    <2>1. SeenHashes = {}  BY DEF Init, SeenHashes
    <2> QED  BY <2>1, SeenHashesFinite, FS_EmptySet
<1>4. YieldedHashesWithinLimit
    <2>1. {HashOf[input[p]] : p \in out} = {}  BY <1>2
    <2>2. limit # NoLimit => limit \in Nat  BY StreamAssumption DEF Init
    <2> QED  BY <2>1, <2>2, FS_EmptySet DEF YieldedHashesWithinLimit
<1> QED  BY <1>1, <1>2, <1>3, <1>4 DEF Init, CountersInv

(* Only a scan touches the index, and it puts a key where it belongs. *)
LEMMA ScanRowCounters ==
    ASSUME IInv, CountersInv, ScanRow
    PROVE  CountersInv'
<1> DEFINE key == input[start + Len(keep) + 1]
           h0 == HashOf[key]
<1>1. /\ UNCHANGED <<pc, input, limit, stats, out>> /\ pc = "scan"
      /\ \/ UNCHANGED seen
         \/ seen' = [seen EXCEPT ![h0] = Append(@, key)]
    BY DEF ScanRow
<1>2. key \in Row /\ h0 \in Hash /\ seen \in [Hash -> Seq(Row)]
    <2>1. TypeOK  BY DEF IInv
    <2>2. start + Len(keep) + 1 \in 1..Len(input)
        BY <2>1, StartType DEF TypeOK, ScanRow
    <2> QED  BY <2>1, <2>2, StreamAssumption DEF TypeOK
<1>3. BucketsByHash'
    <2>1. CASE UNCHANGED seen  BY <2>1 DEF CountersInv, BucketsByHash
    <2>2. CASE seen' = [seen EXCEPT ![h0] = Append(@, key)]
        <3> SUFFICES ASSUME NEW h \in Hash, NEW k \in 1..Len(seen'[h])
                     PROVE  HashOf[seen'[h][k]] = h
            BY DEF BucketsByHash
        <3>1. CASE h = h0 /\ k = Len(seen[h]) + 1
            <4>1. seen'[h] = Append(seen[h], key) /\ seen[h] \in Seq(Row)
                BY <1>2, <2>2, <3>1
            <4>2. seen'[h][k] = key
                <5> HIDE DEF key, h0
                <5> QED  BY <1>2, <3>1, <4>1, Pushed
            <4> QED  BY <3>1, <4>2
        <3>2. CASE ~ (h = h0 /\ k = Len(seen[h]) + 1)
            <4>1. k \in 1..Len(seen[h]) /\ seen'[h][k] = seen[h][k]
                <5> HIDE DEF key, h0
                <5>1. CASE h = h0
                    <6>1. seen'[h] = Append(seen[h], key) /\ seen[h] \in Seq(Row)
                        BY <1>2, <2>2, <5>1
                    <6> QED  BY <1>2, <3>2, <5>1, <6>1, Pushed
                <5>2. CASE h # h0  BY <1>2, <2>2, <5>2
                <5> QED  BY <5>1, <5>2
            <4> QED  BY <4>1 DEF CountersInv, BucketsByHash
        <3> QED  BY <3>1, <3>2
    <2> QED  BY <1>1, <2>1, <2>2
<1> QED  BY <1>1, <1>3 DEF CountersInv, YieldedHashesWithinLimit

(* The batch is counted when it is yielded, and only within the limit. *)
LEMMA YieldCounters ==
    ASSUME IInv, IInv', CountersInv, Yield
    PROVE  CountersInv'
<1>1. /\ UNCHANGED <<input, limit, seen>> /\ pc' = "yielded" /\ ~ OverLimit
      /\ out' = out \cup Kept
      /\ stats' = [stats EXCEPT !.distinct_keys = LenSeen,
                                !.rows_out = @ + Cardinality(Kept)]
    BY DEF Yield
<1>2. BucketsByHash'  BY <1>1 DEF CountersInv, BucketsByHash
<1>3. LenSeen' = LenSeen /\ SeenHashes' = SeenHashes  BY <1>1 DEF LenSeen, SeenHashes
<1>4. /\ stats'.distinct_keys = LenSeen
      /\ stats'.rows_out = stats.rows_out + Cardinality(Kept)
    BY <1>1 DEF IInv, TypeOK
<1>5. Cardinality(out') = Cardinality(out) + Cardinality(Kept)
    <2>1. start \in Nat /\ out \subseteq 1..start
        BY StartType DEF IInv, TypeOK, start
    <2>2. IsFiniteSet(out)
        <3>1. IsFiniteSet(1..start)  BY <2>1, FS_Interval
        <3> QED  BY <2>1, <3>1, FS_Subset
    <2>3. IsFiniteSet(Kept) /\ Cardinality(Kept) \in Nat  BY KeptType DEF IInv
    <2>4. out \cap Kept = {}
        <3>1. \A p \in Kept : p \in Int /\ p > start  BY <2>1, StartType DEF Kept, IInv, TypeOK
        <3> QED  BY <2>1, <3>1
    <2>5. Cardinality(out \cap Kept) = 0  BY <2>4, FS_EmptySet
    <2>6. Cardinality(out) \in Nat  BY <2>2, FS_CardinalityType
    <2>7. Cardinality(out \cup Kept)
            = Cardinality(out) + Cardinality(Kept) - Cardinality(out \cap Kept)
        BY <2>2, <2>3, FS_Union
    <2> QED  BY <1>1, <2>3, <2>5, <2>6, <2>7
<1>6. YieldedHashesWithinLimit'
    <2>1. HashesOf(out)' \subseteq SeenHashes
        <3>1. (HashesOf(out) \subseteq SeenHashes)'
            BY <1>2, SeenHashesAreScanned, PTL
        <3> QED  BY <1>3, <3>1
    <2>2. Cardinality(HashesOf(out)') <= LenSeen /\ Cardinality(HashesOf(out)') \in Nat
        BY <2>1, SeenHashesFinite, FS_Subset, FS_CardinalityType
    <2>3. LenSeen \in Nat  BY LenSeenType DEF IInv
    <2>4. limit # NoLimit => limit \in Nat /\ LenSeen <= limit
        BY <1>1, <2>3, StreamAssumption DEF OverLimit, IInv, TypeOK
    <2>5. limit # NoLimit => Cardinality(HashesOf(out)') <= limit
        BY <2>2, <2>3, <2>4
    <2> QED  BY <1>1, <2>5 DEF YieldedHashesWithinLimit, HashesOf
<1> QED  BY <1>1, <1>2, <1>3, <1>4, <1>5, <1>6 DEF CountersInv

(* No other step changes the index or what has been yielded, and none gets *)
(* between batches without having counted.                                 *)
LEMMA QuietCounters ==
    ASSUME IInv, CountersInv,
           \/ PullEmpty \/ Pull \/ RaiseMemoryError \/ Resume \/ Close
           \/ Exhausted \/ UNCHANGED vars
    PROVE  CountersInv'
<1>1. UNCHANGED <<input, limit, seen, out>>
    BY DEF PullEmpty, Pull, RaiseMemoryError, Resume, Close, Exhausted, vars
<1>2. stats'.rows_out = stats.rows_out
    BY DEF PullEmpty, Pull, RaiseMemoryError, Resume, Close, Exhausted, vars, IInv, TypeOK
<1>3. pc' \in {"pull", "yielded", "returned", "closed"} =>
          /\ pc \in {"pull", "yielded", "returned", "closed"}
          /\ stats'.distinct_keys = stats.distinct_keys
    BY DEF PullEmpty, Pull, RaiseMemoryError, Resume, Close, Exhausted, vars, IInv, TypeOK
<1>4. LenSeen' = LenSeen  BY <1>1 DEF LenSeen
<1> QED  BY <1>1, <1>2, <1>3, <1>4 DEF CountersInv, BucketsByHash, YieldedHashesWithinLimit

(* Both invariants hold of every reachable state. *)
THEOREM SpecCounters == Spec => [](IInv /\ CountersInv)
<1>1. IInv /\ IInv' /\ CountersInv /\ [Next]_vars => CountersInv'
    BY ScanRowCounters, YieldCounters, QuietCounters DEF Next, Ended
<1> QED  BY <1>1, InitCounters, SpecIInv, PTL DEF Spec

(* max_distinct_keys bounds the hashes of what a task has yielded, at any  *)
(* time and for any partition and any cut.                                 *)
THEOREM HashesWithinLimit == Spec => []YieldedHashesWithinLimit
<1>1. CountersInv => YieldedHashesWithinLimit  BY DEF CountersInv
<1> QED  BY <1>1, SpecCounters, PTL

(* The counters of a stream say what it has yielded and how many hashes    *)
(* the rows it has read have, also where a stream is closed early.         *)
THEOREM CountersAreExact == Spec => []StatsDescribeStream
<1>1. IInv /\ CountersInv => StatsDescribeStream
    <2> SUFFICES ASSUME IInv, CountersInv, pc # "scan", pc # "raised"
                 PROVE  stats.distinct_keys =
                            Cardinality({HashOf[input[p]] : p \in 1..stats.rows_in})
        BY DEF StatsDescribeStream, CountersInv
    <2>1. pc \in {"pull", "yielded", "returned", "closed"}  BY DEF IInv, TypeOK
    <2>2. scanned = stats.rows_in
        BY <2>1, StartType DEF IInv, BetweenBatches, scanned, TypeOK
    <2>3. SeenHashes = HashesOf(1..scanned)
        BY SeenHashesAreScanned DEF CountersInv
    <2> QED  BY <2>1, <2>2, <2>3, SeenHashesFinite DEF CountersInv, HashesOf
<1> QED  BY <1>1, SpecCounters, PTL
=============================================================================
