----------------------------- MODULE JoinProofs -----------------------------
(***************************************************************************)
(* The join kernel, for every set of keys, every encoding of them and      *)
(* sides of whatever length, provided that the null buffers tell which     *)
(* keys are null.  The index lists, in order, the usable right rows of     *)
(* every encoding; so what a probe appends is the matches of one left row, *)
(* and the flags the probes leave behind are the right rows with a match.  *)
(* Then broadcast_join, which puts such results one after another.         *)
(***************************************************************************)
EXTENDS Join, BroadcastJoin, FiniteSetTheorems, TLAPS

(* is_null sees every null of a key. *)
NullsAreMarked == IsNull = Nulled

Matches(i, j) == Match(left[i], right[j], nullSafe)

(* How many rows of a side the phases so far have dealt with. *)
Done(phase, side) ==
    CASE phase = "index" ->
           IF pc \in {"check", "error"} THEN 0 ELSE IF pc = "index" THEN next ELSE Len(side)
      [] phase = "probe" ->
           IF pc \in {"check", "error", "index"} THEN 0
           ELSE IF pc = "probe" THEN next ELSE Len(side)
      [] phase = "sweep" ->
           IF how \notin {"right", "full"} \/ pc \in {"check", "error", "index", "probe"} THEN 0
           ELSE IF pc = "sweep" THEN next ELSE Len(side)

(* What the first n left rows, or the first m right rows, add to a join. *)
PairsTo(n) == {p \in (1..n) \X (1..Len(right)) : Matches(p[1], p[2])}
LeftOverTo(n) ==
    IF how \in {"left", "full"}
    THEN {<<i, 0>> : i \in {k \in 1..n : \A j \in 1..Len(right) : ~ Matches(k, j)}} ELSE {}
RightOverTo(m) == {<<0, j>> : j \in {k \in 1..m : \A i \in 1..Len(left) : ~ Matches(i, k)}}

(* index lists the usable right rows of every encoding, in their order. *)
IndexInv ==
    \A b \in Bytes :
        /\ {index[b][k] : k \in 1..Len(index[b])} =
              {j \in 1..Done("index", right) : Code[right[j]] = b /\ ~ Skipped(right[j])}
        /\ \A k, l \in 1..Len(index[b]) : k < l => index[b][k] < index[b][l]

(* The flags say which right rows a probe has hit. *)
MatchedInv ==
    matched = {j \in 1..Len(right) : \E i \in 1..Done("probe", left) : Matches(i, j)}

(* The output is what the rows dealt with make of the join. *)
OutputInv ==
    Lists(out, UNION {PairsTo(Done("probe", left)), LeftOverTo(Done("probe", left)),
                      RightOverTo(Done("sweep", right))})

PhaseInv ==
    /\ pc = "check" => next = 0
    /\ pc = "index" => next <= Len(right)
    /\ pc = "probe" => next <= Len(left)
    /\ pc = "sweep" => next <= Len(right) /\ how \in {"right", "full"}

IInv == TypeOK /\ PhaseInv /\ IndexInv /\ MatchedInv /\ OutputInv

-----------------------------------------------------------------------------
(* Two listings in a row list both sets, if all of one is before the other. *)
LEMMA ListsConcat ==
    ASSUME NEW X, NEW s \in Seq(X), NEW t \in Seq(X), NEW S, NEW T,
           Lists(s, S), Lists(t, T), \A p \in S, q \in T : Before(p, q)
    PROVE  Lists(s \o t, S \cup T)
<1> DEFINE st == s \o t
<1>1. /\ Len(st) = Len(s) + Len(t)
      /\ \A k \in 1..Len(st) : st[k] = IF k <= Len(s) THEN s[k] ELSE t[k - Len(s)]
    OBVIOUS
<1>2. Len(s) \in Nat /\ Len(t) \in Nat  OBVIOUS
<1> HIDE DEF st
<1>3. \A p \in S : \E k \in 1..Len(st) : st[k] = p
    <2> TAKE p \in S
    <2>1. PICK k \in 1..Len(s) : s[k] = p  BY DEF Lists
    <2> QED  BY <2>1, <1>1, <1>2
<1>4. \A q \in T : \E k \in 1..Len(st) : st[k] = q
    <2> TAKE q \in T
    <2>1. PICK k \in 1..Len(t) : t[k] = q  BY DEF Lists
    <2>2. k + Len(s) \in 1..Len(st) /\ st[k + Len(s)] = t[k]  BY <1>1, <1>2
    <2> QED  BY <2>1, <2>2
<1>5. \A k \in 1..Len(st) : st[k] \in S \cup T /\ (k <= Len(s) => st[k] \in S)
                            /\ (k > Len(s) => st[k] \in T)
    <2> TAKE k \in 1..Len(st)
    <2>1. k <= Len(s) => s[k] \in S  BY <1>1, <1>2 DEF Lists
    <2>2. k > Len(s) => t[k - Len(s)] \in T
        <3> HAVE k > Len(s)
        <3>1. k - Len(s) \in 1..Len(t)  BY <1>1, <1>2
        <3> QED  BY <3>1 DEF Lists
    <2> QED  BY <2>1, <2>2, <1>1, <1>2
<1>6. {st[k] : k \in 1..Len(st)} = S \cup T
    BY <1>3, <1>4, <1>5
<1>7. ASSUME NEW k \in 1..Len(st), NEW l \in 1..Len(st), k < l
      PROVE  Before(st[k], st[l])
    <2>1. CASE l <= Len(s)
        <3>1. k \in 1..Len(s) /\ l \in 1..Len(s)  BY <2>1, <1>7, <1>1, <1>2
        <3>2. st[k] = s[k] /\ st[l] = s[l]  BY <2>1, <1>7, <1>1, <1>2
        <3> QED  BY <3>1, <3>2, <1>7 DEF Lists
    <2>2. CASE k > Len(s)
        <3> DEFINE a == k - Len(s)  b == l - Len(s)
        <3>1. a \in 1..Len(t) /\ b \in 1..Len(t) /\ a < b  BY <2>2, <1>7, <1>1, <1>2
        <3>2. st[k] = t[a] /\ st[l] = t[b]  BY <2>2, <1>7, <1>1, <1>2
        <3> HIDE DEF a, b
        <3> QED  BY <3>1, <3>2 DEF Lists
    <2>3. CASE k <= Len(s) /\ l > Len(s)
        BY <2>3, <1>5
    <2> QED  BY <2>1, <2>2, <2>3, <1>2
<1> QED  BY <1>6, <1>7 DEF Lists, st

LEMMA ListsAppend ==
    ASSUME NEW X, NEW s \in Seq(X), NEW p \in X, NEW S,
           Lists(s, S), \A q \in S : Before(q, p)
    PROVE  Lists(Append(s, p), S \cup {p})
<1>1. Lists(<<p>>, {p})
    <2>1. Len(<<p>>) = 1 /\ <<p>>[1] = p  OBVIOUS
    <2> QED  BY <2>1 DEF Lists
<1>2. Append(s, p) = s \o <<p>>  OBVIOUS
<1>3. <<p>> \in Seq(X)  OBVIOUS
<1>4. \A q \in S, r \in {p} : Before(q, r)  OBVIOUS
<1> DEFINE t == <<p>>  T == {p}
<1> HIDE DEF t, T
<1>5. Lists(s \o t, S \cup T)
    BY <1>1, <1>3, <1>4, ListsConcat, Zenon DEF t, T
<1> QED  BY <1>2, <1>5 DEF t, T

-----------------------------------------------------------------------------
LEMMA TypeStep == TypeOK /\ PhaseInv /\ [Next]_vars => TypeOK'
<1> SUFFICES ASSUME TypeOK, PhaseInv, [Next]_vars PROVE TypeOK'
    OBVIOUS
<1> USE DEF TypeOK, call
<1>1. CASE CheckKeys  BY <1>1 DEF CheckKeys
<1>2. CASE IndexRow
    <2>1. right[next + 1] \in Key /\ next + 1 \in 1..Len(right)  BY <1>2 DEF IndexRow
    <2>2. Code[right[next + 1]] \in Bytes  BY <2>1 DEF Bytes
    <2>3. index' \in [Bytes -> Seq(1..Len(right))]
        BY <1>2, <2>1, <2>2 DEF IndexRow
    <2> QED  BY <1>2, <2>3 DEF IndexRow
<1>3. CASE Indexed  BY <1>3 DEF Indexed
<1>4. CASE ProbeRow
    <2> DEFINE li == next + 1
               hits == IF Skipped(left[li]) THEN <<>> ELSE index[Code[left[li]]]
               t == [k \in 1..Len(hits) |-> <<li, hits[k]>>]
    <2>1. li \in 1..Len(left) /\ left[li] \in Key  BY <1>4 DEF ProbeRow
    <2>2. Code[left[li]] \in Bytes  BY <2>1 DEF Bytes
    <2>3. hits \in Seq(1..Len(right))
        <3>1. index[Code[left[li]]] \in Seq(1..Len(right))  BY <2>2
        <3>2. hits \in {<<>>, index[Code[left[li]]]}  OBVIOUS
        <3>3. <<>> \in Seq(1..Len(right))  OBVIOUS
        <3> HIDE DEF hits
        <3> QED  BY <3>1, <3>2, <3>3
    <2> HIDE DEF hits
    <2>4. t \in Seq((0..Len(left)) \X (0..Len(right)))
        <3>1. \A k \in 1..Len(hits) : hits[k] \in 1..Len(right)  BY <2>3
        <3> QED  BY <3>1, <2>1, <2>3
    <2>5. <<li, 0>> \in (0..Len(left)) \X (0..Len(right))  BY <2>1
    <2> HIDE DEF t
    <2>6. out' \in {out \o t, Append(out, <<li, 0>>), out}
        BY <1>4 DEF ProbeRow, hits, t
    <2>7. out' \in Seq((0..Len(left)) \X (0..Len(right)))
        <3> DEFINE Y == (0..Len(left)) \X (0..Len(right))
        <3>1. out \in Seq(Y)  OBVIOUS
        <3> HIDE DEF Y
        <3>2. out \o t \in Seq(Y)  BY <2>4, <3>1 DEF Y
        <3>3. Append(out, <<li, 0>>) \in Seq(Y)  BY <2>5, <3>1 DEF Y
        <3> QED  BY <3>1, <3>2, <3>3, <2>6 DEF Y
    <2>8. matched' = matched \cup {hits[k] : k \in 1..Len(hits)}
        BY <1>4 DEF ProbeRow, hits
    <2>9. \A k \in 1..Len(hits) : hits[k] \in 1..Len(right)  BY <2>3
    <2>10. matched' \subseteq 1..Len(right)  BY <2>8, <2>9
    <2>11. next' = next + 1 /\ UNCHANGED <<call, pc, index>>
        BY <1>4 DEF ProbeRow
    <2> QED  BY <2>7, <2>10, <2>11
<1>5. CASE Probed  BY <1>5 DEF Probed
<1>6. CASE SweepRow
    <2>1. <<0, next + 1>> \in (0..Len(left)) \X (0..Len(right))  BY <1>6 DEF SweepRow
    <2>2. out' \in {out, Append(out, <<0, next + 1>>)}  BY <1>6 DEF SweepRow
    <2> QED  BY <1>6, <2>1, <2>2 DEF SweepRow
<1>7. CASE Swept  BY <1>7 DEF Swept
<1>8. CASE Returned \/ UNCHANGED vars  BY <1>8 DEF Returned, vars
<1> QED  BY <1>1, <1>2, <1>3, <1>4, <1>5, <1>6, <1>7, <1>8 DEF Next

LEMMA PhaseStep == TypeOK /\ PhaseInv /\ [Next]_vars => PhaseInv'
<1> SUFFICES ASSUME TypeOK, PhaseInv, [Next]_vars PROVE PhaseInv'
    OBVIOUS
<1>1. Len(left) \in Nat /\ Len(right) \in Nat /\ next \in Nat  BY DEF TypeOK
<1> USE <1>1 DEF PhaseInv, call
<1>2. CASE CheckKeys \/ IndexRow \/ Indexed
    <2>1. CASE CheckKeys  BY <2>1 DEF CheckKeys, TypeOK
    <2>2. CASE IndexRow  BY <2>2 DEF IndexRow
    <2>3. CASE Indexed  BY <2>3 DEF Indexed
    <2> QED  BY <1>2, <2>1, <2>2, <2>3
<1>3. CASE ProbeRow \/ Probed
    <2>1. CASE ProbeRow  BY <2>1 DEF ProbeRow
    <2>2. CASE Probed  BY <2>2 DEF Probed
    <2> QED  BY <1>3, <2>1, <2>2
<1>4. CASE SweepRow \/ Swept
    <2>1. CASE SweepRow  BY <2>1 DEF SweepRow
    <2>2. CASE Swept  BY <2>2 DEF Swept
    <2> QED  BY <1>4, <2>1, <2>2
<1>5. CASE Returned \/ UNCHANGED vars  BY <1>5 DEF Returned, vars
<1> QED  BY <1>2, <1>3, <1>4, <1>5 DEF Next

-----------------------------------------------------------------------------
(* An index entry grows by the row at hand, and no other does.             *)
LEMMA IndexStep ==
    ASSUME TypeOK, PhaseInv, IndexInv, [Next]_vars
    PROVE  IndexInv'
<1>1. Len(left) \in Nat /\ Len(right) \in Nat /\ next \in Nat  BY DEF TypeOK
<1> USE <1>1 DEF call
<1>2. CASE IndexRow
    <2> SUFFICES ASSUME NEW b \in Bytes
                 PROVE  /\ {index'[b][k] : k \in 1..Len(index'[b])} =
                              {j \in 1..(next + 1) : Code[right[j]] = b /\ ~ Skipped(right[j])}
                        /\ \A k, l \in 1..Len(index'[b]) : k < l => index'[b][k] < index'[b][l]
        BY <1>2 DEF IndexRow, IndexInv, Done, Bytes, Skipped
    <2> DEFINE key == right[next + 1]  old == index[b]  new == index'[b]
    <2>1. /\ {old[k] : k \in 1..Len(old)} =
                {j \in 1..next : Code[right[j]] = b /\ ~ Skipped(right[j])}
          /\ \A k, l \in 1..Len(old) : k < l => old[k] < old[l]
        BY <1>2 DEF IndexRow, IndexInv, Done
    <2>2. old \in Seq(1..Len(right)) /\ index \in [Bytes -> Seq(1..Len(right))]
        BY DEF TypeOK
    <2>3. CASE Skipped(key) \/ Code[key] # b
        <3>1. new = old  BY <1>2, <2>2, <2>3 DEF IndexRow
        <3> QED  BY <3>1, <2>1, <2>3
    <2>4. CASE ~ Skipped(key) /\ Code[key] = b
        <3>1. new = Append(old, next + 1)  BY <1>2, <2>2, <2>4 DEF IndexRow
        <3>2. /\ Len(old) \in Nat /\ Len(new) = Len(old) + 1
              /\ \A k \in 1..Len(old) : new[k] = old[k] /\ old[k] \in 1..next
              /\ new[Len(old) + 1] = next + 1
            BY <3>1, <2>1, <2>2
        <3> HIDE DEF old, new
        <3>3. {new[k] : k \in 1..Len(new)} = {old[k] : k \in 1..Len(old)} \cup {next + 1}
            BY <3>2
        <3>4. {j \in 1..(next + 1) : Code[right[j]] = b /\ ~ Skipped(right[j])} =
                {j \in 1..next : Code[right[j]] = b /\ ~ Skipped(right[j])} \cup {next + 1}
            BY <2>4
        <3>5. \A k, l \in 1..Len(new) : k < l => new[k] < new[l]
            <4> SUFFICES ASSUME NEW k \in 1..Len(new), NEW l \in 1..Len(new), k < l
                         PROVE  new[k] < new[l]
                OBVIOUS
            <4>1. k \in 1..Len(old) /\ new[k] = old[k] /\ old[k] <= next  BY <3>2
            <4>2. CASE l = Len(old) + 1  BY <4>1, <4>2, <3>2
            <4>3. CASE l \in 1..Len(old)
                <5>1. old[k] < old[l]  BY <4>1, <4>3, <2>1
                <5> QED  BY <4>1, <4>3, <3>2, <5>1
            <4>4. l = Len(old) + 1 \/ l \in 1..Len(old)  BY <3>2
            <4> QED  BY <4>2, <4>3, <4>4
        <3> QED  BY <3>3, <3>4, <3>5, <2>1 DEF new
    <2> QED  BY <2>3, <2>4
<1>3. ASSUME UNCHANGED <<left, right, how, nullSafe, index>>,
             Done("index", right)' = Done("index", right)
      PROVE  IndexInv'
    BY <1>3 DEF IndexInv, Bytes, Skipped
<1>4. CASE CheckKeys  BY <1>3, <1>4 DEF CheckKeys, Done, PhaseInv
<1>5. CASE Indexed  BY <1>3, <1>5 DEF Indexed, Done
<1>6. CASE ProbeRow \/ Probed  BY <1>3, <1>6 DEF ProbeRow, Probed, Done
<1>7. CASE SweepRow \/ Swept  BY <1>3, <1>7 DEF SweepRow, Swept, Done
<1>8. CASE Returned \/ UNCHANGED vars  BY <1>3, <1>8 DEF Returned, vars, Done
<1> QED  BY <1>2, <1>4, <1>5, <1>6, <1>7, <1>8 DEF Next

(* What the index holds for a left row are the right rows it matches.      *)
LEMMA HitsAreMatches ==
    ASSUME NullsAreMarked, TypeOK, IndexInv, pc = "probe", NEW i \in 1..Len(left)
    PROVE  LET hits == IF Skipped(left[i]) THEN <<>> ELSE index[Code[left[i]]]
           IN  /\ hits \in Seq(1..Len(right))
               /\ {hits[k] : k \in 1..Len(hits)} = {j \in 1..Len(right) : Matches(i, j)}
               /\ \A k, l \in 1..Len(hits) : k < l => hits[k] < hits[l]
<1> DEFINE hits == IF Skipped(left[i]) THEN <<>> ELSE index[Code[left[i]]]
<1> SUFFICES /\ hits \in Seq(1..Len(right))
             /\ {hits[k] : k \in 1..Len(hits)} = {j \in 1..Len(right) : Matches(i, j)}
             /\ \A k, l \in 1..Len(hits) : k < l => hits[k] < hits[l]
    OBVIOUS
<1>1. left[i] \in Key /\ \A j \in 1..Len(right) : right[j] \in Key  BY DEF TypeOK
<1>2. CASE Skipped(left[i])
    <2>1. hits = <<>>  BY <1>2
    <2>2. \A j \in 1..Len(right) : ~ Matches(i, j)
        BY <1>2 DEF Matches, Match, Skipped, NullsAreMarked
    <2>3. Len(hits) = 0 /\ hits \in Seq(1..Len(right))
        <3>1. Len(<<>>) = 0 /\ <<>> \in Seq(1..Len(right))  OBVIOUS
        <3> QED  BY <2>1, <3>1
    <2> HIDE DEF hits
    <2> QED  BY <2>2, <2>3
<1>3. CASE ~ Skipped(left[i])
    <2> DEFINE b == Code[left[i]]
    <2>1. hits = index[b] /\ b \in Bytes  BY <1>1, <1>3 DEF Bytes
    <2>2. \A j \in 1..Len(right) :
             Matches(i, j) <=> Code[right[j]] = b /\ ~ Skipped(right[j])
        BY <1>1, <1>3 DEF Matches, Match, Skipped, NullsAreMarked
    <2>3. hits \in Seq(1..Len(right))  BY <2>1 DEF TypeOK
    <2>4. Done("index", right) = Len(right)  BY DEF Done
    <2> HIDE DEF hits, b
    <2>5. /\ {hits[k] : k \in 1..Len(hits)} =
                {j \in 1..Len(right) : Code[right[j]] = b /\ ~ Skipped(right[j])}
          /\ \A k, l \in 1..Len(hits) : k < l => hits[k] < hits[l]
        BY <2>1, <2>4 DEF IndexInv
    <2> QED  BY <2>2, <2>3, <2>5
<1> QED  BY <1>2, <1>3

-----------------------------------------------------------------------------
(* What one more left row adds to the pairs and to the rows left over.     *)
LEMMA NextLeftRow ==
    ASSUME NEW n \in Nat, n < Len(left), TypeOK,
           NEW H, H = {j \in 1..Len(right) : Matches(n + 1, j)}
    PROVE  /\ PairsTo(n + 1) = PairsTo(n) \cup {<<n + 1, j>> : j \in H}
           /\ LeftOverTo(n + 1) = LeftOverTo(n) \cup
                 (IF how \in {"left", "full"} /\ H = {} THEN {<<n + 1, 0>>} ELSE {})
<1>1. Len(left) \in Nat /\ Len(right) \in Nat  BY DEF TypeOK
<1>2. 1..(n + 1) = (1..n) \cup {n + 1}  BY <1>1
<1>3. PairsTo(n + 1) = PairsTo(n) \cup {<<n + 1, j>> : j \in H}
    <2>1. ASSUME NEW p \in PairsTo(n + 1)
          PROVE  p \in PairsTo(n) \cup {<<n + 1, j>> : j \in H}
        BY <2>1, <1>2 DEF PairsTo
    <2>2. PairsTo(n) \subseteq PairsTo(n + 1)  BY <1>2 DEF PairsTo
    <2>3. ASSUME NEW j \in H PROVE <<n + 1, j>> \in PairsTo(n + 1)
        BY <1>2 DEF PairsTo
    <2> QED  BY <2>1, <2>2, <2>3
<1>4. LeftOverTo(n + 1) = LeftOverTo(n) \cup
         (IF how \in {"left", "full"} /\ H = {} THEN {<<n + 1, 0>>} ELSE {})
    <2>1. {k \in 1..(n + 1) : \A j \in 1..Len(right) : ~ Matches(k, j)} =
              {k \in 1..n : \A j \in 1..Len(right) : ~ Matches(k, j)} \cup
              (IF H = {} THEN {n + 1} ELSE {})
        BY <1>2
    <2> QED  BY <2>1 DEF LeftOverTo
<1> QED  BY <1>3, <1>4

(* All rows of the output so far are before those of the next left row.    *)
LEMMA SoFarIsBefore ==
    ASSUME NEW n \in Nat, NEW p \in PairsTo(n) \cup LeftOverTo(n),
           NEW q, q[1] = n + 1
    PROVE  Before(p, q)
<1>1. p[1] \in 1..n  BY DEF PairsTo, LeftOverTo
<1> QED  BY <1>1 DEF Before

(* The listing of what a left row adds.                                    *)
LEMMA ProbeListed ==
    ASSUME NullsAreMarked, TypeOK, PhaseInv, IndexInv, OutputInv, ProbeRow
    PROVE  Lists(out', UNION {PairsTo(next + 1), LeftOverTo(next + 1), RightOverTo(0)})
<1> DEFINE li == next + 1
           hits == IF Skipped(left[li]) THEN <<>> ELSE index[Code[left[li]]]
           t == [k \in 1..Len(hits) |-> <<li, hits[k]>>]
           H == {j \in 1..Len(right) : Matches(li, j)}
           X == (0..Len(left)) \X (0..Len(right))
           S == UNION {PairsTo(next), LeftOverTo(next), RightOverTo(0)}
<1>1. /\ Len(left) \in Nat /\ Len(right) \in Nat /\ next \in Nat
      /\ li \in 1..Len(left) /\ next < Len(left) /\ pc = "probe"
    <2>1. next < Len(left) /\ pc = "probe"  BY DEF ProbeRow
    <2> QED  BY <2>1 DEF TypeOK
<1>2. /\ hits \in Seq(1..Len(right))
      /\ {hits[k] : k \in 1..Len(hits)} = H
      /\ \A k, l \in 1..Len(hits) : k < l => hits[k] < hits[l]
    BY <1>1, HitsAreMatches
<1>3. out' = IF hits # <<>> THEN out \o t
             ELSE IF how \in {"left", "full"} THEN Append(out, <<li, 0>>) ELSE out
    BY DEF ProbeRow
<1>4. Lists(out, S) /\ RightOverTo(0) = {}
    <2>1. Done("probe", left) = next /\ Done("sweep", right) = 0  BY <1>1 DEF Done
    <2>2. RightOverTo(0) = {}
        <3>1. 1..0 = {}  OBVIOUS
        <3> QED  BY <3>1 DEF RightOverTo
    <2> QED  BY <2>1, <2>2 DEF OutputInv
<1>5. /\ PairsTo(li) = PairsTo(next) \cup {<<li, j>> : j \in H}
      /\ LeftOverTo(li) = LeftOverTo(next) \cup
            (IF how \in {"left", "full"} /\ H = {} THEN {<<li, 0>>} ELSE {})
    BY <1>1, NextLeftRow
<1>6. \A p \in S : \A q : q[1] = li => Before(p, q)
    BY <1>1, <1>4, SoFarIsBefore
<1>7. out \in Seq(X)  BY DEF TypeOK
<1> HIDE DEF hits, H, S, li, X
<1>8. CASE hits # <<>>
    <2>1. /\ Len(hits) \in Nat /\ Len(t) = Len(hits)
          /\ \A k \in 1..Len(hits) : t[k] = <<li, hits[k]>> /\ hits[k] \in 1..Len(right)
        BY <1>2
    <2>2. t \in Seq(X)  BY <2>1, <1>1 DEF X
    <2>3. Lists(t, {<<li, j>> : j \in H})
        <3>1. {t[k] : k \in 1..Len(t)} = {<<li, j>> : j \in H}  BY <2>1, <1>2
        <3>2. \A k, l \in 1..Len(t) : k < l => Before(t[k], t[l])
            BY <2>1, <1>2 DEF Before
        <3> QED  BY <3>1, <3>2 DEF Lists
    <2>4. H # {}
        <3>1. Len(hits) > 0  BY <1>2, <1>8
        <3> QED  BY <3>1, <1>2, <2>1
    <2>5. Lists(out \o t, S \cup {<<li, j>> : j \in H})
        <3>1. \A p \in S, q \in {<<li, j>> : j \in H} : Before(p, q)  BY <1>6
        <3> DEFINE T == {<<li, j>> : j \in H}
        <3> HIDE DEF T, t
        <3> QED  BY <3>1, <2>2, <2>3, <1>4, <1>7, ListsConcat, Zenon DEF T
    <2>6. S \cup {<<li, j>> : j \in H} =
              UNION {PairsTo(li), LeftOverTo(li), RightOverTo(0)}
        BY <2>4, <1>5 DEF S
    <2> QED  BY <2>5, <2>6, <1>3, <1>8 DEF li
<1>9. CASE hits = <<>>
    <2>1. H = {}  BY <1>2, <1>9
    <2>2. CASE how \in {"left", "full"}
        <3>1. <<li, 0>> \in X  BY <1>1 DEF X
        <3>2. Lists(Append(out, <<li, 0>>), S \cup {<<li, 0>>})
            <4>1. \A p \in S : Before(p, <<li, 0>>)  BY <1>6
            <4> QED  BY <4>1, <3>1, <1>4, <1>7, ListsAppend, Zenon
        <3>3. S \cup {<<li, 0>>} = UNION {PairsTo(li), LeftOverTo(li), RightOverTo(0)}
            BY <2>1, <2>2, <1>5 DEF S
        <3> QED  BY <3>2, <3>3, <2>2, <1>3, <1>9 DEF li
    <2>3. CASE how \notin {"left", "full"}
        <3>1. S = UNION {PairsTo(li), LeftOverTo(li), RightOverTo(0)}
            BY <2>1, <2>3, <1>5 DEF S
        <3> QED  BY <3>1, <2>3, <1>3, <1>4, <1>9 DEF li
    <2> QED  BY <2>2, <2>3
<1> QED  BY <1>8, <1>9

-----------------------------------------------------------------------------
(* A right row is flagged by the first left row that hits it.              *)
LEMMA MatchedStep ==
    ASSUME NullsAreMarked, TypeOK, PhaseInv, IndexInv, MatchedInv, [Next]_vars
    PROVE  MatchedInv'
<1>1. Len(left) \in Nat /\ Len(right) \in Nat /\ next \in Nat  BY DEF TypeOK
<1> USE <1>1 DEF call
<1>2. CASE ProbeRow
    <2> DEFINE hits == IF Skipped(left[next + 1]) THEN <<>> ELSE index[Code[left[next + 1]]]
    <2>1. next + 1 \in 1..Len(left) /\ pc = "probe"  BY <1>2 DEF ProbeRow
    <2>2. {hits[k] : k \in 1..Len(hits)} = {j \in 1..Len(right) : Matches(next + 1, j)}
        BY <2>1, HitsAreMatches
    <2>3. matched' = matched \cup {hits[k] : k \in 1..Len(hits)}
        BY <1>2 DEF ProbeRow
    <2> HIDE DEF hits
    <2>4. matched = {j \in 1..Len(right) : \E i \in 1..next : Matches(i, j)}
        BY <2>1 DEF MatchedInv, Done
    <2>5. matched' = {j \in 1..Len(right) : \E i \in 1..(next + 1) : Matches(i, j)}
        BY <2>2, <2>3, <2>4
    <2>6. UNCHANGED <<pc, left, right, nullSafe>> /\ next' = next + 1  BY <1>2 DEF ProbeRow
    <2> QED  BY <2>1, <2>5, <2>6 DEF MatchedInv, Done, Matches
<1>3. ASSUME UNCHANGED <<left, right, nullSafe, matched>>,
             Done("probe", left)' = Done("probe", left)
      PROVE  MatchedInv'
    BY <1>3 DEF MatchedInv, Matches
<1>5. CASE CheckKeys \/ IndexRow \/ Indexed
    BY <1>3, <1>5 DEF CheckKeys, IndexRow, Indexed, Done
<1>6. CASE Probed  BY <1>3, <1>6 DEF Probed, Done
<1>7. CASE SweepRow \/ Swept  BY <1>3, <1>7 DEF SweepRow, Swept, Done
<1>8. CASE Returned \/ UNCHANGED vars  BY <1>3, <1>8 DEF Returned, vars, Done
<1> QED  BY <1>2, <1>5, <1>6, <1>7, <1>8 DEF Next

(* A swept row is before nothing that is in the output already.            *)
LEMMA SweepListed ==
    ASSUME TypeOK, PhaseInv, MatchedInv, OutputInv, SweepRow
    PROVE  Lists(out', UNION {PairsTo(Len(left)), LeftOverTo(Len(left)), RightOverTo(next + 1)})
<1> DEFINE X == (0..Len(left)) \X (0..Len(right))
           S == UNION {PairsTo(Len(left)), LeftOverTo(Len(left)), RightOverTo(next)}
           rj == next + 1
           free == \A i \in 1..Len(left) : ~ Matches(i, rj)
<1>1. /\ next < Len(right) /\ pc = "sweep" /\ how \in {"right", "full"}
      /\ out' = IF rj \in matched THEN out ELSE Append(out, <<0, rj>>)
    BY DEF SweepRow, PhaseInv
<1>2. /\ Len(left) \in Nat /\ Len(right) \in Nat /\ next \in Nat
      /\ rj \in 1..Len(right) /\ out \in Seq(X)
    BY <1>1 DEF TypeOK
<1>3. rj \notin matched <=> free
    <2>1. Done("probe", left) = Len(left)  BY <1>1 DEF Done
    <2> QED  BY <2>1, <1>2 DEF MatchedInv
<1>4. RightOverTo(rj) = RightOverTo(next) \cup (IF free THEN {<<0, rj>>} ELSE {})
    <2>1. 1..rj = (1..next) \cup {rj}  BY <1>2
    <2>2. {k \in 1..rj : \A i \in 1..Len(left) : ~ Matches(i, k)} =
              {k \in 1..next : \A i \in 1..Len(left) : ~ Matches(i, k)} \cup
              (IF free THEN {rj} ELSE {})
        BY <2>1
    <2> HIDE DEF free, rj
    <2> QED  BY <2>2 DEF RightOverTo
<1>5. Lists(out, S)
    <2>1. Done("probe", left) = Len(left) /\ Done("sweep", right) = next  BY <1>1 DEF Done
    <2> QED  BY <2>1 DEF OutputInv
<1>6. \A p \in S : Before(p, <<0, rj>>)
    <2> TAKE p \in S
    <2>1. CASE p \in PairsTo(Len(left)) \cup LeftOverTo(Len(left))
        <3>1. p[1] \in 1..Len(left)  BY <2>1 DEF PairsTo, LeftOverTo
        <3> QED  BY <3>1, <1>2 DEF Before
    <2>2. CASE p \in RightOverTo(next)
        <3>1. p[1] = 0 /\ p[2] \in 1..next  BY <2>2 DEF RightOverTo
        <3> QED  BY <3>1, <1>2 DEF Before
    <2> QED  BY <2>1, <2>2
<1>7. <<0, rj>> \in X  BY <1>2
<1> HIDE DEF X, S, rj, free
<1>8. Lists(Append(out, <<0, rj>>), S \cup {<<0, rj>>})
    BY <1>2, <1>5, <1>6, <1>7, ListsAppend, Zenon
<1>9. CASE free
    <2>1. S \cup {<<0, rj>>} =
              UNION {PairsTo(Len(left)), LeftOverTo(Len(left)), RightOverTo(rj)}
        BY <1>4, <1>9 DEF S
    <2> QED  BY <2>1, <1>1, <1>3, <1>8, <1>9 DEF rj
<1>10. CASE ~ free
    <2>1. S = UNION {PairsTo(Len(left)), LeftOverTo(Len(left)), RightOverTo(rj)}
        BY <1>4, <1>10 DEF S
    <2> QED  BY <2>1, <1>1, <1>3, <1>5, <1>10 DEF rj
<1> QED  BY <1>9, <1>10

LEMMA OutputStep ==
    ASSUME NullsAreMarked, TypeOK, PhaseInv, IndexInv, MatchedInv, OutputInv, [Next]_vars
    PROVE  OutputInv'
<1>1. Len(left) \in Nat /\ Len(right) \in Nat /\ next \in Nat  BY DEF TypeOK
<1> USE <1>1 DEF call
<1>2. ASSUME UNCHANGED <<left, right, how, nullSafe>>
      PROVE  \A n : PairsTo(n)' = PairsTo(n) /\ LeftOverTo(n)' = LeftOverTo(n)
                    /\ RightOverTo(n)' = RightOverTo(n)
    BY <1>2 DEF PairsTo, LeftOverTo, RightOverTo, Matches
<1>3. CASE ProbeRow
    <2>1. Lists(out', UNION {PairsTo(next + 1), LeftOverTo(next + 1), RightOverTo(0)})
        BY <1>3, ProbeListed
    <2>2. UNCHANGED <<pc, left, right, how, nullSafe>> /\ next' = next + 1 /\ pc = "probe"
        BY <1>3 DEF ProbeRow
    <2>3. Done("probe", left)' = next + 1 /\ Done("sweep", right)' = 0  BY <2>2 DEF Done
    <2> QED  BY <2>1, <2>2, <2>3, <1>2 DEF OutputInv
<1>4. CASE SweepRow
    <2>1. Lists(out', UNION {PairsTo(Len(left)), LeftOverTo(Len(left)), RightOverTo(next + 1)})
        BY <1>4, SweepListed
    <2>2. UNCHANGED <<pc, left, right, how, nullSafe>> /\ next' = next + 1 /\ pc = "sweep"
        BY <1>4 DEF SweepRow
    <2>3. Done("probe", left)' = Len(left) /\ Done("sweep", right)' = next + 1
        BY <2>2 DEF Done, PhaseInv
    <2> QED  BY <2>1, <2>2, <2>3, <1>2 DEF OutputInv
<1>5. ASSUME UNCHANGED <<left, right, how, nullSafe, out>>,
             Done("probe", left)' = Done("probe", left),
             Done("sweep", right)' = Done("sweep", right)
      PROVE  OutputInv'
    BY <1>2, <1>5 DEF OutputInv
<1>6. CASE CheckKeys \/ IndexRow \/ Indexed
    BY <1>5, <1>6 DEF CheckKeys, IndexRow, Indexed, Done
<1>7. CASE Probed  BY <1>5, <1>7 DEF Probed, Done
<1>8. CASE Swept  BY <1>5, <1>8 DEF Swept, Done, PhaseInv
<1>9. CASE Returned \/ UNCHANGED vars  BY <1>5, <1>9 DEF Returned, vars, Done
<1> QED  BY <1>3, <1>4, <1>6, <1>7, <1>8, <1>9 DEF Next

-----------------------------------------------------------------------------
LEMMA InitInv == Init => IInv
<1> SUFFICES ASSUME Init PROVE IInv  OBVIOUS
<1>1. TypeOK
    <2>1. left \in Seq(Key) /\ right \in Seq(Key)  BY JoinAssumption DEF Init
    <2> QED  BY <2>1 DEF Init, TypeOK
<1>2. /\ Done("index", right) = 0 /\ Done("probe", left) = 0 /\ Done("sweep", right) = 0
      /\ index = [b \in Bytes |-> <<>>] /\ matched = {} /\ out = <<>>
    BY DEF Init, Done
<1>3. 1..0 = {} /\ Len(<<>>) = 0  OBVIOUS
<1>4. IndexInv
    <2>1. \A b \in Bytes : index[b] = <<>>  BY <1>2
    <2> QED  BY <2>1, <1>2, <1>3 DEF IndexInv
<1>5. MatchedInv  BY <1>2, <1>3 DEF MatchedInv
<1>6. OutputInv
    <2>1. PairsTo(0) = {} /\ LeftOverTo(0) = {} /\ RightOverTo(0) = {}
        BY <1>3 DEF PairsTo, LeftOverTo, RightOverTo
    <2> QED  BY <2>1, <1>2, <1>3 DEF OutputInv, Lists
<1> QED  BY <1>1, <1>4, <1>5, <1>6 DEF IInv, PhaseInv, Init

LEMMA InvStep ==
    ASSUME NullsAreMarked, IInv, [Next]_vars
    PROVE  IInv'
BY TypeStep, PhaseStep, IndexStep, MatchedStep, OutputStep DEF IInv

LEMMA SpecInv == NullsAreMarked /\ Spec => []IInv
<1> SUFFICES ASSUME NullsAreMarked PROVE Spec => []IInv  OBVIOUS
<1>1. IInv /\ [Next]_vars => IInv'  BY InvStep
<1> QED  BY <1>1, InitInv, PTL DEF Spec

(* Every variable keeps its type, whatever the null buffers say.           *)
THEOREM JoinTypeOK == Spec => []TypeOK
<1>1. Init => TypeOK /\ PhaseInv  BY InitInv DEF IInv
<1> QED  BY <1>1, TypeStep, PhaseStep, PTL DEF Spec

(* A call that returns has made the join: every pair of matching rows      *)
(* once, the rows an outer join preserves exactly when they have no match, *)
(* all in the documented order, for sides of any length.                   *)
THEOREM ResultIsJoin == NullsAreMarked /\ Spec => []OutputIsJoin
<1>1. IInv => OutputIsJoin
    <2> SUFFICES ASSUME IInv, pc = "done"
                 PROVE  Lists(out, JoinOf(left, right, how, nullSafe))
        BY DEF OutputIsJoin
    <2>1. how \in Hows  BY DEF IInv, TypeOK
    <2>2. Done("probe", left) = Len(left)  BY DEF Done
    <2>3. PairsTo(Len(left)) = Pairs(left, right, nullSafe)
        BY DEF PairsTo, Pairs, Matches
    <2>4. LeftOverTo(Len(left)) =
              IF how \in {"left", "full"} THEN LeftOver(left, right, nullSafe) ELSE {}
        BY DEF LeftOverTo, LeftOver, Matches
    <2>5. RightOverTo(Done("sweep", right)) =
              IF how \in {"right", "full"} THEN RightOver(left, right, nullSafe) ELSE {}
        <3>1. CASE how \in {"right", "full"}
            BY <3>1 DEF Done, RightOverTo, RightOver, Matches
        <3>2. CASE how \notin {"right", "full"}
            <4>1. Done("sweep", right) = 0 /\ 1..0 = {}  BY <3>2 DEF Done
            <4> QED  BY <4>1, <3>2 DEF RightOverTo
        <3> QED  BY <3>1, <3>2
    <2> QED  BY <2>2, <2>3, <2>4, <2>5 DEF IInv, OutputInv, JoinOf
<1> QED  BY <1>1, SpecInv, PTL

(* Where the null buffers tell, SQL's rule holds: no null key is matched.  *)
THEOREM NullsUnmatched == NullsAreMarked /\ Spec => []NullNeverMatches
<1>1. IInv => NullNeverMatches
    <2> SUFFICES ASSUME IInv, ~ nullSafe, NEW k \in 1..Len(out), out[k][1] # 0, out[k][2] # 0
                 PROVE  left[out[k][1]] \notin Nulled /\ right[out[k][2]] \notin Nulled
        BY DEF NullNeverMatches
    <2>1. \E n, m : out[k] \in UNION {PairsTo(n), LeftOverTo(n), RightOverTo(m)}
        BY DEF IInv, OutputInv, Lists
    <2>2. PICK n : out[k] \in PairsTo(n)
        BY <2>1 DEF LeftOverTo, RightOverTo
    <2> QED  BY <2>2 DEF PairsTo, Matches, Match
<1> QED  BY <1>1, SpecInv, PTL

-----------------------------------------------------------------------------
(***************************************************************************)
(* broadcast_join around the kernel, for every number of partitions, every *)
(* DataFrame and every way of cutting it into batches.  A join that keeps  *)
(* left rows at most is made row by row of the left side: the joins of two *)
(* batches, one after the other, are the join of both.                     *)
(***************************************************************************)
(* What a row of the left side becomes, alone. *)
Rows == Nat \X Nat

(* The rows of a join that keeps left rows at most. *)
Joined(l, r, h, p) ==
    \/ p[2] # 0 /\ Match(l[p[1]], r[p[2]], FALSE)
    \/ p[2] = 0 /\ h = "left" /\ \A j \in 1..Len(r) : ~ Match(l[p[1]], r[j], FALSE)

LEMMA LeftJoin ==
    ASSUME NEW l, NEW r, Len(l) \in Nat, Len(r) \in Nat, NEW h, h \notin {"right", "full"}
    PROVE  JoinOf(l, r, h, FALSE) = {p \in (1..Len(l)) \X (0..Len(r)) : Joined(l, r, h, p)}
<1> DEFINE J == {p \in (1..Len(l)) \X (0..Len(r)) : Joined(l, r, h, p)}
<1>1. JoinOf(l, r, h, FALSE) =
          Pairs(l, r, FALSE) \cup (IF h = "left" THEN LeftOver(l, r, FALSE) ELSE {})
    BY DEF JoinOf
<1>2. Pairs(l, r, FALSE) = {p \in J : p[2] # 0}
    <2>1. ASSUME NEW p \in Pairs(l, r, FALSE) PROVE p \in J /\ p[2] # 0
        <3>1. p \in (1..Len(l)) \X (1..Len(r)) /\ Match(l[p[1]], r[p[2]], FALSE)
            BY DEF Pairs
        <3>2. p \in (1..Len(l)) \X (0..Len(r)) /\ p[2] # 0  BY <3>1
        <3> QED  BY <3>1, <3>2 DEF Joined
    <2>2. ASSUME NEW p \in J, p[2] # 0 PROVE p \in Pairs(l, r, FALSE)
        <3>1. p \in (1..Len(l)) \X (1..Len(r))  BY <2>2
        <3>2. Match(l[p[1]], r[p[2]], FALSE)  BY <2>2 DEF Joined
        <3> QED  BY <3>1, <3>2 DEF Pairs
    <2> HIDE DEF J
    <2> QED  BY <2>1, <2>2
<1>3. ASSUME NEW p \in LeftOver(l, r, FALSE)
      PROVE  \E i \in 1..Len(l) : /\ p = <<i, 0>>
                                  /\ \A j \in 1..Len(r) : ~ Match(l[i], r[j], FALSE)
    BY DEF LeftOver
<1>4. ASSUME h = "left" PROVE LeftOver(l, r, FALSE) = {p \in J : p[2] = 0}
    <2>1. ASSUME NEW p \in LeftOver(l, r, FALSE) PROVE p \in J /\ p[2] = 0
        <3>1. PICK i \in 1..Len(l) : /\ p = <<i, 0>>
                                     /\ \A j \in 1..Len(r) : ~ Match(l[i], r[j], FALSE)
            BY <1>3
        <3>2. p[1] = i /\ p[2] = 0 /\ p \in (1..Len(l)) \X (0..Len(r))  BY <3>1
        <3> QED  BY <1>4, <3>1, <3>2 DEF Joined
    <2>2. ASSUME NEW p \in J, p[2] = 0 PROVE p \in LeftOver(l, r, FALSE)
        <3>1. p = <<p[1], 0>> /\ p[1] \in 1..Len(l)  BY <2>2
        <3>2. \A j \in 1..Len(r) : ~ Match(l[p[1]], r[j], FALSE)  BY <2>2 DEF Joined
        <3> QED  BY <3>1, <3>2 DEF LeftOver
    <2> HIDE DEF J
    <2> QED  BY <2>1, <2>2
<1>5. h # "left" => {p \in J : p[2] = 0} = {}  BY DEF Joined
<1>6. J = {p \in J : p[2] # 0} \cup {p \in J : p[2] = 0}  OBVIOUS
<1> HIDE DEF J
<1>7. JoinOf(l, r, h, FALSE) = J  BY <1>1, <1>2, <1>4, <1>5, <1>6
<1> QED  BY <1>7 DEF J

(* The rows of a batch: m rows after the first n. *)
LEMMA Slice ==
    ASSUME NEW K, NEW l \in Seq(K), NEW n \in Nat, NEW m \in Nat, n + m <= Len(l)
    PROVE  /\ Len(SubSeq(l, n + 1, n + m)) = m
           /\ \A i \in 1..m : SubSeq(l, n + 1, n + m)[i] = l[n + i]
<1> DEFINE a == n + 1  b == n + m
<1>1. a \in Nat /\ b \in Nat /\ a >= 1 /\ b <= Len(l) /\ b - a + 1 = m
      /\ \A i \in 1..m : a + i - 1 = n + i
    OBVIOUS
<1> HIDE DEF a, b
<1>2. CASE b >= a
    <2>1. Len(SubSeq(l, a, b)) = b - a + 1
          /\ \A i \in 1..(b - a + 1) : SubSeq(l, a, b)[i] = l[a + i - 1]
        BY <1>1, <1>2
    <2>2. Len(SubSeq(l, a, b)) = m /\ \A i \in 1..m : SubSeq(l, a, b)[i] = l[n + i]
        BY <1>1, <2>1
    <2> QED  BY <2>2 DEF a, b
<1>3. CASE b < a
    <2>1. m = 0  BY <1>1, <1>3
    <2>2. Len(SubSeq(l, a, b)) = 0  BY <1>1, <1>3
    <2>3. 1..0 = {}  OBVIOUS
    <2> QED  BY <2>1, <2>2, <2>3 DEF a, b
<1> QED  BY <1>1, <1>2, <1>3

(* Numbering rows on leaves their order as it is. *)
LEMMA NumberedOn ==
    ASSUME NEW n \in Nat, NEW m \in Nat, NEW p, NEW q, p[1] \in 1..m, q[1] \in 1..m,
           Before(p, q)
    PROVE  Before(<<n + p[1], p[2]>>, <<n + q[1], q[2]>>)
<1>1. p[1] \in Nat /\ p[1] > 0 /\ q[1] \in Nat /\ q[1] > 0  OBVIOUS
<1> QED  BY <1>1 DEF Before

(* The join of n + m rows is that of the first n, followed by that of the  *)
(* m after them, numbered on.                                              *)
LEMMA JoinSplits ==
    ASSUME NEW l \in Seq(Key), NEW r \in Seq(Key), NEW h, h \notin {"right", "full"},
           NEW n \in Nat, NEW m \in Nat, n + m <= Len(l),
           NEW s \in Seq(Rows), Lists(s, JoinOf(SubSeq(l, 1, n), r, h, FALSE)),
           NEW t \in Seq(Rows), Lists(t, JoinOf(SubSeq(l, n + 1, n + m), r, h, FALSE))
    PROVE  /\ s \o Numbered(t, n) \in Seq(Rows)
           /\ Lists(s \o Numbered(t, n), JoinOf(SubSeq(l, 1, n + m), r, h, FALSE))
<1> DEFINE A == SubSeq(l, 1, n)
           B == SubSeq(l, n + 1, n + m)
           C == SubSeq(l, 1, n + m)
           u == Numbered(t, n)
           Later == {<<n + p[1], p[2]>> : p \in JoinOf(B, r, h, FALSE)}
<1>1. /\ Len(A) = n /\ \A i \in 1..n : A[i] = l[i]
      /\ Len(C) = n + m /\ \A i \in 1..(n + m) : C[i] = l[i]
      /\ Len(B) = m /\ \A i \in 1..m : B[i] = l[n + i]
    <2>1. n <= Len(l) /\ Len(l) \in Nat  OBVIOUS
    <2>2. Len(A) = n /\ \A i \in 1..n : A[i] = l[i]  BY <2>1
    <2>3. Len(C) = n + m /\ \A i \in 1..(n + m) : C[i] = l[i]  BY <2>1
    <2>4. Len(B) = m /\ \A i \in 1..m : B[i] = l[n + i]  BY Slice
    <2> QED  BY <2>2, <2>3, <2>4
<1>2. Len(r) \in Nat  OBVIOUS
<1> HIDE DEF A, B, C
<1>3. /\ JoinOf(A, r, h, FALSE) = {p \in (1..n) \X (0..Len(r)) : Joined(A, r, h, p)}
      /\ JoinOf(B, r, h, FALSE) = {p \in (1..m) \X (0..Len(r)) : Joined(B, r, h, p)}
      /\ JoinOf(C, r, h, FALSE) = {p \in (1..(n + m)) \X (0..Len(r)) : Joined(C, r, h, p)}
    <2>1. Len(A) \in Nat /\ Len(B) \in Nat /\ Len(C) \in Nat  BY <1>1
    <2>2. JoinOf(A, r, h, FALSE) = {p \in (1..Len(A)) \X (0..Len(r)) : Joined(A, r, h, p)}
        BY <1>2, <2>1, LeftJoin
    <2>3. JoinOf(B, r, h, FALSE) = {p \in (1..Len(B)) \X (0..Len(r)) : Joined(B, r, h, p)}
        BY <1>2, <2>1, LeftJoin
    <2>4. JoinOf(C, r, h, FALSE) = {p \in (1..Len(C)) \X (0..Len(r)) : Joined(C, r, h, p)}
        BY <1>2, <2>1, LeftJoin
    <2> QED  BY <1>1, <2>2, <2>3, <2>4
<1>4. Len(t) \in Nat /\ {t[k] : k \in 1..Len(t)} = JoinOf(B, r, h, FALSE)
    <2>1. Len(t) \in Nat  OBVIOUS
    <2>2. Lists(t, JoinOf(B, r, h, FALSE))  BY DEF B
    <2> QED  BY <2>1, <2>2 DEF Lists
<1>5. ASSUME NEW k \in 1..Len(t)
      PROVE  t[k] \in Rows /\ t[k] = <<t[k][1], t[k][2]>>
             /\ t[k][1] \in 1..m /\ t[k][2] \in 0..Len(r)
    <2>1. t[k] \in JoinOf(B, r, h, FALSE)  BY <1>4
    <2>2. t[k] \in (1..m) \X (0..Len(r))  BY <1>3, <2>1
    <2> QED  BY <2>2 DEF Rows
<1>6. u = [k \in 1..Len(t) |-> <<n + t[k][1], t[k][2]>>]
    BY <1>5 DEF Numbered
<1>7. u \in Seq(Rows) /\ Len(u) = Len(t)
    <2>1. \A k \in 1..Len(t) : <<n + t[k][1], t[k][2]>> \in Rows  BY <1>5 DEF Rows
    <2> DEFINE Y == Rows
    <2> HIDE DEF Y
    <2>2. u \in Seq(Y)  BY <1>4, <1>6, <2>1 DEF Y
    <2> QED  BY <1>4, <1>6, <2>2 DEF Y
<1>8. Lists(u, Later)
    <2>1. {t[k] : k \in 1..Len(t)} = JoinOf(B, r, h, FALSE)  BY DEF Lists, B
    <2>2. {u[k] : k \in 1..Len(u)} = Later
        <3>1. \A k \in 1..Len(t) : u[k] = <<n + t[k][1], t[k][2]>>  BY <1>6
        <3>2. ASSUME NEW k \in 1..Len(u) PROVE u[k] \in Later
            <4>1. t[k] \in JoinOf(B, r, h, FALSE)  BY <1>7, <2>1, <3>2
            <4> QED  BY <1>7, <3>1, <4>1
        <3>3. ASSUME NEW q \in Later PROVE \E k \in 1..Len(u) : u[k] = q
            <4>1. PICK p \in JoinOf(B, r, h, FALSE) : q = <<n + p[1], p[2]>>  OBVIOUS
            <4>2. PICK k \in 1..Len(t) : t[k] = p  BY <2>1
            <4> QED  BY <1>7, <3>1, <4>1, <4>2
        <3> HIDE DEF u, Later
        <3> QED  BY <3>2, <3>3
    <2>3. ASSUME NEW k \in 1..Len(u), NEW j \in 1..Len(u), k < j
          PROVE  Before(u[k], u[j])
        <3>1. Before(t[k], t[j])  BY <1>7, <2>3 DEF Lists
        <3>2. t[k][1] \in 1..m /\ t[j][1] \in 1..m  BY <1>5, <1>7
        <3>3. u[k] = <<n + t[k][1], t[k][2]>> /\ u[j] = <<n + t[j][1], t[j][2]>>
            BY <1>6, <1>7
        <3>4. Before(<<n + t[k][1], t[k][2]>>, <<n + t[j][1], t[j][2]>>)
            BY <3>1, <3>2, NumberedOn, Zenon
        <3> QED  BY <3>3, <3>4, Zenon
    <2> QED  BY <2>2, <2>3 DEF Lists
<1>9. JoinOf(C, r, h, FALSE) = JoinOf(A, r, h, FALSE) \cup Later
    <2>1. ASSUME NEW p \in (1..n) \X (0..Len(r))
          PROVE  Joined(A, r, h, p) <=> Joined(C, r, h, p)
        <3>1. A[p[1]] = C[p[1]]
            <4>1. PICK i \in 1..n : i = p[1]  OBVIOUS
            <4>2. i \in 1..(n + m)  OBVIOUS
            <4>3. A[i] = l[i] /\ C[i] = l[i]  BY <1>1, <4>2
            <4> QED  BY <4>1, <4>3
        <3> QED  BY <3>1 DEF Joined
    <2>2. ASSUME NEW p \in (1..m) \X (0..Len(r))
          PROVE  Joined(B, r, h, p) <=> Joined(C, r, h, <<n + p[1], p[2]>>)
        <3>1. B[p[1]] = C[n + p[1]]
            <4>1. p[1] \in 1..m /\ n + p[1] \in 1..(n + m)  OBVIOUS
            <4> QED  BY <1>1, <4>1
        <3> QED  BY <3>1 DEF Joined
    <2>3. ASSUME NEW p \in JoinOf(C, r, h, FALSE)
          PROVE  p \in JoinOf(A, r, h, FALSE) \cup Later
        <3>1. p \in (1..(n + m)) \X (0..Len(r)) /\ Joined(C, r, h, p)  BY <1>3, <2>3
        <3>2. p[1] \in 1..(n + m) /\ p[2] \in 0..Len(r) /\ p = <<p[1], p[2]>>  BY <3>1
        <3>3. CASE p[1] <= n
            <4>1. p[1] \in 1..n  BY <3>2, <3>3
            <4>2. p \in (1..n) \X (0..Len(r))  BY <3>2, <4>1
            <4>3. Joined(A, r, h, p)  BY <2>1, <3>1, <4>2
            <4> QED  BY <1>3, <4>2, <4>3
        <3>4. CASE p[1] > n
            <4> DEFINE q == <<p[1] - n, p[2]>>
            <4>1. p[1] - n \in 1..m /\ n + (p[1] - n) = p[1]  BY <3>2, <3>4
            <4>2. q \in (1..m) \X (0..Len(r)) /\ p = <<n + q[1], q[2]>>  BY <3>2, <4>1
            <4> HIDE DEF q
            <4>3. Joined(B, r, h, q)  BY <2>2, <3>1, <4>2
            <4>4. q \in JoinOf(B, r, h, FALSE)  BY <1>3, <4>2, <4>3
            <4> QED  BY <4>2, <4>4
        <3>5. p[1] <= n \/ p[1] > n  BY <3>2
        <3> QED  BY <3>3, <3>4, <3>5
    <2>4. ASSUME NEW p \in JoinOf(A, r, h, FALSE) PROVE p \in JoinOf(C, r, h, FALSE)
        <3>1. p \in (1..n) \X (0..Len(r)) /\ Joined(A, r, h, p)  BY <1>3, <2>4
        <3>2. p \in (1..(n + m)) \X (0..Len(r))  BY <3>1
        <3> QED  BY <1>3, <2>1, <3>1, <3>2
    <2>5. ASSUME NEW p \in JoinOf(B, r, h, FALSE)
          PROVE  <<n + p[1], p[2]>> \in JoinOf(C, r, h, FALSE)
        <3>1. p \in (1..m) \X (0..Len(r)) /\ Joined(B, r, h, p)  BY <1>3, <2>5
        <3>2. <<n + p[1], p[2]>> \in (1..(n + m)) \X (0..Len(r))  BY <3>1
        <3> QED  BY <1>3, <2>2, <3>1, <3>2
    <2> QED  BY <2>3, <2>4, <2>5
<1>10. ASSUME NEW p \in JoinOf(A, r, h, FALSE), NEW q \in Later PROVE Before(p, q)
    <2>1. p[1] \in 1..n
        <3>1. p \in (1..n) \X (0..Len(r))  BY <1>3, <1>10
        <3> QED  BY <3>1
    <2>2. PICK o \in JoinOf(B, r, h, FALSE) : q = <<n + o[1], o[2]>>  BY <1>10
    <2>3. o[1] \in 1..m
        <3>1. o \in (1..m) \X (0..Len(r))  BY <1>3, <2>2
        <3> QED  BY <3>1
    <2>4. q[1] = n + o[1]  BY <2>2
    <2> QED  BY <2>1, <2>3, <2>4 DEF Before
<1>11. Lists(s, JoinOf(A, r, h, FALSE))  BY DEF A
<1> HIDE DEF u, Later
<1>12. Lists(s \o u, JoinOf(A, r, h, FALSE) \cup Later)
    BY <1>7, <1>8, <1>10, <1>11, ListsConcat, Zenon
<1>13. s \o u \in Seq(Rows)
    <2> DEFINE Y == Rows
    <2> HIDE DEF Y
    <2>1. s \in Seq(Y) /\ u \in Seq(Y)  BY <1>7 DEF Y
    <2>2. s \o u \in Seq(Y)  BY <2>1
    <2> QED  BY <2>2 DEF Y
<1> QED  BY <1>9, <1>12, <1>13 DEF C, u

-----------------------------------------------------------------------------
DriverTypeInv ==
    /\ howName \in Hows \cup {"outer"}
    /\ part \in [Partition -> Seq(Key)] /\ small \in Seq(Key)
    /\ planned \in {"no", "yes", "rejected"}
    /\ read \in [Partition -> Nat]
    /\ yielded \in [Partition -> Seq(Rows)]

Streaming == planned = "yes" /\ KernelAccepts

(* What partition p has yielded, and how far it is. *)
PartitionInv(p) ==
    /\ read[p] <= Len(part[p])
    /\ status[p] = "done" => read[p] = Len(part[p])
    /\ planned = "no" => read[p] = 0
    /\ ~ Streaming => yielded[p] = <<>>
    /\ Streaming =>
          Lists(yielded[p], JoinOf(SubSeq(part[p], 1, read[p]), small, howName, FALSE))

DriverInv ==
    /\ DriverTypeInv
    /\ planned = "yes" => howName \notin {"right", "full"}
    /\ \A p \in Partition : PartitionInv(p)

LEMMA ListsNothing ==
    ASSUME NEW l, Len(l) = 0, NEW r, Len(r) \in Nat, NEW h, h \notin {"right", "full"}
    PROVE  Lists(<<>>, JoinOf(l, r, h, FALSE))
<1>1. JoinOf(l, r, h, FALSE) = {p \in (1..0) \X (0..Len(r)) : Joined(l, r, h, p)}
    <2>1. Len(l) \in Nat  OBVIOUS
    <2>2. JoinOf(l, r, h, FALSE) = {p \in (1..Len(l)) \X (0..Len(r)) : Joined(l, r, h, p)}
        BY <2>1, LeftJoin
    <2> QED  BY <2>2
<1>2. Len(<<>>) = 0 /\ 1..0 = {}  OBVIOUS
<1>3. JoinOf(l, r, h, FALSE) = {}  BY <1>1, <1>2
<1> QED  BY <1>2, <1>3 DEF Lists

LEMMA DriverInit == BroadcastInit => DriverInv
<1> SUFFICES ASSUME TablesOfKeys, BroadcastInit PROVE DriverInv
    BY BroadcastAssumption
<1> USE DEF BroadcastInit, TablesOfKeys
<1>1. DriverTypeInv
    <2>1. howName \in Hows \cup {"outer"}  OBVIOUS
    <2>2. yielded \in [Partition -> Seq(Rows)]
        <3> DEFINE Y == Seq(Rows)
        <3>1. <<>> \in Y  OBVIOUS
        <3> HIDE DEF Y
        <3>2. yielded \in [Partition -> Y]  BY <3>1
        <3> QED  BY <3>2 DEF Y
    <2>3. part \in [Partition -> Seq(Key)]
        <3> DEFINE Y == Seq(Key)
        <3>1. Parts \subseteq Y /\ part \in [Partition -> Parts]  OBVIOUS
        <3> HIDE DEF Y
        <3>2. part \in [Partition -> Y]  BY <3>1
        <3> QED  BY <3>2 DEF Y
    <2> QED  BY <2>1, <2>2, <2>3 DEF DriverTypeInv
<1>2. ASSUME NEW p \in Partition PROVE PartitionInv(p)
    <2>1. part[p] \in Seq(Key) /\ Len(part[p]) \in Nat  BY <1>1 DEF DriverTypeInv
    <2> QED  BY <2>1 DEF PartitionInv, Streaming
<1> QED  BY <1>1, <1>2 DEF DriverInv

(* A listing has no more rows than its set. *)
LEMMA ResultTyped ==
    ASSUME NEW l, NEW r, Len(l) \in Nat, Len(r) \in Nat, NEW h, h \notin {"right", "full"},
           NEW t \in [1..Cardinality(JoinOf(l, r, h, FALSE)) -> JoinOf(l, r, h, FALSE)]
    PROVE  t \in Seq(Rows)
<1> DEFINE S == JoinOf(l, r, h, FALSE)
           All == (1..Len(l)) \X (0..Len(r))
<1>1. S \subseteq All
    <2>1. S = {p \in All : Joined(l, r, h, p)}  BY LeftJoin
    <2> QED  BY <2>1
<1>2. IsFiniteSet(All)
    <2>1. 1 \in Int /\ 0 \in Int /\ Len(l) \in Int /\ Len(r) \in Int  OBVIOUS
    <2>2. IsFiniteSet(1..Len(l)) /\ IsFiniteSet(0..Len(r))  BY <2>1, FS_Interval
    <2> QED  BY <2>2, FS_Product
<1>3. All \subseteq Rows  BY DEF Rows
<1> HIDE DEF S, All
<1>4. Cardinality(S) \in Nat  BY <1>1, <1>2, FS_Subset, FS_CardinalityType
<1>5. t \in [1..Cardinality(S) -> S] /\ S \subseteq Rows  BY <1>1, <1>3 DEF S
<1> DEFINE Y == Rows
<1> HIDE DEF Y
<1>6. t \in Seq(Y)
    <2>1. t \in [1..Cardinality(S) -> S] /\ S \subseteq Y  BY <1>5 DEF Y
    <2>2. t \in [1..Cardinality(S) -> Y]  BY <2>1
    <2> QED  BY <1>4, <2>2
<1> QED  BY <1>6 DEF Y

(* One batch, of any number of rows, or none. *)
LEMMA BatchStep ==
    ASSUME DriverInv, Streaming, NEW p \in Partition,
           NEW m \in Nat, read[p] + m <= Len(part[p]), status[p] = "running",
           NEW result \in KernelResults(p, read[p] + 1, read[p] + m),
           read' = [read EXCEPT ![p] = @ + m],
           yielded' = [yielded EXCEPT ![p] = @ \o Numbered(result, read[p])],
           UNCHANGED <<howName, part, small, wellFormed, planned, status>>
    PROVE  DriverInv'
<1>1. /\ howName \notin {"right", "full"} /\ planned = "yes"
      /\ part[p] \in Seq(Key) /\ small \in Seq(Key)
      /\ read[p] \in Nat /\ yielded[p] \in Seq(Rows)
    BY DEF DriverInv, DriverTypeInv, Streaming
<1>2. Lists(yielded[p], JoinOf(SubSeq(part[p], 1, read[p]), small, howName, FALSE))
    BY DEF DriverInv, PartitionInv
<1> DEFINE batch == SubSeq(part[p], read[p] + 1, read[p] + m)
           J == JoinOf(batch, small, howName, FALSE)
<1>3. result \in [1..Cardinality(J) -> J] /\ Lists(result, J)
    <2>1. result \in {s \in [1..Cardinality(J) -> J] : Lists(s, J)}
        BY Zenon DEF KernelResults
    <2> HIDE DEF J
    <2> QED  BY <2>1
<1>4. result \in Seq(Rows)
    <2>1. Len(batch) = m  BY <1>1, Slice
    <2> HIDE DEF batch
    <2>2. Len(batch) \in Nat /\ Len(small) \in Nat  BY <1>1, <2>1
    <2> QED  BY <1>1, <1>3, <2>2, ResultTyped
<1> DEFINE whole == yielded[p] \o Numbered(result, read[p])
<1>5. /\ whole \in Seq(Rows)
      /\ Lists(whole, JoinOf(SubSeq(part[p], 1, read[p] + m), small, howName, FALSE))
    BY <1>1, <1>2, <1>3, <1>4, JoinSplits
<1> HIDE DEF whole
<1>6. DriverTypeInv'
    <2>1. yielded' \in [Partition -> Seq(Rows)]
        <3> DEFINE Y == Seq(Rows)
        <3>1. yielded \in [Partition -> Y] /\ whole \in Y
            BY <1>5 DEF DriverInv, DriverTypeInv
        <3> HIDE DEF Y
        <3>2. yielded' = [yielded EXCEPT ![p] = whole]  BY DEF whole
        <3>3. yielded' \in [Partition -> Y]  BY <3>1, <3>2
        <3> QED  BY <3>3 DEF Y
    <2>2. read' \in [Partition -> Nat]  BY <1>1 DEF DriverInv, DriverTypeInv
    <2> QED  BY <2>1, <2>2 DEF DriverInv, DriverTypeInv
<1>7. Streaming' /\ planned' = "yes"  BY <1>1 DEF Streaming, KernelAccepts
<1>8. ASSUME NEW q \in Partition PROVE PartitionInv(q)'
    <2>1. CASE q = p
        <3>1. read'[q] = read[p] + m /\ yielded'[q] = whole
            BY <2>1 DEF DriverInv, DriverTypeInv, whole
        <3> QED  BY <1>5, <1>7, <2>1, <3>1 DEF PartitionInv
    <2>2. CASE q # p
        <3>1. read'[q] = read[q] /\ yielded'[q] = yielded[q]
            BY <2>2 DEF DriverInv, DriverTypeInv
        <3>2. PartitionInv(q)  BY DEF DriverInv
        <3> QED  BY <1>7, <3>1, <3>2 DEF PartitionInv
    <2> QED  BY <2>1, <2>2
<1> QED  BY <1>1, <1>6, <1>7, <1>8 DEF DriverInv

LEMMA DriverStep == DriverInv /\ [BroadcastNext]_broadcastVars => DriverInv'
<1> SUFFICES ASSUME DriverInv, [BroadcastNext]_broadcastVars PROVE DriverInv'
    OBVIOUS
<1>1. CASE Plan
    <2>1. /\ planned = "no"
          /\ UNCHANGED <<howName, part, small, wellFormed, status, read, yielded>>
          /\ planned' = IF howName \in {"right", "full"} THEN "rejected" ELSE "yes"
        BY <1>1 DEF Plan, Rejects
    <2>2. ASSUME NEW p \in Partition PROVE PartitionInv(p)'
        <3>1. PartitionInv(p) /\ ~ Streaming  BY <2>1 DEF DriverInv, Streaming
        <3>2. read[p] = 0 /\ yielded[p] = <<>> /\ read'[p] = 0 /\ yielded'[p] = <<>>
            BY <2>1, <3>1 DEF PartitionInv
        <3>3. part[p] \in Seq(Key) /\ Len(small) \in Nat  BY DEF DriverInv, DriverTypeInv
        <3>4. Len(SubSeq(part[p], 1, 0)) = 0  BY <3>3
        <3>5. howName \notin {"right", "full"} =>
                Lists(<<>>, JoinOf(SubSeq(part[p], 1, 0), small, howName, FALSE))
            BY <3>3, <3>4, ListsNothing
        <3>6. Streaming' => howName \notin {"right", "full"}
            BY <2>1 DEF Streaming
        <3> QED  BY <2>1, <3>1, <3>2, <3>5, <3>6 DEF PartitionInv
    <2> QED  BY <2>1, <2>2 DEF DriverInv, DriverTypeInv
<1>2. ASSUME NEW p \in Partition, JoinBatch(p) PROVE DriverInv'
    <2>1. PICK m \in 1..(Len(part[p]) - read[p]) :
             /\ read' = [read EXCEPT ![p] = @ + m]
             /\ \E result \in KernelResults(p, read[p] + 1, read[p] + m) :
                   yielded' = [yielded EXCEPT ![p] = @ \o Numbered(result, read[p])]
        BY <1>2 DEF JoinBatch
    <2>2. Len(part[p]) \in Nat /\ read[p] \in Nat  BY DEF DriverInv, DriverTypeInv
    <2>3. m \in Nat /\ read[p] + m <= Len(part[p])  BY <2>1, <2>2
    <2>4. /\ Streaming /\ status[p] = "running"
          /\ UNCHANGED <<howName, part, small, wellFormed, planned, status>>
        BY <1>2 DEF JoinBatch, Streaming
    <2> QED  BY <2>1, <2>3, <2>4, BatchStep
<1>3. ASSUME NEW p \in Partition, JoinEmpty(p) PROVE DriverInv'
    <2>1. PICK result \in KernelResults(p, read[p] + 1, read[p]) :
             yielded' = [yielded EXCEPT ![p] = @ \o Numbered(result, read[p])]
        BY <1>3 DEF JoinEmpty
    <2>2. read \in [Partition -> Nat] /\ read[p] <= Len(part[p])
        BY DEF DriverInv, DriverTypeInv, PartitionInv
    <2>3. read[p] + 0 = read[p] /\ read' = [read EXCEPT ![p] = @ + 0]
        BY <1>3, <2>2 DEF JoinEmpty
    <2>4. /\ Streaming /\ status[p] = "running"
          /\ UNCHANGED <<howName, part, small, wellFormed, planned, status>>
        BY <1>3 DEF JoinEmpty, Streaming
    <2>5. result \in KernelResults(p, read[p] + 1, read[p] + 0)  BY <2>1, <2>3
    <2> QED  BY <2>1, <2>2, <2>3, <2>4, <2>5, BatchStep
<1>4. ASSUME NEW p \in Partition, KernelRaises(p) \/ Exhausted(p)
      PROVE  DriverInv'
    <2>1. /\ UNCHANGED <<howName, part, small, wellFormed, planned, read, yielded>>
          /\ \E s \in {"failed", "done"} : /\ status' = [status EXCEPT ![p] = s]
                                           /\ s = "done" => read[p] = Len(part[p])
        BY <1>4 DEF KernelRaises, Exhausted
    <2>2. \A q \in Partition : status'[q] = "done" => status[q] = "done" \/ read[q] = Len(part[q])
        BY <2>1
    <2>3. \A q \in Partition : PartitionInv(q)'
        BY <2>1, <2>2 DEF DriverInv, PartitionInv, Streaming, KernelAccepts
    <2> QED  BY <2>1, <2>3 DEF DriverInv, DriverTypeInv
<1>5. CASE Ended \/ UNCHANGED broadcastVars
    <2>1. UNCHANGED <<howName, part, small, wellFormed, planned, status, read, yielded>>
        BY <1>5 DEF Ended, broadcastVars
    <2>2. \A p \in Partition : PartitionInv(p)'
        BY <2>1 DEF DriverInv, PartitionInv, Streaming, KernelAccepts
    <2> QED  BY <2>1, <2>2 DEF DriverInv, DriverTypeInv
<1> QED  BY <1>1, <1>2, <1>3, <1>4, <1>5 DEF BroadcastNext

LEMMA DriverSpecInv == BroadcastSpec => []DriverInv
<1>1. BroadcastInit => DriverInv  BY DriverInit
<1>2. DriverInv /\ [BroadcastNext]_broadcastVars => DriverInv'  BY DriverStep
<1> QED  BY <1>1, <1>2, PTL DEF BroadcastSpec

(* What becomes of a partition, beside its rows. *)
Bookkept ==
    /\ wellFormed \in BOOLEAN /\ planned \in {"no", "yes", "rejected"}
    /\ status \in [Partition -> {"running", "done", "failed"}]
    /\ empties \in [Partition -> 0..MaxEmpty]

LEMMA Bookkeeping == BroadcastSpec => []Bookkept
<1>1. BroadcastInit => Bookkept
    <2>1. MaxEmpty \in Nat  BY BroadcastAssumption
    <2> QED  BY <2>1 DEF BroadcastInit, Bookkept
<1>2. Bookkept /\ [BroadcastNext]_broadcastVars => Bookkept'
    <2> SUFFICES ASSUME Bookkept, [BroadcastNext]_broadcastVars PROVE Bookkept'
        OBVIOUS
    <2> USE DEF Bookkept
    <2>1. MaxEmpty \in Nat  BY BroadcastAssumption
    <2>2. CASE Plan  BY <2>2 DEF Plan
    <2>3. ASSUME NEW p \in Partition, JoinBatch(p) PROVE Bookkept'
        BY <2>3 DEF JoinBatch
    <2>4. ASSUME NEW p \in Partition, JoinEmpty(p) PROVE Bookkept'
        <3>1. /\ empties[p] < MaxEmpty /\ empties' = [empties EXCEPT ![p] = @ + 1]
              /\ UNCHANGED <<wellFormed, planned, status>>
            BY <2>4 DEF JoinEmpty
        <3>2. empties[p] + 1 \in 0..MaxEmpty  BY <2>1, <3>1
        <3> QED  BY <3>1, <3>2
    <2>5. ASSUME NEW p \in Partition, KernelRaises(p) \/ Exhausted(p) PROVE Bookkept'
        BY <2>5 DEF KernelRaises, Exhausted
    <2>6. CASE Ended \/ UNCHANGED broadcastVars  BY <2>6 DEF Ended, broadcastVars
    <2> QED  BY <2>2, <2>3, <2>4, <2>5, <2>6 DEF BroadcastNext
<1> QED  BY <1>1, <1>2, PTL DEF BroadcastSpec

(* Every variable of a driver keeps its type; the rows yielded have their  *)
(* numbers among those read and those of the small table.                  *)
THEOREM BroadcastTypesKept == BroadcastSpec => []BroadcastTypeOK
<1>1. DriverInv /\ Bookkept => BroadcastTypeOK
    <2> SUFFICES ASSUME DriverInv, Bookkept PROVE BroadcastTypeOK
        OBVIOUS
    <2>1. /\ howName \in Hows \cup {"outer"} /\ part \in [Partition -> Seq(Key)]
          /\ small \in Seq(Key)
        BY DEF DriverInv, DriverTypeInv
    <2>2. ASSUME NEW p \in Partition
          PROVE  /\ read[p] \in 0..Len(part[p])
                 /\ yielded[p] \in Seq((0..read[p]) \X (0..Len(small)))
        <3>1. /\ part[p] \in Seq(Key) /\ read[p] \in Nat /\ yielded[p] \in Seq(Rows)
              /\ Len(small) \in Nat
            BY <2>1 DEF DriverInv, DriverTypeInv
        <3>2. read[p] <= Len(part[p])  BY DEF DriverInv, PartitionInv
        <3> DEFINE l == SubSeq(part[p], 1, read[p])
                   Here == (0..read[p]) \X (0..Len(small))
        <3>3. Len(l) = read[p]  BY <3>1, <3>2
        <3>4. ASSUME NEW k \in 1..Len(yielded[p]) PROVE yielded[p][k] \in Here
            <4>1. CASE Streaming
                <5>1. /\ Lists(yielded[p], JoinOf(l, small, howName, FALSE))
                      /\ howName \notin {"right", "full"}
                    BY <4>1 DEF DriverInv, PartitionInv, Streaming
                <5> HIDE DEF l
                <5>2. yielded[p][k] \in JoinOf(l, small, howName, FALSE)
                    BY <5>1 DEF Lists
                <5>3. JoinOf(l, small, howName, FALSE)
                        = {r \in (1..Len(l)) \X (0..Len(small)) : Joined(l, small, howName, r)}
                    BY <3>1, <3>3, <5>1, LeftJoin
                <5>4. yielded[p][k] \in (1..Len(l)) \X (0..Len(small))  BY <5>2, <5>3, Zenon
                <5>5. 1..Len(l) \subseteq 0..read[p]  BY <3>1, <3>3
                <5>6. (1..Len(l)) \X (0..Len(small)) \subseteq (0..read[p]) \X (0..Len(small))
                    BY <5>5, Zenon
                <5> QED  BY <5>4, <5>6, Zenon
            <4>2. CASE ~ Streaming
                <5>1. yielded[p] = <<>>  BY <4>2 DEF DriverInv, PartitionInv
                <5> QED  BY <5>1
            <4> QED  BY <4>1, <4>2
        <3> HIDE DEF Here
        <3>5. yielded[p] \in Seq(Here)
            <4> DEFINE s == yielded[p]
            <4>1. s \in Seq(Rows) /\ \A k \in 1..Len(s) : s[k] \in Here  BY <3>1, <3>4
            <4> HIDE DEF s
            <4>2. Len(s) \in Nat /\ s \in [1..Len(s) -> Here]  BY <4>1
            <4>3. s \in Seq(Here)  BY <4>2
            <4> QED  BY <4>3 DEF s
        <3> QED  BY <3>1, <3>2, <3>5 DEF Here
    <2> QED  BY <2>1, <2>2 DEF BroadcastTypeOK, Bookkept
<1> QED  BY <1>1, DriverSpecInv, Bookkeeping, PTL

(* However the partitions are cut into batches, a partition has yielded    *)
(* the join of what it has read, in the order of one call of the kernel.   *)
THEOREM BatchesAddUp == BroadcastSpec => []StreamedJoin
<1>1. DriverInv => StreamedJoin
    <2> SUFFICES ASSUME DriverInv, NEW p \in Partition
                 PROVE  Lists(yielded[p],
                            IF KernelAccepts /\ planned = "yes"
                            THEN JoinOf(SubSeq(part[p], 1, read[p]), small, howName, FALSE)
                            ELSE {})
        BY DEF StreamedJoin
    <2>1. PartitionInv(p)  BY DEF DriverInv
    <2>2. Lists(<<>>, {})
        <3>1. Len(<<>>) = 0 /\ 1..0 = {}  OBVIOUS
        <3> QED  BY <3>1 DEF Lists
    <2> QED  BY <2>1, <2>2 DEF PartitionInv, Streaming
<1> QED  BY <1>1, DriverSpecInv, PTL


(* The results of the partitions together are one join of the DataFrame:   *)
(* every row of a partition beside its matches or nulls, once, and no row  *)
(* of the small table beside nulls.                                        *)
THEOREM DataFrameIsJoined == BroadcastSpec => []DataFrameJoined
<1>1. DriverInv => DataFrameJoined
    <2> SUFFICES ASSUME DriverInv, Streaming, \A p \in Partition : status[p] = "done"
                 PROVE  DataFrameJoined
        BY DEF DataFrameJoined, Streaming
    <2>1. howName \notin {"right", "full"}  BY DEF DriverInv, Streaming
    <2>2. ASSUME NEW p \in Partition
          PROVE  /\ Lists(yielded[p], JoinOf(part[p], small, howName, FALSE))
                 /\ \A row \in JoinOf(part[p], small, howName, FALSE) : row[1] # 0
        <3> DEFINE J == JoinOf(part[p], small, howName, FALSE)
        <3>1. part[p] \in Seq(Key) /\ Len(part[p]) \in Nat /\ Len(small) \in Nat
            BY DEF DriverInv, DriverTypeInv
        <3>2. SubSeq(part[p], 1, Len(part[p])) = part[p]  BY <3>1
        <3>3. read[p] = Len(part[p])  BY DEF DriverInv, PartitionInv
        <3>4. Lists(yielded[p], J)
            BY <3>2, <3>3 DEF DriverInv, PartitionInv
        <3>5. J = {q \in (1..Len(part[p])) \X (0..Len(small)) :
                      Joined(part[p], small, howName, q)}
            BY <2>1, <3>1, LeftJoin
        <3>6. ASSUME NEW row \in J PROVE row[1] # 0
            <4>1. row \in (1..Len(part[p])) \X (0..Len(small))  BY <3>5
            <4> QED  BY <4>1
        <3> QED  BY <3>4, <3>6
    <2>3. ASSUME NEW p \in Partition
          PROVE  /\ {yielded[p][k] : k \in OfLeftRows(p)} =
                       {row \in JoinOf(part[p], small, howName, FALSE) : row[1] # 0}
                 /\ \A k, l \in OfLeftRows(p) :
                       k < l => Before(yielded[p][k], yielded[p][l])
        <3> DEFINE J == JoinOf(part[p], small, howName, FALSE)
        <3>1. JoinOf(part[p], small, howName, FALSE) = J  OBVIOUS
        <3>2. Lists(yielded[p], J) /\ \A row \in J : row[1] # 0  BY <2>2
        <3> HIDE DEF J
        <3>3. OfLeftRows(p) = 1..Len(yielded[p])
            BY <3>2 DEF OfLeftRows, Lists
        <3>4. {row \in J : row[1] # 0} = J  BY <3>2
        <3> QED  BY <3>1, <3>2, <3>3, <3>4 DEF Lists
    <2>4. ASSUME NEW j \in 1..Len(small)
          PROVE  Cardinality({p \in Partition :
                     \E k \in 1..Len(yielded[p]) : yielded[p][k] = <<0, j>>}) = 0
        <3>1. ASSUME NEW p \in Partition, NEW k \in 1..Len(yielded[p]),
                     yielded[p][k] = <<0, j>>
              PROVE  FALSE
            <4>1. yielded[p][k] \in JoinOf(part[p], small, howName, FALSE)
                BY <2>2, <3>1 DEF Lists
            <4>2. yielded[p][k][1] = 0  BY <3>1
            <4> QED  BY <2>2, <4>1, <4>2
        <3>2. {p \in Partition :
                  \E k \in 1..Len(yielded[p]) : yielded[p][k] = <<0, j>>} = {}
            BY <3>1
        <3> QED  BY <3>2, FS_EmptySet
    <2>5. ASSUME NEW j \in 1..Len(small)
          PROVE  Cardinality({p \in Partition :
                     \E k \in 1..Len(yielded[p]) : yielded[p][k] = <<0, j>>})
                 = IF howName \in {"right", "full"}
                      /\ \A p \in Partition : <<0, j>> \in RightOver(part[p], small, FALSE)
                   THEN 1 ELSE 0
        BY <2>1, <2>4
    <2> QED  BY <2>3, <2>5, Zenon DEF DataFrameJoined
<1> QED  BY <1>1, DriverSpecInv, PTL

(* A call that returned a result the driver may be handed. *)
KeepsItsWord ==
    pc = "done" /\ ~ nullSafe =>
        LET rows == JoinOf(left, right, how, FALSE)
        IN  out \in [1..Cardinality(rows) -> rows] /\ Lists(out, rows)

(* A call of the kernel keeps its word: what it returns for keys whose     *)
(* null buffers tell which are null is a result the driver may be handed.  *)
THEOREM KernelKeepsItsWord ==
    NullsAreMarked /\ Spec => []KeepsItsWord
<1>1. TypeOK /\ OutputIsJoin => KeepsItsWord
    <2> SUFFICES ASSUME TypeOK, OutputIsJoin, pc = "done", ~ nullSafe
                 PROVE  LET rows == JoinOf(left, right, how, FALSE)
                        IN  out \in [1..Cardinality(rows) -> rows] /\ Lists(out, rows)
        BY DEF KeepsItsWord
    <2> DEFINE rows == JoinOf(left, right, how, FALSE)
               D == 1..Len(out)
    <2>1. JoinOf(left, right, how, FALSE) = rows  OBVIOUS
    <2>2. nullSafe = FALSE  BY DEF TypeOK
    <2>3. Lists(out, rows)  BY <2>2 DEF OutputIsJoin
    <2>4. Len(out) \in Nat /\ out \in [D -> rows]
        <3>1. Len(out) \in Nat /\ out = [k \in D |-> out[k]]  BY DEF TypeOK
        <3> HIDE DEF rows
        <3>2. \A k \in D : out[k] \in rows  BY <2>3 DEF Lists
        <3> QED  BY <3>1, <3>2
    <2>5. \A k, l \in D : k # l => out[k] # out[l]
        <3> SUFFICES ASSUME NEW k \in D, NEW l \in D, k < l PROVE out[k] # out[l]
            BY <2>4
        <3>1. Before(out[k], out[l])  BY <2>3 DEF Lists
        <3>2. out[k] \in (0..Len(left)) \X (0..Len(right))  BY DEF TypeOK
        <3>3. out[k][1] \in Int /\ out[k][2] \in Int
            <4>1. Len(left) \in Nat /\ Len(right) \in Nat  BY DEF TypeOK
            <4> QED  BY <3>2, <4>1
        <3> QED  BY <3>1, <3>3 DEF Before
    <2> HIDE DEF rows
    <2>6. out \in Bijection(D, rows)
        <3>1. \A row \in rows : \E k \in D : out[k] = row  BY <2>3 DEF Lists
        <3>2. out \in Injection(D, rows)
            <4>1. \A k, l \in D : out[k] = out[l] => k = l  BY <2>5
            <4> QED  BY <2>4, <4>1 DEF Injection, IsInjective
        <3>3. out \in Surjection(D, rows)  BY <2>4, <3>1 DEF Surjection
        <3> QED  BY <3>2, <3>3 DEF Bijection
    <2>7. Cardinality(rows) = Len(out)
        <3>1. ExistsBijection(D, rows)  BY <2>6 DEF ExistsBijection
        <3> QED  BY <2>4, <3>1, FS_CountingElements
    <2> QED  BY <2>1, <2>3, <2>4, <2>7
<1> QED  BY <1>1, JoinTypeOK, ResultIsJoin, PTL
=============================================================================
