----------------------------- MODULE FoldLemmas -----------------------------
(***************************************************************************)
(* What proofs need of numbers and of the folds of the community modules.  *)
(* A fold is a function that is defined by its own values on smaller sets; *)
(* its theorems take operators for parameters, which no prover here can    *)
(* supply, so what is folded with is a function in these lemmas.           *)
(***************************************************************************)
EXTENDS Integers, SequencesExt, FiniteSetTheorems, SequenceTheorems,
        WellFoundedInduction, TLAPS

(* A set of numbers has a least one, and a greatest if it is bounded. *)
LEMMA Least ==
    ASSUME NEW S \in SUBSET Nat, S # {}
    PROVE  \E m \in S : \A k \in S : m <= k
<1>1. PICK x \in S : \A y \in S : ~ (<<y, x>> \in OpToRel(<, Nat))
    <2>1. IsWellFoundedOn({p \in Nat \X Nat : p[1] < p[2]}, Nat)
        BY NatLessThanWellFounded, Zenon DEF OpToRel
    <2> QED  BY <2>1, WFMin DEF OpToRel
<1>2. \A y \in S : ~ (y < x)  BY <1>1 DEF OpToRel
<1> QED  BY <1>2

(* A set of numbers that has 0 and with each number the next has them all. *)
LEMMA SetInduction ==
    ASSUME NEW S \in SUBSET Nat, 0 \in S, \A n \in S : n + 1 \in S
    PROVE  S = Nat
<1> SUFFICES ASSUME Nat \ S # {} PROVE FALSE  OBVIOUS
<1> DEFINE T == Nat \ S
<1>1. T \in SUBSET Nat /\ T # {}  OBVIOUS
<1> HIDE DEF T
<1>2. PICK m \in T : \A k \in T : m <= k  BY <1>1, Least
<1>3. m \in Nat /\ m \notin S  BY DEF T
<1>4. m # 0 /\ m - 1 \in Nat  BY <1>3
<1>5. m - 1 \in S  BY <1>2, <1>4 DEF T
<1> QED  BY <1>3, <1>5

LEMMA MaxIn ==
    ASSUME NEW n \in Nat, NEW S \in SUBSET (1..n), S # {}
    PROVE  Max(S) \in S /\ \A y \in S : Max(S) >= y
<1> DEFINE T == {n - y : y \in S}
<1>1. T \in SUBSET Nat /\ T # {}
    <2>1. \A y \in S : n - y \in Nat  OBVIOUS
    <2>2. PICK y \in S : TRUE  OBVIOUS
    <2>3. n - y \in T  OBVIOUS
    <2> QED  BY <2>1, <2>3
<1>2. \E x \in S : \A y \in S : x >= y
    <2>1. PICK m \in T : \A k \in T : m <= k
        <3> HIDE DEF T
        <3> QED  BY <1>1, Least
    <2>2. PICK x \in S : m = n - x  OBVIOUS
    <2>3. ASSUME NEW y \in S PROVE x >= y
        <3>1. n - y \in T  OBVIOUS
        <3>2. n - x <= n - y  BY <2>1, <2>2, <3>1
        <3> QED  BY <3>2
    <2> QED  BY <2>3
<1> QED  BY <1>2 DEF Max

LEMMA MinIn ==
    ASSUME NEW S \in SUBSET Nat, S # {}
    PROVE  Min(S) \in S /\ \A y \in S : Min(S) <= y
BY Least DEF Min

(* The first numbers, and the last of them. *)
LEMMA FirstNumbers ==
    ASSUME NEW m \in Nat
    PROVE  /\ 1..(m + 1) # {} /\ Max(1..(m + 1)) = m + 1
           /\ (1..(m + 1)) \ {m + 1} = 1..m /\ 1..(m + 1) = 1..m \cup {m + 1}
<1>1. m + 1 \in Nat /\ 1..(m + 1) \in SUBSET (1..(m + 1)) /\ m + 1 \in 1..(m + 1)
    OBVIOUS
<1>2. Max(1..(m + 1)) \in 1..(m + 1) /\ \A y \in 1..(m + 1) : Max(1..(m + 1)) >= y
    BY <1>1, MaxIn
<1>3. Max(1..(m + 1)) = m + 1  BY <1>1, <1>2
<1>4. (1..(m + 1)) \ {m + 1} = 1..m /\ 1..(m + 1) = 1..m \cup {m + 1}  OBVIOUS
<1> QED  BY <1>1, <1>3, <1>4

-----------------------------------------------------------------------------
(* g folds step over the subsets of S, from base; pick[s] is the element   *)
(* of s that is folded in last.                                            *)
Folding(S, base, pick, step, g) ==
    g = [s \in SUBSET S |->
            IF s = {} THEN base ELSE step[<<g[s \ {pick[s]}], pick[s]>>]]

Picks(S, pick) == \A s \in SUBSET S : s # {} => pick[s] \in s

(* A step that stays in A has a fold, which stays in A. *)
LEMMA FoldingExists ==
    ASSUME NEW S, IsFiniteSet(S), NEW A, NEW base \in A, NEW pick, Picks(S, pick),
           NEW step \in [A \X S -> A]
    PROVE  \E g \in [SUBSET S -> A] : Folding(S, base, pick, step, g)
<1> DEFINE w(g, s) == IF s = {} THEN base ELSE step[<<g[s \ {pick[s]}], pick[s]>>]
           Upto(m, g) == \A s \in SUBSET S : Cardinality(s) <= m => g[s] = w(g, s)
           N == {m \in Nat : \E g \in [SUBSET S -> A] : Upto(m, g)}
<1>0. ASSUME NEW g \in [SUBSET S -> A], NEW s \in SUBSET S PROVE w(g, s) \in A
    <2>1. CASE s = {}  BY <2>1
    <2>2. CASE s # {}
        <3>1. pick[s] \in S  BY <2>2 DEF Picks
        <3>2. s \ {pick[s]} \in SUBSET S  OBVIOUS
        <3>3. g[s \ {pick[s]}] \in A  BY <3>2
        <3> QED  BY <2>2, <3>1, <3>3
    <2> QED  BY <2>1, <2>2
<1>1. 0 \in N
    <2> DEFINE g == [s \in SUBSET S |-> base]
    <2>1. ASSUME NEW s \in SUBSET S, Cardinality(s) <= 0 PROVE g[s] = w(g, s)
        <3>1. IsFiniteSet(s) /\ Cardinality(s) \in Nat  BY FS_Subset, FS_CardinalityType
        <3>2. s = {}  BY <2>1, <3>1, FS_EmptySet
        <3> QED  BY <3>2
    <2>2. g \in [SUBSET S -> A]  OBVIOUS
    <2> HIDE DEF g, w
    <2> QED  BY <2>1, <2>2
<1>2. ASSUME NEW m \in N PROVE m + 1 \in N
    <2> HIDE DEF w
    <2>1. PICK g \in [SUBSET S -> A] : Upto(m, g)  OBVIOUS
    <2> DEFINE h == [s \in SUBSET S |-> w(g, s)]
    <2>2. h \in [SUBSET S -> A]  BY <1>0
    <2>3. ASSUME NEW s \in SUBSET S, Cardinality(s) <= m + 1 PROVE h[s] = w(h, s)
        <3>1. CASE s = {}  BY <3>1 DEF w
        <3>2. CASE s # {}
            <4> DEFINE t == s \ {pick[s]}
            <4>1. IsFiniteSet(s) /\ Cardinality(s) \in Nat /\ pick[s] \in s
                BY <3>2, FS_Subset, FS_CardinalityType DEF Picks
            <4>2. Cardinality(t) = Cardinality(s) - 1  BY <4>1, FS_RemoveElement
            <4>3. t \in SUBSET S /\ Cardinality(t) <= m  BY <2>3, <4>1, <4>2
            <4>4. g[t] = w(g, t) /\ h[t] = w(g, t)  BY <2>1, <4>3
            <4>5. h[s] = w(g, s)  OBVIOUS
            <4> HIDE DEF h
            <4>6. g[t] = h[t]  BY <4>4
            <4> QED  BY <3>2, <4>5, <4>6 DEF w
        <3> QED  BY <3>1, <3>2
    <2> HIDE DEF h
    <2>4. m + 1 \in Nat  OBVIOUS
    <2> QED  BY <2>2, <2>3, <2>4
<1> HIDE DEF N, w
<1>3. N = Nat
    <2>1. N \in SUBSET Nat  BY DEF N
    <2> QED  BY <1>1, <1>2, <2>1, SetInduction
<1>4. Cardinality(S) \in N  BY <1>3, FS_CardinalityType
<1>5. PICK g \in [SUBSET S -> A] : Upto(Cardinality(S), g)  BY <1>4 DEF N
<1>6. ASSUME NEW s \in SUBSET S PROVE g[s] = w(g, s)
    <2>1. Cardinality(s) <= Cardinality(S)  BY FS_Subset
    <2> QED  BY <1>5, <2>1
<1>7. g = [s \in SUBSET S |-> w(g, s)]  BY <1>6
<1>8. Folding(S, base, pick, step, g)  BY <1>7 DEF Folding, w
<1> QED  BY <1>8

(* g folds step over the first n numbers, in their order. *)
PrefixFolding(n, base, step, g) ==
    g = [s \in SUBSET (1..n) |->
            IF s = {} THEN base ELSE step[<<g[s \ {Max(s)}], Max(s)>>]]

LEMMA PrefixFold ==
    ASSUME NEW n \in Nat, NEW A, NEW base \in A, NEW step \in [A \X (1..n) -> A]
    PROVE  \E g \in [SUBSET (1..n) -> A] : PrefixFolding(n, base, step, g)
<1> DEFINE S == 1..n
           pick == [s \in SUBSET S |-> Max(s)]
           w(g, s) == IF s = {} THEN base ELSE step[<<g[s \ {Max(s)}], Max(s)>>]
<1>1. IsFiniteSet(S)  BY FS_Interval
<1>2. Picks(S, pick)
    <2> SUFFICES ASSUME NEW s \in SUBSET S, s # {} PROVE pick[s] \in s  BY DEF Picks
    <2>1. Max(s) \in s  BY MaxIn
    <2> QED  BY <2>1
<1>3. \A s \in SUBSET S : pick[s] = Max(s)  OBVIOUS
<1> HIDE DEF S, pick
<1>4. step \in [A \X S -> A]  BY DEF S
<1>5. PICK g \in [SUBSET S -> A] : Folding(S, base, pick, step, g)
    BY <1>1, <1>2, <1>4, FoldingExists
<1>6. g = [s \in SUBSET S |-> w(g, s)]
    <2>1. \A s \in SUBSET S : (IF s = {} THEN base ELSE step[<<g[s \ {pick[s]}], pick[s]>>]) = w(g, s)
        BY <1>3
    <2> HIDE DEF w
    <2> QED  BY <1>5, <2>1 DEF Folding
<1>7. PrefixFolding(n, base, step, g)  BY <1>6 DEF PrefixFolding, S
<1> QED  BY <1>5, <1>7 DEF S

-----------------------------------------------------------------------------
(* The sum of f[x] for every x of S. *)
SumOver(f, S) == MapThenSumSet(LAMBDA x : f[x], S)

SumStep(f, g, s) ==
    IF s = {} THEN 0
    ELSE f[CHOOSE x \in s : TRUE] + g[s \ {CHOOSE x \in s : TRUE}]
Summing(f, S, g) == g = [s \in SUBSET S |-> SumStep(f, g, s)]

LEMMA SumsExist ==
    ASSUME NEW S, IsFiniteSet(S), NEW f, \A x \in S : f[x] \in Int
    PROVE  \E g \in [SUBSET S -> Int] : Summing(f, S, g)
<1> DEFINE pick == [s \in SUBSET S |-> CHOOSE x \in s : TRUE]
           step == [p \in Int \X S |-> f[p[2]] + p[1]]
<1>1. Picks(S, pick)  BY DEF Picks
<1>2. step \in [Int \X S -> Int]  OBVIOUS
<1>3. \A a \in Int, x \in S : step[<<a, x>>] = f[x] + a  OBVIOUS
<1>4. \A s \in SUBSET S : pick[s] = CHOOSE x \in s : TRUE  OBVIOUS
<1> HIDE DEF pick, step
<1>5. PICK g \in [SUBSET S -> Int] : Folding(S, 0, pick, step, g)
    <2>1. 0 \in Int  OBVIOUS
    <2> QED  BY <1>1, <1>2, <2>1, FoldingExists, Zenon
<1>6. ASSUME NEW s \in SUBSET S
      PROVE  SumStep(f, g, s) = IF s = {} THEN 0 ELSE step[<<g[s \ {pick[s]}], pick[s]>>]
    <2>1. CASE s = {}  BY <2>1 DEF SumStep
    <2>2. CASE s # {}
        <3>1. pick[s] \in S /\ pick[s] = CHOOSE x \in s : TRUE  BY <1>1, <1>4, <2>2 DEF Picks
        <3>2. g[s \ {pick[s]}] \in Int  OBVIOUS
        <3> QED  BY <1>3, <2>2, <3>1, <3>2 DEF SumStep
    <2> QED  BY <2>1, <2>2
<1>7. g = [s \in SUBSET S |-> SumStep(f, g, s)]  BY <1>5, <1>6 DEF Folding
<1> QED  BY <1>7 DEF Summing

(* Two that agree on a set agree on its subsets. *)
LEMMA SumsAgree ==
    ASSUME NEW S, IsFiniteSet(S), NEW T \in SUBSET S, NEW f, NEW h,
           \A x \in T : f[x] = h[x],
           NEW g, Summing(f, S, g), NEW k, Summing(h, T, k)
    PROVE  \A s \in SUBSET T : g[s] = k[s]
<1> DEFINE N == {m \in Nat : \A s \in SUBSET T : Cardinality(s) <= m => g[s] = k[s]}
<1>0. /\ \A s \in SUBSET S : g[s] = SumStep(f, g, s)
      /\ \A s \in SUBSET T : k[s] = SumStep(h, k, s)
    <2> DEFINE wg(s) == SumStep(f, g, s)
               wk(s) == SumStep(h, k, s)
    <2>1. g = [s \in SUBSET S |-> wg(s)] /\ k = [s \in SUBSET T |-> wk(s)]
        BY Zenon DEF Summing
    <2> HIDE DEF wg, wk
    <2>2. (\A s \in SUBSET S : g[s] = wg(s)) /\ (\A s \in SUBSET T : k[s] = wk(s))
        BY <2>1
    <2> QED  BY <2>2 DEF wg, wk
<1>1. 0 \in N
    <2> SUFFICES ASSUME NEW s \in SUBSET T, Cardinality(s) <= 0 PROVE g[s] = k[s]  OBVIOUS
    <2>1. IsFiniteSet(s) /\ Cardinality(s) \in Nat  BY FS_Subset, FS_CardinalityType
    <2>2. s = {}  BY <2>1, FS_EmptySet
    <2> QED  BY <1>0, <2>2 DEF SumStep
<1>2. ASSUME NEW m \in N PROVE m + 1 \in N
    <2> SUFFICES ASSUME NEW s \in SUBSET T, Cardinality(s) <= m + 1 PROVE g[s] = k[s]  OBVIOUS
    <2>1. CASE s = {}  BY <1>0, <2>1 DEF SumStep
    <2>2. CASE s # {}
        <3> DEFINE x == CHOOSE y \in s : TRUE
        <3>1. IsFiniteSet(s) /\ Cardinality(s) \in Nat /\ x \in s
            BY <2>2, FS_Subset, FS_CardinalityType
        <3> HIDE DEF x
        <3>2. Cardinality(s \ {x}) = Cardinality(s) - 1  BY <3>1, FS_RemoveElement
        <3>3. g[s \ {x}] = k[s \ {x}]
            <4>1. s \ {x} \in SUBSET T /\ Cardinality(s \ {x}) <= m  BY <3>1, <3>2
            <4> QED  BY <4>1
        <3>4. f[x] = h[x]  BY <3>1
        <3>5. g[s] = f[x] + g[s \ {x}] /\ k[s] = h[x] + k[s \ {x}]
            BY <1>0, <2>2 DEF SumStep, x
        <3> QED  BY <3>3, <3>4, <3>5
    <2> QED  BY <2>1, <2>2
<1> HIDE DEF N
<1>3. N = Nat
    <2>1. N \in SUBSET Nat  BY DEF N
    <2> QED  BY <1>1, <1>2, <2>1, SetInduction
<1>4. ASSUME NEW s \in SUBSET T PROVE g[s] = k[s]
    <2>1. IsFiniteSet(T) /\ IsFiniteSet(s)  BY FS_Subset
    <2>2. Cardinality(s) \in N  BY <1>3, <2>1, FS_CardinalityType
    <2>3. Cardinality(s) <= Cardinality(s)  BY <2>1, FS_CardinalityType
    <2> QED  BY <2>2, <2>3 DEF N
<1> QED  BY <1>4

LEMMA SumIs ==
    ASSUME NEW S, IsFiniteSet(S), NEW f, \A x \in S : f[x] \in Int
    PROVE  \E g \in [SUBSET S -> Int] : Summing(f, S, g) /\ SumOver(f, S) = g[S]
<1> DEFINE c == CHOOSE g : Summing(f, S, g)
<1>1. PICK g \in [SUBSET S -> Int] : Summing(f, S, g)  BY SumsExist
<1>2. Summing(f, S, c)  BY <1>1
<1>3. SumOver(f, S) = c[S]
    BY Zenon DEF SumOver, MapThenSumSet, MapThenFoldSet, Summing, SumStep
<1>4. c[S] = g[S]
    <2> HIDE DEF c
    <2> QED  BY <1>1, <1>2, SumsAgree
<1> QED  BY <1>1, <1>3, <1>4

LEMMA SumOfNone == ASSUME NEW f PROVE SumOver(f, {}) = 0
<1>1. PICK g : Summing(f, {}, g) /\ SumOver(f, {}) = g[{}]
    <2>1. IsFiniteSet({}) /\ \A x \in {} : f[x] \in Int  BY FS_EmptySet
    <2> QED  BY <2>1, SumIs
<1>2. g[{}] = SumStep(f, g, {})
    <2> DEFINE w(s) == SumStep(f, g, s)
    <2>1. g = [s \in SUBSET {} |-> w(s)]  BY <1>1, Zenon DEF Summing
    <2> HIDE DEF w
    <2>2. g[{}] = w({})  BY <2>1
    <2> QED  BY <2>2 DEF w
<1> QED  BY <1>1, <1>2 DEF SumStep

(* A sum depends on the numbers that are added, and on nothing else. *)
LEMMA SameSum ==
    ASSUME NEW S, IsFiniteSet(S), NEW f, NEW h, \A x \in S : f[x] \in Int /\ f[x] = h[x]
    PROVE  SumOver(f, S) = SumOver(h, S)
<1>1. PICK g : Summing(f, S, g) /\ SumOver(f, S) = g[S]  BY SumIs
<1>2. PICK k : Summing(h, S, k) /\ SumOver(h, S) = k[S]  BY SumIs
<1> QED  BY <1>1, <1>2, SumsAgree

(* Any number can be added last. *)
LEMMA SumWithout ==
    ASSUME NEW S, IsFiniteSet(S), NEW f, \A x \in S : f[x] \in Int, NEW x \in S
    PROVE  SumOver(f, S) = f[x] + SumOver(f, S \ {x}) /\ SumOver(f, S \ {x}) \in Int
<1>1. PICK g \in [SUBSET S -> Int] : Summing(f, S, g) /\ SumOver(f, S) = g[S]  BY SumIs
<1>2. ASSUME NEW T \in SUBSET S PROVE SumOver(f, T) = g[T]
    <2>1. IsFiniteSet(T) /\ \A y \in T : f[y] \in Int  BY FS_Subset
    <2>2. PICK k : Summing(f, T, k) /\ SumOver(f, T) = k[T]  BY <2>1, SumIs
    <2> QED  BY <1>1, <2>2, SumsAgree
<1>3. \A s \in SUBSET S : g[s] = SumStep(f, g, s)
    <2> DEFINE w(s) == SumStep(f, g, s)
    <2>1. g = [s \in SUBSET S |-> w(s)]  BY <1>1, Zenon DEF Summing
    <2> HIDE DEF w
    <2>2. \A s \in SUBSET S : g[s] = w(s)  BY <2>1
    <2> QED  BY <2>2 DEF w
<1> DEFINE Free(s) == \A y \in s : g[s] = f[y] + g[s \ {y}]
           N == {m \in Nat : \A s \in SUBSET S : Cardinality(s) <= m => Free(s)}
<1>4. 0 \in N
    <2> SUFFICES ASSUME NEW s \in SUBSET S, Cardinality(s) <= 0 PROVE Free(s)  OBVIOUS
    <2>1. IsFiniteSet(s) /\ Cardinality(s) \in Nat  BY FS_Subset, FS_CardinalityType
    <2>2. s = {}  BY <2>1, FS_EmptySet
    <2> QED  BY <2>2
<1>5. ASSUME NEW m \in N PROVE m + 1 \in N
    <2> SUFFICES ASSUME NEW s \in SUBSET S, Cardinality(s) <= m + 1, NEW y \in s
                 PROVE  g[s] = f[y] + g[s \ {y}]
        OBVIOUS
    <2> DEFINE z == CHOOSE v \in s : TRUE
    <2>1. IsFiniteSet(s) /\ Cardinality(s) \in Nat /\ z \in s
        BY FS_Subset, FS_CardinalityType
    <2>2. g[s] = f[z] + g[s \ {z}]  BY <1>3 DEF SumStep
    <2> HIDE DEF z
    <2>3. CASE y = z  BY <2>2, <2>3
    <2>4. CASE y # z
        <3>1. Cardinality(s \ {z}) = Cardinality(s) - 1 /\ Cardinality(s \ {y}) = Cardinality(s) - 1
            BY <2>1, FS_RemoveElement
        <3>2. /\ s \ {z} \in SUBSET S /\ Cardinality(s \ {z}) <= m
              /\ s \ {y} \in SUBSET S /\ Cardinality(s \ {y}) <= m
            BY <2>1, <3>1
        <3>3. Free(s \ {z}) /\ Free(s \ {y})  BY <3>2
        <3>4. y \in s \ {z} /\ z \in s \ {y} /\ (s \ {z}) \ {y} = (s \ {y}) \ {z}
            BY <2>1, <2>4
        <3>5. /\ g[s \ {z}] = f[y] + g[(s \ {z}) \ {y}]
              /\ g[s \ {y}] = f[z] + g[(s \ {z}) \ {y}]
            BY <3>3, <3>4
        <3>6. (s \ {z}) \ {y} \in SUBSET S  OBVIOUS
        <3>7. g[(s \ {z}) \ {y}] \in Int /\ f[y] \in Int /\ f[z] \in Int  BY <2>1, <3>6
        <3> QED  BY <2>2, <3>5, <3>7
    <2> QED  BY <2>3, <2>4
<1> HIDE DEF N
<1>6. N = Nat
    <2>1. N \in SUBSET Nat  BY DEF N
    <2> QED  BY <1>4, <1>5, <2>1, SetInduction
<1>7. Free(S)
    <2>1. Cardinality(S) \in N /\ Cardinality(S) \in Nat  BY <1>6, FS_CardinalityType
    <2> QED  BY <2>1 DEF N
<1>8. S \ {x} \in SUBSET S  OBVIOUS
<1> QED  BY <1>1, <1>2, <1>7, <1>8

-----------------------------------------------------------------------------
(* Flattening, one sequence after the other. *)
LEMMA FlattenBySequence ==
    ASSUME NEW A, NEW seqs, Len(seqs) \in Nat, seqs \in Seq(Seq(A))
    PROVE  \E F \in [0..Len(seqs) -> Seq(A)] :
              /\ F[0] = <<>> /\ F[Len(seqs)] = FlattenSeq(seqs)
              /\ \A k \in 1..Len(seqs) : F[k] = F[k - 1] \o seqs[k]
<1> DEFINE n == Len(seqs)
           L == Seq(A)
           w(f, i) == IF i = 1 THEN seqs[i] ELSE f[i - 1] \o seqs[i]
           c == CHOOSE f : f = [i \in 1..n |-> w(f, i)]
<1>1. n \in Nat /\ \A k \in 1..n : seqs[k] \in L
    <2>1. seqs \in Seq(L)  OBVIOUS
    <2> HIDE DEF L
    <2> QED  BY <2>1
<1>2. CASE n = 0
    <2>1. FlattenSeq(seqs) = <<>>
        <3>1. FlattenSeq(seqs) = seqs  BY <1>2 DEF FlattenSeq
        <3> QED  BY <1>2, <3>1
    <2> DEFINE F == [k \in 0..n |-> <<>>]
    <2>2. F \in [0..n -> L] /\ F[0] = <<>> /\ F[n] = <<>>  BY <1>2
    <2>3. 1..n = {}  BY <1>2
    <2> QED  BY <2>1, <2>2, <2>3
<1>3. CASE n # 0
    <2>0. FlattenSeq(seqs) = c[n]  BY <1>3, Zenon DEF FlattenSeq
    <2> DEFINE step == [p \in L \X (1..n) |-> p[1] \o seqs[p[2]]]
    <2>1. \A a \in L, k \in 1..n : a \o seqs[k] \in L  BY <1>1
    <2>2. step \in [L \X (1..n) -> L]
        <3> HIDE DEF L
        <3> QED  BY <2>1
    <2>3. \A a \in L, k \in 1..n : step[<<a, k>>] = a \o seqs[k]  OBVIOUS
    <2>4. <<>> \in L  OBVIOUS
    <2>5. \A s \in L : <<>> \o s = s  OBVIOUS
    <2> HIDE DEF step, L, n
    <2>6. PICK g \in [SUBSET (1..n) -> L] : PrefixFolding(n, <<>>, step, g)
        BY <1>1, <2>2, <2>4, PrefixFold
    <2> DEFINE W(s) == IF s = {} THEN <<>> ELSE step[<<g[s \ {Max(s)}], Max(s)>>]
    <2>7. \A s \in SUBSET (1..n) : g[s] = W(s)
        <3>1. g = [s \in SUBSET (1..n) |-> W(s)]  BY <2>6, Zenon DEF PrefixFolding
        <3> HIDE DEF W
        <3> QED  BY <3>1
    <2>8. g[1..0] = <<>>
        <3>1. 1..0 = {} /\ {} \in SUBSET (1..n)  OBVIOUS
        <3> QED  BY <2>7, <3>1
    <2>9. ASSUME NEW k \in 1..n PROVE g[1..k] = g[1..(k - 1)] \o seqs[k]
        <3>1. k - 1 \in Nat /\ (k - 1) + 1 = k  BY <1>1
        <3>2. 1..k # {} /\ Max(1..k) = k /\ (1..k) \ {k} = 1..(k - 1)
            <4> DEFINE m == k - 1
            <4>1. m \in Nat /\ m + 1 = k  BY <3>1
            <4> HIDE DEF m
            <4>2. 1..k # {} /\ Max(1..k) = k /\ (1..k) \ {k} = 1..m  BY <4>1, FirstNumbers
            <4> QED  BY <4>2 DEF m
        <3>3. 1..k \in SUBSET (1..n) /\ 1..(k - 1) \in SUBSET (1..n)  BY <1>1
        <3>4. g[1..k] = step[<<g[1..(k - 1)], k>>]  BY <2>7, <3>2, <3>3
        <3> QED  BY <2>3, <3>3, <3>4
    <2> HIDE DEF W
    <2> DEFINE h == [i \in 1..n |-> g[1..i]]
    <2>10. h = [i \in 1..n |-> w(h, i)]
        <3>1. ASSUME NEW i \in 1..n PROVE h[i] = w(h, i)
            <4>1. CASE i = 1
                <5>1. i - 1 = 0  BY <4>1
                <5>2. h[i] = <<>> \o seqs[i]  BY <2>8, <2>9, <5>1
                <5> QED  BY <1>1, <2>5, <4>1, <5>2
            <4>2. CASE i # 1
                <5>1. i - 1 \in 1..n  BY <1>1, <4>2
                <5> QED  BY <2>9, <4>2, <5>1
            <4> QED  BY <4>1, <4>2
        <3> HIDE DEF w
        <3>2. h = [i \in 1..n |-> h[i]]  OBVIOUS
        <3> HIDE DEF h
        <3> QED  BY <3>1, <3>2
    <2> HIDE DEF h
    <2>11. c = [i \in 1..n |-> w(c, i)]  BY <2>10
    <2> HIDE DEF c
    <2>12. \A i \in 1..n : c[i] = w(c, i)
        <3> HIDE DEF w
        <3> QED  BY <2>11
    <2> DEFINE N == {m \in Nat : m \in 1..n => c[m] = g[1..m]}
    <2>13. 0 \in N  OBVIOUS
    <2>14. ASSUME NEW m \in N PROVE m + 1 \in N
        <3> SUFFICES ASSUME m + 1 \in 1..n PROVE c[m + 1] = g[1..(m + 1)]  OBVIOUS
        <3>0. (m + 1) - 1 = m  OBVIOUS
        <3>1. g[1..(m + 1)] = g[1..m] \o seqs[m + 1]  BY <2>9, <3>0
        <3>2. CASE m = 0
            <4>1. c[m + 1] = seqs[m + 1]  BY <2>12, <3>2
            <4>2. g[1..m] = <<>> /\ seqs[m + 1] \in L  BY <1>1, <2>8, <3>2
            <4> QED  BY <2>5, <3>1, <4>1, <4>2
        <3>3. CASE m # 0
            <4>1. m \in 1..n /\ c[m] = g[1..m]  BY <1>1, <3>3
            <4>2. m + 1 # 1 /\ m + 1 \in 1..n  BY <3>3
            <4>3. c[m + 1] = w(c, m + 1)  BY <2>12, <4>2
            <4>4. c[m + 1] = c[m] \o seqs[m + 1]  BY <3>0, <4>2, <4>3
            <4> QED  BY <3>1, <4>1, <4>4
        <3> QED  BY <3>2, <3>3
    <2> HIDE DEF N
    <2>15. N = Nat
        <3>1. N \in SUBSET Nat  BY DEF N
        <3> QED  BY <2>13, <2>14, <3>1, SetInduction
    <2>16. c[n] = g[1..n]
        <3>1. n \in N  BY <1>1, <2>15
        <3>2. n \in 1..n  BY <1>1, <1>3
        <3> QED  BY <3>1, <3>2 DEF N
    <2> DEFINE F == [k \in 0..n |-> g[1..k]]
    <2>17. F \in [0..n -> L]
        <3>1. \A k \in 0..n : 1..k \in SUBSET (1..n)  BY <1>1
        <3> QED  BY <3>1
    <2>18. F[0] = <<>> /\ F[n] = FlattenSeq(seqs)  BY <1>1, <2>0, <2>8, <2>16
    <2>19. \A k \in 1..n : F[k] = F[k - 1] \o seqs[k]
        <3>1. \A k \in 1..n : k \in 0..n /\ k - 1 \in 0..n  BY <1>1
        <3> QED  BY <2>9, <3>1
    <2> QED  BY <2>17, <2>18, <2>19 DEF n, L
<1> QED  BY <1>2, <1>3

(* A sequence s, then a text t without a mark, then a mark x.  It can be   *)
(* told where s ends, if s is empty or ends with a mark.                   *)
Marked(marks, s) == s = <<>> \/ s[Len(s)] \in marks
Unmarked(marks, t) == \A i \in 1..Len(t) : t[i] \notin marks

LEMMA LastMark ==
    ASSUME NEW A, NEW marks, NEW s \in Seq(A), NEW t \in Seq(A), NEW x \in A,
           NEW r \in Seq(A), NEW u \in Seq(A), NEW y \in A,
           Unmarked(marks, t), Marked(marks, r),
           (s \o t) \o <<x>> = (r \o u) \o <<y>>
    PROVE  Len(r) <= Len(s)
<1> DEFINE a == (s \o t) \o <<x>>
           b == (r \o u) \o <<y>>
<1>1. /\ Len(s) \in Nat /\ Len(t) \in Nat /\ Len(r) \in Nat /\ Len(u) \in Nat
      /\ Len(a) = Len(s) + Len(t) + 1 /\ Len(b) = Len(r) + Len(u) + 1
  OBVIOUS
<1>2. /\ \A i \in 1..Len(t) : a[Len(s) + i] = t[i]
      /\ \A i \in 1..Len(r) : b[i] = r[i]
  OBVIOUS
<1>3. a = b  OBVIOUS
<1> HIDE DEF a, b
<1>4. Len(s) + Len(t) = Len(r) + Len(u)  BY <1>1, <1>3
<1> SUFFICES ASSUME Len(r) > Len(s) PROVE FALSE  BY <1>1
<1>5. Len(r) - Len(s) \in 1..Len(t) /\ Len(s) + (Len(r) - Len(s)) = Len(r) /\ Len(r) \in 1..Len(r)
  BY <1>1, <1>4
<1>6. a[Len(r)] = t[Len(r) - Len(s)] /\ b[Len(r)] = r[Len(r)]
    <2> DEFINE i == Len(r) - Len(s)
    <2>1. i \in 1..Len(t) /\ Len(s) + i = Len(r)  BY <1>5
    <2> HIDE DEF i
    <2>2. a[Len(r)] = t[i]  BY <1>2, <2>1
    <2> QED  BY <1>2, <1>5, <2>2 DEF i
<1>7. r # <<>>  BY <1>1
<1> QED  BY <1>3, <1>5, <1>6, <1>7 DEF Marked, Unmarked

LEMMA LastBlock ==
    ASSUME NEW A, NEW marks, NEW s \in Seq(A), NEW t \in Seq(A), NEW x \in A,
           NEW r \in Seq(A), NEW u \in Seq(A), NEW y \in A,
           Unmarked(marks, t), Unmarked(marks, u), Marked(marks, s), Marked(marks, r),
           (s \o t) \o <<x>> = (r \o u) \o <<y>>
    PROVE  s = r /\ t = u /\ x = y
<1> DEFINE a == (s \o t) \o <<x>>
           b == (r \o u) \o <<y>>
<1>1. Len(s) \in Nat /\ Len(r) \in Nat /\ Len(t) \in Nat /\ Len(u) \in Nat  OBVIOUS
<1>2. Len(s) = Len(r)
    <2>1. Len(r) <= Len(s)  BY LastMark
    <2>2. Len(s) <= Len(r)  BY LastMark
    <2> QED  BY <1>1, <2>1, <2>2
<1>3. /\ Len(a) = Len(s) + Len(t) + 1 /\ Len(b) = Len(r) + Len(u) + 1
      /\ \A i \in 1..Len(s) : a[i] = s[i]
      /\ \A i \in 1..Len(r) : b[i] = r[i]
      /\ \A i \in 1..Len(t) : a[Len(s) + i] = t[i]
      /\ \A i \in 1..Len(u) : b[Len(r) + i] = u[i]
      /\ a[Len(s) + Len(t) + 1] = x /\ b[Len(r) + Len(u) + 1] = y
  OBVIOUS
<1>4. a = b  OBVIOUS
<1> HIDE DEF a, b
<1>5. Len(t) = Len(u)  BY <1>1, <1>2, <1>3, <1>4
<1>6. s = r
    <2>1. \A i \in 1..Len(s) : s[i] = r[i]  BY <1>2, <1>3, <1>4
    <2> QED  BY <1>2, <2>1, SeqEqual
<1>7. t = u
    <2>1. \A i \in 1..Len(t) : t[i] = u[i]  BY <1>2, <1>3, <1>4, <1>5
    <2> QED  BY <1>5, <2>1, SeqEqual
<1> QED  BY <1>2, <1>3, <1>4, <1>5, <1>6, <1>7

(* F[k] is the first k texts t, each followed by its mark x. *)
Blocks(A, marks, n, t, x, F) ==
    /\ F \in [0..n -> Seq(A)] /\ F[0] = <<>>
    /\ \A k \in 1..n : /\ t[k] \in Seq(A) /\ Unmarked(marks, t[k])
                       /\ x[k] \in A /\ x[k] \in marks
                       /\ F[k] = F[k - 1] \o (t[k] \o <<x[k]>>)

(* Texts and marks can be read off them. *)
LEMMA BlocksTell ==
    ASSUME NEW A, NEW marks, NEW n \in Nat, NEW t, NEW x, NEW F, Blocks(A, marks, n, t, x, F),
           NEW m \in Nat, NEW u, NEW y, NEW G, Blocks(A, marks, m, u, y, G),
           F[n] = G[m]
    PROVE  n = m /\ \A k \in 1..n : t[k] = u[k] /\ x[k] = y[k]
<1> DEFINE Told(i, j) == i = j /\ \A k \in 1..i : t[k] = u[k] /\ x[k] = y[k]
           N == {i \in Nat : i <= n => \A j \in 0..m : F[i] = G[j] => Told(i, j)}
           L == Seq(A)
<1>1. /\ \A k \in 1..n : /\ F[k] = (F[k - 1] \o t[k]) \o <<x[k]>>
                         /\ F[k - 1] \in L /\ t[k] \in L /\ x[k] \in A
                         /\ Unmarked(marks, t[k])
                         /\ Len(F[k]) > 0 /\ F[k][Len(F[k])] = x[k] /\ x[k] \in marks
      /\ \A k \in 1..m : /\ G[k] = (G[k - 1] \o u[k]) \o <<y[k]>>
                         /\ G[k - 1] \in L /\ u[k] \in L /\ y[k] \in A
                         /\ Unmarked(marks, u[k])
                         /\ Len(G[k]) > 0 /\ G[k][Len(G[k])] = y[k] /\ y[k] \in marks
    <2>1. \A s \in Seq(A), w \in Seq(A), z \in A :
              /\ s \o (w \o <<z>>) = (s \o w) \o <<z>>
              /\ Len((s \o w) \o <<z>>) > 0
              /\ ((s \o w) \o <<z>>)[Len((s \o w) \o <<z>>)] = z
        OBVIOUS
    <2>2. /\ \A k \in 1..n : F[k - 1] \in Seq(A)
          /\ \A k \in 1..m : G[k - 1] \in Seq(A)
        <3> DEFINE S == Seq(A)
        <3>1. F \in [0..n -> S] /\ G \in [0..m -> S]  BY DEF Blocks
        <3> HIDE DEF S
        <3>2. (\A k \in 1..n : F[k - 1] \in S) /\ (\A k \in 1..m : G[k - 1] \in S)  BY <3>1
        <3> QED  BY <3>2 DEF S
    <2>3. ASSUME NEW k \in 1..n
          PROVE  /\ F[k] = (F[k - 1] \o t[k]) \o <<x[k]>>
                 /\ F[k - 1] \in L /\ t[k] \in L /\ x[k] \in A
                 /\ Unmarked(marks, t[k])
                 /\ Len(F[k]) > 0 /\ F[k][Len(F[k])] = x[k] /\ x[k] \in marks
        <3>1. /\ t[k] \in Seq(A) /\ x[k] \in A /\ x[k] \in marks /\ Unmarked(marks, t[k])
              /\ F[k] = F[k - 1] \o (t[k] \o <<x[k]>>)
            BY DEF Blocks
        <3> DEFINE s == F[k - 1]  w == t[k]  z == x[k]
        <3>2. s \in Seq(A) /\ w \in Seq(A) /\ z \in A /\ F[k] = s \o (w \o <<z>>)
            BY <2>2, <3>1
        <3> HIDE DEF s, w, z
        <3>3. F[k] = (s \o w) \o <<z>> /\ Len(F[k]) > 0 /\ F[k][Len(F[k])] = z
            BY <2>1, <3>2
        <3> QED  BY <3>1, <3>2, <3>3 DEF s, w, z
    <2>4. ASSUME NEW k \in 1..m
          PROVE  /\ G[k] = (G[k - 1] \o u[k]) \o <<y[k]>>
                 /\ G[k - 1] \in L /\ u[k] \in L /\ y[k] \in A
                 /\ Unmarked(marks, u[k])
                 /\ Len(G[k]) > 0 /\ G[k][Len(G[k])] = y[k] /\ y[k] \in marks
        <3>1. /\ u[k] \in Seq(A) /\ y[k] \in A /\ y[k] \in marks /\ Unmarked(marks, u[k])
              /\ G[k] = G[k - 1] \o (u[k] \o <<y[k]>>)
            BY DEF Blocks
        <3> DEFINE s == G[k - 1]  w == u[k]  z == y[k]
        <3>2. s \in Seq(A) /\ w \in Seq(A) /\ z \in A /\ G[k] = s \o (w \o <<z>>)
            BY <2>2, <3>1
        <3> HIDE DEF s, w, z
        <3>3. G[k] = (s \o w) \o <<z>> /\ Len(G[k]) > 0 /\ G[k][Len(G[k])] = z
            BY <2>1, <3>2
        <3> QED  BY <3>1, <3>2, <3>3 DEF s, w, z
    <2> QED  BY <2>3, <2>4
<1>2. F[0] = <<>> /\ G[0] = <<>>  BY DEF Blocks
<1>3. /\ \A k \in 0..n : Marked(marks, F[k])
      /\ \A k \in 0..m : Marked(marks, G[k])
    <2>1. (\A k \in 0..n : k = 0 \/ k \in 1..n) /\ (\A k \in 0..m : k = 0 \/ k \in 1..m)
        OBVIOUS
    <2> QED  BY <1>1, <1>2, <2>1 DEF Marked
<1> HIDE DEF L
<1>4. 0 \in N
    <2>1. ASSUME NEW j \in 0..m, F[0] = G[j] PROVE j = 0
        <3>1. Len(G[j]) = 0  BY <1>2, <2>1
        <3>2. j = 0 \/ j \in 1..m  OBVIOUS
        <3>3. j \in 1..m => Len(G[j]) > 0  BY <1>1
        <3> QED  BY <3>1, <3>2, <3>3
    <2> QED  BY <2>1
<1>5. ASSUME NEW i \in N PROVE i + 1 \in N
    <2> SUFFICES ASSUME i + 1 <= n, NEW j \in 0..m, F[i + 1] = G[j] PROVE Told(i + 1, j)
        OBVIOUS
    <2>0. i \in 0..n /\ i + 1 \in 1..n /\ (i + 1) - 1 = i  OBVIOUS
    <2>1. j # 0
        <3>1. Len(F[i + 1]) > 0  BY <1>1, <2>0
        <3>2. Len(G[0]) = 0  BY <1>2
        <3> QED  BY <3>1, <3>2
    <2>2. j \in 1..m /\ j - 1 \in 0..m  BY <2>1
    <2>3. F[i] = G[j - 1] /\ t[i + 1] = u[j] /\ x[i + 1] = y[j]
        <3>1. /\ F[i + 1] = (F[i] \o t[i + 1]) \o <<x[i + 1]>>
              /\ F[i] \in Seq(A) /\ t[i + 1] \in Seq(A) /\ x[i + 1] \in A
              /\ Unmarked(marks, t[i + 1]) /\ Marked(marks, F[i])
            BY <1>1, <1>3, <2>0 DEF L
        <3>2. /\ G[j] = (G[j - 1] \o u[j]) \o <<y[j]>>
              /\ G[j - 1] \in Seq(A) /\ u[j] \in Seq(A) /\ y[j] \in A
              /\ Unmarked(marks, u[j]) /\ Marked(marks, G[j - 1])
            BY <1>1, <1>3, <2>2 DEF L
        <3>3. (F[i] \o t[i + 1]) \o <<x[i + 1]>> = (G[j - 1] \o u[j]) \o <<y[j]>>
            BY <3>1, <3>2
        <3> DEFINE s == F[i]  r == G[j - 1]  v == t[i + 1]  w == u[j]  p == x[i + 1]  q == y[j]
        <3>4. /\ s \in Seq(A) /\ r \in Seq(A) /\ v \in Seq(A) /\ w \in Seq(A) /\ p \in A /\ q \in A
              /\ Unmarked(marks, v) /\ Unmarked(marks, w) /\ Marked(marks, s) /\ Marked(marks, r)
              /\ (s \o v) \o <<p>> = (r \o w) \o <<q>>
            BY <3>1, <3>2, <3>3
        <3> HIDE DEF s, r, v, w, p, q
        <3>5. s = r /\ v = w /\ p = q  BY <3>4, LastBlock
        <3> QED  BY <3>5 DEF s, r, v, w, p, q
    <2>4. Told(i, j - 1)  BY <2>0, <2>2, <2>3
    <2>5. i + 1 = j  BY <2>2, <2>4
    <2>6. \A k \in 1..(i + 1) : k \in 1..i \/ k = i + 1  OBVIOUS
    <2> QED  BY <2>3, <2>4, <2>5, <2>6
<1>6. N = Nat
    <2>1. N \in SUBSET Nat  OBVIOUS
    <2> HIDE DEF N
    <2> QED  BY <1>4, <1>5, <2>1, SetInduction
<1>7. n \in N /\ m \in 0..m /\ n <= n  BY <1>6
<1>8. Told(n, m)  BY <1>7
<1> QED  BY <1>8
-----------------------------------------------------------------------------
(* How many of some places come no later than the k-th. *)
Rank(places, k) == Cardinality({j \in places : j <= k})

LEMMA RankByStep ==
    ASSUME NEW n \in Nat, NEW places \in SUBSET (1..n)
    PROVE  /\ Rank(places, 0) = 0 /\ Rank(places, n) = Cardinality(places)
           /\ \A k \in 0..n : Rank(places, k) \in Nat
           /\ \A k \in 1..n : Rank(places, k)
                  = IF k \in places THEN Rank(places, k - 1) + 1 ELSE Rank(places, k - 1)
<1> DEFINE upto(k) == {j \in places : j <= k}
<1>1. \A k \in Int : IsFiniteSet(upto(k)) /\ Cardinality(upto(k)) \in Nat
    <2>1. IsFiniteSet(1..n)  BY FS_Interval
    <2>2. \A k \in Int : upto(k) \subseteq 1..n  OBVIOUS
    <2> HIDE DEF upto
    <2> QED  BY <2>1, <2>2, FS_Subset, FS_CardinalityType
<1>0. \A j \in places : j \in Int /\ 1 <= j /\ j <= n  OBVIOUS
<1>2. upto(0) = {} /\ upto(n) = places
    <2>1. \A j \in places : ~ (j <= 0)  BY <1>0
    <2> QED  BY <1>0, <2>1
<1>3. Cardinality(upto(0)) = 0  BY <1>2, FS_EmptySet
<1>4. ASSUME NEW k \in 1..n
      PROVE  Cardinality(upto(k)) = IF k \in places THEN Cardinality(upto(k - 1)) + 1
                                    ELSE Cardinality(upto(k - 1))
    <2>1. CASE k \in places
        <3>1. upto(k) = upto(k - 1) \cup {k} /\ k \notin upto(k - 1)
            <4>1. \A j \in places : j <= k <=> j <= k - 1 \/ j = k  BY <1>0
            <4>2. ~ (k <= k - 1)  OBVIOUS
            <4> QED  BY <2>1, <4>1, <4>2
        <3> HIDE DEF upto
        <3>2. IsFiniteSet(upto(k - 1)) /\ Cardinality(upto(k - 1)) \in Nat
            <4>1. k - 1 \in Int  OBVIOUS
            <4> QED  BY <1>1, <4>1
        <3> QED  BY <2>1, <3>1, <3>2, FS_AddElement
    <2>2. CASE k \notin places
        <3>1. \A j \in places : j <= k <=> j <= k - 1  BY <1>0, <2>2
        <3>2. upto(k) = upto(k - 1)  BY <3>1
        <3> HIDE DEF upto
        <3> QED  BY <2>2, <3>2
    <2> QED  BY <2>1, <2>2
<1>5. \A k : Rank(places, k) = Cardinality(upto(k))  BY DEF Rank
<1> HIDE DEF upto
<1>6. \A k \in 0..n : k \in Int  OBVIOUS
<1> QED  BY <1>1, <1>2, <1>3, <1>4, <1>5, <1>6

(* Pieces of one element or none: what is left are the elements, each at   *)
(* its rank.                                                               *)
Pieces(seqs, places, v, A) ==
    /\ \A k \in places : v[k] \in A
    /\ \A k \in 1..Len(seqs) : seqs[k] = IF k \in places THEN <<v[k]>> ELSE <<>>

AtRanks(w, v, places) ==
    /\ Len(w) = Cardinality(places)
    /\ \A k \in places : w[Rank(places, k)] = v[k]

LEMMA FlattenedPlaces ==
    ASSUME NEW A, NEW seqs, NEW places, NEW v, Pieces(seqs, places, v, A),
           seqs \in Seq(Seq(A)), Len(seqs) \in Nat, places \in SUBSET (1..Len(seqs))
    PROVE  FlattenSeq(seqs) \in Seq(A) /\ AtRanks(FlattenSeq(seqs), v, places)
<1> DEFINE n == Len(seqs)
<1>0. /\ \A k \in places : v[k] \in A
      /\ \A k \in 1..n : seqs[k] = IF k \in places THEN <<v[k]>> ELSE <<>>
    BY DEF Pieces
<1>1. PICK F \in [0..n -> Seq(A)] :
          /\ F[0] = <<>> /\ F[n] = FlattenSeq(seqs)
          /\ \A k \in 1..n : F[k] = F[k - 1] \o seqs[k]
    BY FlattenBySequence
<1>2. /\ Rank(places, 0) = 0 /\ Rank(places, n) = Cardinality(places)
      /\ \A k \in 0..n : Rank(places, k) \in Nat
      /\ \A k \in 1..n : Rank(places, k)
             = IF k \in places THEN Rank(places, k - 1) + 1 ELSE Rank(places, k - 1)
    BY RankByStep
<1> DEFINE Good(k) == /\ Len(F[k]) = Rank(places, k)
                      /\ \A j \in places : j <= k =>
                            Rank(places, j) \in 1..Len(F[k]) /\ F[k][Rank(places, j)] = v[j]
           N == {k \in Nat : k <= n => Good(k)}
<1>3. 0 \in N
    <2>1. Len(F[0]) = 0  BY <1>1
    <2> QED  BY <1>2, <2>1
<1>4. ASSUME NEW m \in N PROVE m + 1 \in N
    <2> SUFFICES ASSUME m + 1 <= n PROVE Good(m + 1)  OBVIOUS
    <2>1. /\ m \in Nat /\ m + 1 \in 1..n /\ (m + 1) - 1 = m /\ m \in 0..n  OBVIOUS
    <2>2. Good(m)  BY <2>1
    <2>3. F[m] \in Seq(A) /\ F[m + 1] = F[m] \o seqs[m + 1]  BY <1>1, <2>1
    <2>4. CASE m + 1 \in places
        <3>1. F[m + 1] = Append(F[m], v[m + 1]) /\ v[m + 1] \in A
            <4>1. F[m + 1] = F[m] \o <<v[m + 1]>>  BY <1>0, <2>1, <2>3, <2>4
            <4>2. v[m + 1] \in A  BY <1>0, <2>4
            <4>3. \A s \in Seq(A), x \in A : s \o <<x>> = Append(s, x)  OBVIOUS
            <4> QED  BY <2>3, <4>1, <4>2, <4>3
        <3>2. /\ Len(F[m + 1]) = Len(F[m]) + 1 /\ F[m + 1][Len(F[m]) + 1] = v[m + 1]
              /\ \A i \in 1..Len(F[m]) : F[m + 1][i] = F[m][i]
              /\ Len(F[m]) \in Nat
            BY <2>3, <3>1
        <3>3. Rank(places, m + 1) = Rank(places, m) + 1  BY <1>2, <2>1, <2>4
        <3>4. ASSUME NEW j \in places, j <= m + 1
              PROVE  /\ Rank(places, j) \in 1..Len(F[m + 1])
                     /\ F[m + 1][Rank(places, j)] = v[j]
            <4>1. CASE j <= m
                <5>1. Rank(places, j) \in 1..Len(F[m]) /\ F[m][Rank(places, j)] = v[j]
                    BY <2>2, <4>1
                <5> QED  BY <3>2, <5>1
            <4>2. CASE j = m + 1
                <5>1. Rank(places, j) = Len(F[m]) + 1  BY <2>2, <3>3, <4>2
                <5> QED  BY <3>2, <4>2, <5>1
            <4>3. j \in Int  OBVIOUS
            <4> QED  BY <2>1, <3>4, <4>1, <4>2, <4>3
        <3> QED  BY <2>2, <3>2, <3>3, <3>4
    <2>5. CASE m + 1 \notin places
        <3>1. F[m + 1] = F[m]
            <4>1. F[m + 1] = F[m] \o <<>>  BY <1>0, <2>1, <2>3, <2>5
            <4>2. \A s \in Seq(A) : s \o <<>> = s  OBVIOUS
            <4> QED  BY <2>3, <4>1, <4>2
        <3>2. Rank(places, m + 1) = Rank(places, m)  BY <1>2, <2>1, <2>5
        <3>3. \A j \in places : j <= m + 1 => j <= m  BY <2>5
        <3> QED  BY <2>2, <3>1, <3>2, <3>3
    <2> QED  BY <2>4, <2>5
<1> HIDE DEF N
<1>5. N = Nat
    <2>1. N \in SUBSET Nat  BY DEF N
    <2> QED  BY <1>3, <1>4, <2>1, SetInduction
<1>6. Good(n)  BY <1>5 DEF N
<1>7. F[n] \in Seq(A)  BY <1>1
<1>8. \A k \in places : k <= n  OBVIOUS
<1> QED  BY <1>1, <1>2, <1>6, <1>7, <1>8 DEF AtRanks
=============================================================================
