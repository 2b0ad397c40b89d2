--------------------------- MODULE RowLocalProofs ---------------------------
(***************************************************************************)
(* What is done row by row.  First the row-local operations of spark.py,   *)
(* for every DataFrame, every way of cutting it into batches, every hash   *)
(* function, every width of a hash and every set of cleanup rules: what an *)
(* executor yields is, batch by batch, what the job makes of the batch,    *)
(* and nothing of another batch or another row.  The presets leave of a    *)
(* text, whatever its length, what is said of them.  Then normalize_json,  *)
(* for every schema and any number of texts: a cell depends on its row.    *)
(***************************************************************************)
EXTENDS RowLocal, NormalizeJson, FoldLemmas

(* The signed hash of a row. *)
RowHash(r) == BitsAsSigned(hash[HashedCells(job, r)])

(* What becomes of the rows of a batch. *)
HashedRows(rows) == [i \in 1..Len(rows) |-> Append(rows[i], RowHash(rows[i]))]

CleanedCells(rows) ==
    LET c == ColumnAt(job.fields, job.columns[1])
    IN  ApplyRules(job.cleaning, [i \in 1..Len(rows) |-> rows[i][c]])

CleanedRows(rows) ==
    LET c == ColumnAt(job.fields, job.columns[1])
        cleaned == CleanedCells(rows)
    IN  IF InPlace(job)
        THEN [i \in 1..Len(cleaned) |-> [rows[i] EXCEPT ![c] = cleaned[i]]]
        ELSE [i \in 1..Len(cleaned) |-> Append(rows[i], cleaned[i])]

OutRows(rows) == IF job.op = "hash_rows" THEN HashedRows(rows) ELSE CleanedRows(rows)

(* A batch that can be worked on at all; it does not depend on its rows. *)
Workable ==
    /\ KnownVersion(job)
    /\ IF job.op = "hash_rows" THEN Hashable(job)
       ELSE /\ job.fields[ColumnAt(job.fields, job.columns[1])].type = "string"
            /\ job.cleaning # Invalid

IInv ==
    /\ job \in Jobs /\ hash \in [Tuples(job) -> Hashes]
    /\ declared = OutSchema(job)
    /\ next \in 0..Len(job.batches)
    /\ IsSequence(yielded) /\ Len(yielded) = next
    /\ yielded # <<>> => Workable
    /\ \A b \in 1..next :
          yielded[b] = [fields |-> OutFields(job), rows |-> OutRows(job.batches[b])]
    /\ status \in {"running", "done"} \cup Exceptions

-----------------------------------------------------------------------------
(* A sequence with one element more is a sequence, the same before it. *)
LEMMA Appended ==
    ASSUME NEW s, IsSequence(s), NEW x
    PROVE  /\ IsSequence(Append(s, x))
           /\ Len(Append(s, x)) = Len(s) + 1 /\ Len(s) \in Nat
           /\ Append(s, x)[Len(s) + 1] = x
           /\ \A k \in 1..Len(s) : Append(s, x)[k] = s[k]
<1> DEFINE S == ToSet(s) \cup {x}
           t == Append(s, x)
<1>1. s \in Seq(ToSet(s))
  BY DEF IsSequence
<1>2. s \in Seq(S) /\ x \in S
  BY <1>1
<1>3. /\ t \in Seq(S) /\ Len(t) = Len(s) + 1 /\ Len(s) \in Nat /\ t[Len(s) + 1] = x
      /\ \A k \in 1..Len(s) : t[k] = s[k]
  <2> HIDE DEF S
  <2> QED BY <1>2
<1>4. IsSequence(t)
  <2> HIDE DEF t, S
  <2>1. \A k \in 1..Len(t) : t[k] \in ToSet(t)
    BY <1>3 DEF ToSet
  <2>2. t \in Seq(ToSet(t))
    BY <1>3, <2>1
  <2> QED BY <2>2 DEF IsSequence
<1> QED BY <1>3, <1>4

(* What a batch makes depends on the job and the hashes only. *)
LEMMA SameJob ==
    ASSUME job' = job, hash' = hash
    PROVE  (Workable' <=> Workable) /\ \A rows : OutRows(rows)' = OutRows(rows)
BY DEF Workable, KnownVersion, OutRows, HashedRows, RowHash, CleanedRows, CleanedCells

(* A step that yields nothing: the end, a failure. *)
LEMMA NothingYielded ==
    ASSUME IInv, UNCHANGED <<job, hash, declared, next, yielded>>,
           status' \in {"running", "done"} \cup Exceptions
    PROVE  IInv'
<1>1. job' = job /\ hash' = hash /\ declared' = declared /\ next' = next /\ yielded' = yielded
  OBVIOUS
<1>2. (Workable' <=> Workable) /\ \A rows : OutRows(rows)' = OutRows(rows)
  BY <1>1, SameJob
<1>3. \A b \in 1..next :
          yielded[b] = [fields |-> OutFields(job), rows |-> OutRows(job.batches[b])]
  BY DEF IInv
<1>4. (\A b \in 1..next :
          yielded[b] = [fields |-> OutFields(job), rows |-> OutRows(job.batches[b])])'
  BY <1>1, <1>2, <1>3
<1> QED BY <1>1, <1>2, <1>4 DEF IInv

(* A batch is yielded. *)
LEMMA YieldIInv ==
    ASSUME IInv, More, Workable, Yield(OutRows(batch))
    PROVE  IInv'
<1> DEFINE item == [fields |-> OutFields(job), rows |-> OutRows(batch)]
<1>1. /\ job' = job /\ hash' = hash /\ declared' = declared /\ status' = status
      /\ next' = next + 1 /\ yielded' = Append(yielded, item)
      /\ next \in Nat /\ next < Len(job.batches) /\ Len(job.batches) \in Nat
      /\ batch = job.batches[next + 1]
  <2>1. IsSequence(job.batches)
    BY RowLocalAssumption DEF IInv, JobsOfRows
  <2> QED BY <2>1 DEF IInv, Yield, More, batch, IsSequence
<1> HIDE DEF item
<1>2. /\ IsSequence(yielded') /\ Len(yielded') = next + 1
      /\ yielded'[next + 1] = item /\ \A k \in 1..next : yielded'[k] = yielded[k]
  BY <1>1, Appended DEF IInv
<1>3. Workable'
  BY <1>1, SameJob
<1>4. \A rows : OutRows(rows)' = OutRows(rows)
  BY <1>1, SameJob
<1>5. ASSUME NEW b \in 1..(next + 1)
      PROVE  yielded'[b] = [fields |-> OutFields(job), rows |-> OutRows(job.batches[b])]
  <2>1. CASE b \in 1..next
    BY <1>2, <2>1 DEF IInv
  <2>2. CASE b = next + 1
    BY <1>1, <1>2, <2>2 DEF item
  <2>3. b \in 1..next \/ b = next + 1
    BY <1>1
  <2> QED BY <2>1, <2>2, <2>3
<1> QED BY <1>1, <1>2, <1>3, <1>4, <1>5 DEF IInv

LEMMA HashRowsIInv == ASSUME IInv, HashRows PROVE IInv'
<1>1. CASE KnownVersion(job) /\ Hashable(job)
  <2>1. More /\ Workable /\ job.op = "hash_rows"
    BY <1>1 DEF HashRows, Workable
  <2>2. Yield(OutRows(batch))
    BY <1>1 DEF HashRows, OutRows, HashedRows, RowHash
  <2> QED BY <2>1, <2>2, YieldIInv
<1>2. CASE ~ (KnownVersion(job) /\ Hashable(job))
  <2>1. Fail("RuntimeError") \/ Fail("ValueError")
    BY <1>2 DEF HashRows
  <2> QED BY <2>1, NothingYielded DEF Fail, Exceptions
<1> QED BY <1>1, <1>2

LEMMA CleanRowsIInv == ASSUME IInv, CleanRows PROVE IInv'
<1> DEFINE c == ColumnAt(job.fields, job.columns[1])
           cleaned == CleanedCells(batch)
<1>1. /\ More /\ job.op # "hash_rows"
      /\ IF ~ KnownVersion(job) THEN Fail("ValueError")
         ELSE IF job.fields[c].type # "string" THEN Fail("PanicException")
         ELSE IF job.cleaning = Invalid THEN Fail("ValueError")
         ELSE IF InPlace(job)
         THEN Yield([i \in 1..Len(cleaned) |-> [batch[i] EXCEPT ![c] = cleaned[i]]])
         ELSE Yield([i \in 1..Len(cleaned) |-> Append(batch[i], cleaned[i])])
  BY DEF CleanRows, CleanedCells
<1>2. CASE Workable
  <2>1. Yield(OutRows(batch))
    BY <1>1, <1>2 DEF Workable, OutRows, CleanedRows
  <2> QED BY <1>1, <1>2, <2>1, YieldIInv
<1>3. CASE ~ Workable
  <2>1. Fail("PanicException") \/ Fail("ValueError")
    BY <1>1, <1>3 DEF Workable
  <2> QED BY <2>1, NothingYielded DEF Fail, Exceptions
<1> QED BY <1>2, <1>3

LEMMA SpecIInv == Spec => []IInv
<1>1. Init => IInv
  <2> SUFFICES ASSUME Init PROVE IInv
    OBVIOUS
  <2>1. IsSequence(job.batches)
    BY RowLocalAssumption DEF Init, JobsOfRows
  <2>2. IsSequence(<<>>)
    BY DEF IsSequence
  <2> QED BY <2>1, <2>2 DEF Init, IInv, IsSequence
<1>2. IInv /\ [Next]_vars => IInv'
  <2> SUFFICES ASSUME IInv, [Next]_vars PROVE IInv'
    OBVIOUS
  <2>1. CASE HashRows
    BY <2>1, HashRowsIInv
  <2>2. CASE CleanRows
    BY <2>2, CleanRowsIInv
  <2>3. CASE Exhausted \/ Ended \/ UNCHANGED vars
    <3>1. status \in {"running", "done"} \cup Exceptions
      BY DEF IInv
    <3> QED BY <2>3, <3>1, NothingYielded DEF Exhausted, Ended, vars
  <2> QED BY <2>1, <2>2, <2>3 DEF Next
<1> QED BY <1>1, <1>2, PTL DEF Spec

-----------------------------------------------------------------------------
(* Every variable of a row-local operation keeps its type. *)
THEOREM RowLocalTypeOK == Spec => []TypeOK
<1>1. IInv => TypeOK
  BY DEF IInv, TypeOK
<1> QED BY <1>1, SpecIInv, PTL

(* Another cell in one place of a sequence. *)
LEMMA Replaced ==
    ASSUME NEW s, IsSequence(s), NEW c, NEW x
    PROVE  LET t == [s EXCEPT ![c] = x]
           IN  /\ Len(t) = Len(s)
               /\ c \in 1..Len(s) => t[c] = x
               /\ \A k \in 1..Len(s) : k # c => t[k] = s[k]
<1> DEFINE S == ToSet(s) \cup {x}
           t == [s EXCEPT ![c] = x]
<1>1. s \in Seq(S) /\ x \in S
  BY DEF IsSequence
<1> HIDE DEF S
<1>2. t = [k \in 1..Len(s) |-> IF k = c THEN x ELSE s[k]]
  <2>1. DOMAIN s = 1..Len(s)
    BY <1>1
  <2> QED BY <2>1, Zenon
<1>3. DOMAIN t = DOMAIN s /\ DOMAIN s = 1..Len(s) /\ Len(s) \in Nat
  BY <1>1
<1>4. Len(t) = Len(s)
  <2> QED BY <1>2, <1>3
<1>5. /\ c \in 1..Len(s) => t[c] = x
      /\ \A k \in 1..Len(s) : k # c => t[k] = s[k]
  BY <1>1, <1>3
<1> QED BY <1>4, <1>5

(* The batches, with a cell of every field in every row. *)
LEMMA Batches ==
    ASSUME IInv, NEW b \in 1..Len(job.batches)
    PROVE  /\ IsSequence(job.fields) /\ IsSequence(job.batches[b])
           /\ Len(job.batches[b]) \in Nat
           /\ \A i \in 1..Len(job.batches[b]) :
                 /\ IsSequence(job.batches[b][i])
                 /\ Len(job.batches[b][i]) = Len(job.fields)
<1>1. IsSequence(job.batches) /\ job \in Jobs
  BY RowLocalAssumption DEF IInv, JobsOfRows
<1>2. b \in DOMAIN job.batches
  BY <1>1 DEF IsSequence
<1>3. IsSequence(job.batches[b]) /\ IsSequence(job.fields)
  BY <1>1, <1>2, RowLocalAssumption DEF JobsOfRows
<1>4. DOMAIN job.batches[b] = 1..Len(job.batches[b]) /\ Len(job.batches[b]) \in Nat
  BY <1>3 DEF IsSequence
<1> QED BY <1>1, <1>2, <1>3, <1>4, RowLocalAssumption DEF JobsOfRows

(* The cleaned cell of a row. *)
CleanedCell(r) ==
    LET cell == r[ColumnAt(job.fields, job.columns[1])]
    IN  IF cell = Null THEN Null ELSE Apply(job.cleaning, cell)

(* The row a row becomes: its cells, and one more or one other. *)
OutRow(r) ==
    IF job.op = "hash_rows" THEN Append(r, RowHash(r))
    ELSE IF InPlace(job)
    THEN [r EXCEPT ![ColumnAt(job.fields, job.columns[1])] = CleanedCell(r)]
    ELSE Append(r, CleanedCell(r))

LEMMA RowByRow ==
    ASSUME IInv, NEW b \in 1..Len(job.batches)
    PROVE  LET rows == job.batches[b]
           IN  OutRows(rows) = [i \in 1..Len(rows) |-> OutRow(rows[i])]
<1> DEFINE rows == job.batches[b]
           c == ColumnAt(job.fields, job.columns[1])
           column == [i \in 1..Len(rows) |-> rows[i][c]]
<1>1. Len(rows) \in Nat
  BY Batches
<1>2. CASE job.op = "hash_rows"
  BY <1>2 DEF OutRows, HashedRows, OutRow
<1>3. CASE job.op # "hash_rows"
  <2>1. /\ Len(column) = Len(rows)
        /\ \A i \in 1..Len(rows) : column[i] = rows[i][c]
    <3> HIDE DEF rows, c
    <3> QED BY <1>1
  <2>2. CleanedCells(rows) = [i \in 1..Len(column) |->
                                 IF column[i] = Null THEN Null ELSE Apply(job.cleaning,
                                     column[i])]
    BY DEF CleanedCells, ApplyRules
  <2>3. CleanedCells(rows) = [i \in 1..Len(rows) |-> CleanedCell(rows[i])]
    <3>1. \A i \in 1..Len(rows) :
              (IF column[i] = Null THEN Null ELSE Apply(job.cleaning, column[i]))
                  = CleanedCell(rows[i])
      <4> HIDE DEF column
      <4> QED BY <2>1 DEF CleanedCell
    <3> HIDE DEF rows, column
    <3> QED BY <2>1, <2>2, <3>1
  <2>4. /\ Len(CleanedCells(rows)) = Len(rows)
        /\ \A i \in 1..Len(rows) : CleanedCells(rows)[i] = CleanedCell(rows[i])
    <3> HIDE DEF rows
    <3> QED BY <1>1, <2>3
  <2>5. CleanedRows(rows) =
            IF InPlace(job)
            THEN [i \in 1..Len(rows) |-> [rows[i] EXCEPT ![c] = CleanedCell(rows[i])]]
            ELSE [i \in 1..Len(rows) |-> Append(rows[i], CleanedCell(rows[i]))]
    <3> HIDE DEF rows
    <3> QED BY <2>4 DEF CleanedRows
  <2> QED BY <1>3, <2>5 DEF OutRows, OutRow
<1> QED BY <1>2, <1>3

(* The batches yielded, row by row. *)
LEMMA Yielded ==
    ASSUME IInv, NEW b \in 1..Len(yielded)
    PROVE  /\ b \in 1..Len(job.batches) /\ Workable
           /\ yielded[b].fields = OutFields(job)
           /\ Len(yielded[b].rows) = Len(job.batches[b])
           /\ \A i \in 1..Len(job.batches[b]) :
                 yielded[b].rows[i] = OutRow(job.batches[b][i])
<1>1. Len(yielded) = next /\ next \in Nat /\ Len(job.batches) \in Nat /\ next <= Len(job.batches)
  <2>1. IsSequence(job.batches)
    BY RowLocalAssumption DEF IInv, JobsOfRows
  <2> QED BY <2>1 DEF IInv, IsSequence
<1>2. b \in 1..next /\ b \in 1..Len(job.batches)
  BY <1>1
<1>3. yielded[b].fields = OutFields(job) /\ yielded[b].rows = OutRows(job.batches[b])
  BY <1>2 DEF IInv
<1>4. yielded[b].rows = [i \in 1..Len(job.batches[b]) |-> OutRow(job.batches[b][i])]
  BY <1>2, <1>3, RowByRow
<1>5. Len(job.batches[b]) \in Nat
  BY <1>2, Batches
<1>6. Workable
  <2>1. yielded # <<>>
    BY <1>1, <1>2
  <2> QED BY <2>1 DEF IInv
<1> QED BY <1>2, <1>3, <1>4, <1>5, <1>6

-----------------------------------------------------------------------------
(* The driver and the executors put the same schema together, each in code *)
(* of its own, and every row yielded has a cell for each of its fields.    *)
THEOREM YieldedAsDeclared == Spec => []DeclaredIsYielded
<1>1. IInv => DeclaredIsYielded
  <2> SUFFICES ASSUME IInv, NEW b \in 1..Len(yielded)
               PROVE  /\ yielded[b].fields = declared
                      /\ \A i \in 1..Len(yielded[b].rows) :
                            Len(yielded[b].rows[i]) = Len(declared)
    BY DEF DeclaredIsYielded
  <2>1. yielded[b].fields = declared
    <3>1. OutFields(job) = OutSchema(job)
      BY DEF OutFields, OutSchema, InPlace
    <3> QED BY <3>1, Yielded DEF IInv
  <2>2. ASSUME NEW i \in 1..Len(yielded[b].rows)
        PROVE  Len(yielded[b].rows[i]) = Len(declared)
    <3> DEFINE r == job.batches[b][i]
    <3>1. i \in 1..Len(job.batches[b]) /\ b \in 1..Len(job.batches)
      BY Yielded
    <3>2. yielded[b].rows[i] = OutRow(r)
      BY <3>1, Yielded
    <3>3. IsSequence(r) /\ Len(r) = Len(job.fields) /\ IsSequence(job.fields)
      BY <3>1, Batches
    <3> HIDE DEF r
    <3>4. declared = OutSchema(job)
      BY DEF IInv
    <3>5. CASE InPlace(job)
      <4>1. job.op # "hash_rows" /\ declared = job.fields
        BY <3>4, <3>5 DEF OutSchema, InPlace
      <4>2. Len(OutRow(r)) = Len(r)
        BY <3>3, <3>5, <4>1, Replaced DEF OutRow
      <4> QED BY <3>2, <3>3, <4>1, <4>2
    <3>6. CASE ~ InPlace(job)
      <4>1. PICK f : declared = Append(job.fields, f)
        BY <3>4, <3>6 DEF OutSchema
      <4>2. PICK cell : OutRow(r) = Append(r, cell)
        BY <3>6 DEF OutRow
      <4>3. Len(declared) = Len(job.fields) + 1
        BY <3>3, <4>1, Appended
      <4>4. Len(OutRow(r)) = Len(r) + 1
        BY <3>3, <4>2, Appended
      <4> QED BY <3>2, <3>3, <4>3, <4>4
    <3> QED BY <3>5, <3>6
  <2> QED BY <2>1, <2>2
<1> QED BY <1>1, SpecIInv, PTL

(* A column that is there once is the one pyarrow is given. *)
LEMMA OneColumn ==
    ASSUME IInv, job.op # "hash_rows", Once(job)
    PROVE  /\ FieldIndex(job.fields, job.columns[1]) \in 1..Len(job.fields)
           /\ ColumnAt(job.fields, job.columns[1]) = FieldIndex(job.fields, job.columns[1])
<1> DEFINE named == Named(job.fields, job.columns[1])
<1>1. IsSequence(job.columns) /\ job.columns # <<>>
  BY RowLocalAssumption DEF IInv, JobsOfRows
<1>2. 1 \in 1..Len(job.columns)
  BY <1>1 DEF IsSequence
<1>3. Cardinality(named) = 1
  BY <1>2 DEF Once
<1>4. named \subseteq 1..Len(job.fields)
  BY DEF Named
<1>5. named # {}
  BY <1>3, FS_EmptySet
<1>6. FieldIndex(job.fields, job.columns[1]) = CHOOSE k \in named : TRUE
  BY <1>3 DEF FieldIndex
<1>7. FieldIndex(job.fields, job.columns[1]) \in named
  <2> HIDE DEF named
  <2> QED BY <1>5, <1>6
<1>8. FieldIndex(job.fields, job.columns[1]) # -1
  BY <1>4, <1>7
<1> QED BY <1>4, <1>7, <1>8 DEF ColumnAt

(* What a rule leaves of a text is a text. *)
LEMMA RuleLeavesText ==
    ASSUME NEW rule \in Rules, NEW text \in Seq(Characters)
    PROVE  RegexReplaceAll(rule, text) \in Seq(Characters)
<1> DEFINE piece(k) == IF k \in Starts(rule, text) THEN rule.replacement
                       ELSE IF k \in Matched(rule, text) THEN <<>>
                       ELSE <<text[k]>>
           pieces == [k \in 1..Len(text) |-> piece(k)]
<1>1. Len(text) \in Nat /\ \A k \in 1..Len(text) : text[k] \in Characters
  <2> HIDE DEF Characters
  <2> QED OBVIOUS
<1>2. \A k \in 1..Len(text) : piece(k) \in Seq(Characters)
  <2>1. rule.replacement \in Seq(Characters)
    BY DEF Rules
  <2>2. <<>> \in Seq(Characters)
    OBVIOUS
  <2>3. \A k \in 1..Len(text) : <<text[k]>> \in Seq(Characters)
    BY <1>1
  <2> QED BY <2>1, <2>2, <2>3
<1>3. RegexReplaceAll(rule, text) = FlattenSeq(pieces)
  BY DEF RegexReplaceAll
<1> HIDE DEF piece
<1>4. pieces \in Seq(Seq(Characters)) /\ Len(pieces) = Len(text)
  BY <1>1, <1>2
<1> HIDE DEF pieces
<1>5. PICK F \in [0..Len(pieces) -> Seq(Characters)] : F[Len(pieces)] = FlattenSeq(pieces)
  BY <1>1, <1>4, FlattenBySequence
<1>6. Len(pieces) \in 0..Len(pieces)
  BY <1>1, <1>4
<1> QED BY <1>3, <1>5, <1>6

(* Rules leave a text of a text; a single rule is applied once. *)
LEMMA RulesLeaveText ==
    ASSUME NEW rules \in Seq(Rules), NEW text \in Seq(Characters)
    PROVE  /\ Apply(rules, text) \in Seq(Characters)
           /\ Len(rules) = 1 => Apply(rules, text) = RegexReplaceAll(rules[1], text)
<1> DEFINE L == Seq(Characters)
           n == Len(rules)
           w(g, t) == IF t = {} THEN text
                      ELSE RegexReplaceAll(rules[Max(t)], g[t \ {Max(t)}])
           Iter(g) == g = [t \in SUBSET (1..n) |-> w(g, t)]
           c == CHOOSE g : Iter(g)
           step == [p \in L \X (1..n) |-> RegexReplaceAll(rules[p[2]], p[1])]
<1>1. n \in Nat /\ DOMAIN rules = 1..n /\ \A k \in 1..n : rules[k] \in Rules
  <2> HIDE DEF Rules
  <2> QED OBVIOUS
<1>2. Apply(rules, text) = c[1..n]
  <2>1. Apply(rules, text) =
            (CHOOSE g : g = [t \in SUBSET DOMAIN rules |-> w(g, t)])[DOMAIN rules]
    BY Zenon DEF Apply, FoldLeft, MapThenFoldSet
  <2> HIDE DEF w
  <2> QED BY <1>1, <2>1
<1>3. \A a \in L, k \in 1..n : RegexReplaceAll(rules[k], a) \in L
  BY <1>1, RuleLeavesText
<1>4. text \in L
  OBVIOUS
<1>5. step \in [L \X (1..n) -> L]
  <2> HIDE DEF L
  <2> QED BY <1>3
<1>6. \A a \in L, k \in 1..n : step[<<a, k>>] = RegexReplaceAll(rules[k], a)
  OBVIOUS
<1> HIDE DEF L, step, n
<1>7. PICK h \in [SUBSET (1..n) -> L] : PrefixFolding(n, text, step, h)
  BY <1>1, <1>4, <1>5, PrefixFold
<1>8. Iter(h)
  <2> DEFINE x(t) == IF t = {} THEN text ELSE step[<<h[t \ {Max(t)}], Max(t)>>]
  <2>1. h = [t \in SUBSET (1..n) |-> x(t)]
    BY <1>7, Zenon DEF PrefixFolding
  <2>2. ASSUME NEW t \in SUBSET (1..n) PROVE x(t) = w(h, t)
    <3>1. CASE t = {}
      BY <3>1
    <3>2. CASE t # {}
      <4>1. Max(t) \in 1..n
        BY <1>1, <3>2, MaxIn
      <4>2. t \ {Max(t)} \in SUBSET (1..n)
        OBVIOUS
      <4>3. h[t \ {Max(t)}] \in L
        BY <4>2
      <4> QED BY <1>6, <3>2, <4>1, <4>3
    <3> QED BY <3>1, <3>2
  <2> HIDE DEF x, w
  <2>3. [t \in SUBSET (1..n) |-> x(t)] = [t \in SUBSET (1..n) |-> w(h, t)]
    BY <2>2
  <2> QED BY <2>1, <2>3
<1>9. c = [t \in SUBSET (1..n) |-> w(c, t)]
  <2> HIDE DEF w
  <2> QED BY <1>8
<1> HIDE DEF c
<1>10. \A t \in SUBSET (1..n) : c[t] = w(c, t)
  <2> HIDE DEF w
  <2> QED BY <1>9
<1>11. c[1..0] = text
  <2>1. 1..0 = {} /\ {} \in SUBSET (1..n)
    OBVIOUS
  <2> QED BY <1>10, <2>1
<1>12. ASSUME NEW m \in Nat, m + 1 \in 1..n
       PROVE  c[1..(m + 1)] = RegexReplaceAll(rules[m + 1], c[1..m])
  <2>1. 1..(m + 1) # {} /\ Max(1..(m + 1)) = m + 1 /\ (1..(m + 1)) \ {m + 1} = 1..m
    BY FirstNumbers
  <2>2. 1..(m + 1) \in SUBSET (1..n)
    BY <1>1, <1>12
  <2> QED BY <1>10, <2>1, <2>2
<1> DEFINE N == {m \in Nat : m <= n => c[1..m] \in L}
<1>13. 0 \in N
  BY <1>4, <1>11
<1>14. ASSUME NEW m \in N PROVE m + 1 \in N
  <2> SUFFICES ASSUME m + 1 <= n PROVE c[1..(m + 1)] \in L
    OBVIOUS
  <2>1. m \in Nat /\ m + 1 \in 1..n /\ m <= n
    BY <1>1
  <2>2. c[1..m] \in L
    BY <2>1
  <2> QED BY <1>3, <1>12, <2>1, <2>2
<1>15. c[1..n] \in L
  <2> HIDE DEF N
  <2>1. N \in SUBSET Nat
    BY DEF N
  <2>2. N = Nat
    BY <1>13, <1>14, <2>1, SetInduction
  <2> QED BY <1>1, <2>2 DEF N
<1>16. n = 1 => c[1..n] = RegexReplaceAll(rules[1], text)
  <2> SUFFICES ASSUME n = 1 PROVE c[1..n] = RegexReplaceAll(rules[1], text)
    OBVIOUS
  <2>1. 0 + 1 \in 1..n /\ 0 \in Nat /\ 0 + 1 = 1
    OBVIOUS
  <2>2. c[1..1] = RegexReplaceAll(rules[1], c[1..0])
    BY <1>12, <2>1
  <2> QED BY <1>11, <2>2
<1> QED BY <1>2, <1>15, <1>16 DEF L, n

-----------------------------------------------------------------------------
(* A rule that leaves one character, or none, for each place of a text.    *)
Leaves(rule, text, places, v) ==
    /\ \A k \in places : v[k] \in Characters
    /\ \A k \in 1..Len(text) :
          (IF k \in Starts(rule, text) THEN rule.replacement
           ELSE IF k \in Matched(rule, text) THEN <<>>
           ELSE <<text[k]>>) = IF k \in places THEN <<v[k]>> ELSE <<>>

LEMMA RuleKeeps ==
    ASSUME NEW rule \in Rules, NEW text \in Seq(Characters),
           NEW places \in SUBSET (1..Len(text)), NEW v, Leaves(rule, text, places, v)
    PROVE  AtRanks(Apply(<<rule>>, text), v, places)
<1> DEFINE piece(k) == IF k \in Starts(rule, text) THEN rule.replacement
                       ELSE IF k \in Matched(rule, text) THEN <<>>
                       ELSE <<text[k]>>
           pieces == [k \in 1..Len(text) |-> piece(k)]
<1>1. <<rule>> \in Seq(Rules) /\ Len(<<rule>>) = 1 /\ <<rule>>[1] = rule
  <2> HIDE DEF Rules
  <2> QED OBVIOUS
<1>2. Apply(<<rule>>, text) = FlattenSeq(pieces)
  <2>1. Apply(<<rule>>, text) = RegexReplaceAll(rule, text)
    BY <1>1, RulesLeaveText
  <2> QED BY <2>1 DEF RegexReplaceAll
<1>3. Len(text) \in Nat
  OBVIOUS
<1>4. \A k \in 1..Len(text) :
          piece(k) \in Seq(Characters) /\ piece(k) = IF k \in places THEN <<v[k]>> ELSE <<>>
  <2>1. \A a \in Characters : <<a>> \in Seq(Characters)
    OBVIOUS
  <2>2. <<>> \in Seq(Characters)
    OBVIOUS
  <2>3. \A k \in 1..Len(text) : piece(k) = IF k \in places THEN <<v[k]>> ELSE <<>>
    BY DEF Leaves
  <2>4. \A k \in places : v[k] \in Characters
    BY DEF Leaves
  <2> HIDE DEF piece
  <2> QED BY <2>1, <2>2, <2>3, <2>4
<1> HIDE DEF piece
<1>5. /\ pieces \in Seq(Seq(Characters)) /\ Len(pieces) = Len(text)
      /\ \A k \in 1..Len(text) : pieces[k] = IF k \in places THEN <<v[k]>> ELSE <<>>
  BY <1>3, <1>4
<1> HIDE DEF pieces
<1>6. AtRanks(FlattenSeq(pieces), v, places)
  <2>1. places \in SUBSET (1..Len(pieces)) /\ Len(pieces) \in Nat
    BY <1>3, <1>5
  <2>2. Pieces(pieces, places, v, Characters)
    BY <1>5 DEF Pieces, Leaves
  <2>3. pieces \in Seq(Seq(Characters))
    BY <1>5
  <2> QED BY <2>1, <2>2, <2>3, FlattenedPlaces
<1> QED BY <1>2, <1>6

(* A rule that removes its matches keeps the places it does not match. *)
LEMMA RemovingKeeps ==
    ASSUME NEW text \in Seq(Characters), NEW chars \in SUBSET Characters, NEW shape \in Shapes
    PROVE  LET rule == [chars |-> chars, shape |-> shape, replacement |-> <<>>]
           IN  Keeps(Apply(Removing(chars, shape), text), text,
                     (1..Len(text)) \ Matched(rule, text))
<1> DEFINE rule == [chars |-> chars, shape |-> shape, replacement |-> <<>>]
           places == (1..Len(text)) \ Matched(rule, text)
<1>1. rule \in Rules /\ rule.replacement = <<>>
  <2>1. <<>> \in Seq(Characters)
    OBVIOUS
  <2> QED BY <2>1 DEF Rules
<1>2. Removing(chars, shape) = <<rule>>
  BY DEF Removing
<1> HIDE DEF rule
<1>3. Starts(rule, text) \subseteq Matched(rule, text)
  BY DEF Starts
<1>4. places \in SUBSET (1..Len(text)) /\ \A k \in places : text[k] \in Characters
  <2> HIDE DEF Characters
  <2> QED OBVIOUS
<1>5. Leaves(rule, text, places, text)
  BY <1>1, <1>3, <1>4 DEF Leaves
<1> HIDE DEF places
<1>6. AtRanks(Apply(<<rule>>, text), text, places)
  BY <1>1, <1>4, <1>5, RuleKeeps
<1>7. Keeps(Apply(<<rule>>, text), text, places)
  BY <1>6, Zenon DEF Keeps, AtRanks, Rank
<1> QED BY <1>2, <1>7 DEF places, rule

LEMMA EachRemoved ==
    ASSUME NEW text \in Seq(Characters), NEW chars \in SUBSET Characters
    PROVE  Keeps(Apply(Removing(chars, "each"), text), text, PlacesOf(Characters \ chars, text))
<1> DEFINE rule == [chars |-> chars, shape |-> "each", replacement |-> <<>>]
<1>1. "each" \in Shapes
  BY DEF Shapes
<1>2. \A k \in 1..Len(text) : text[k] \in Characters
  <2> HIDE DEF Characters
  <2> QED OBVIOUS
<1>3. (1..Len(text)) \ Matched(rule, text) = PlacesOf(Characters \ chars, text)
  BY <1>2 DEF Matched, PlacesOf
<1> QED BY <1>1, <1>3, RemovingKeeps

LEMMA EndsRemoved ==
    ASSUME NEW text \in Seq(Characters)
    PROVE  Keeps(Apply(Removing(Whitespace, "ends"), text), text,
                 {k \in 1..Len(text) : \E i, j \in Visible(text) : i <= k /\ k <= j})
<1> DEFINE rule == [chars |-> Whitespace, shape |-> "ends", replacement |-> <<>>]
<1>1. "ends" \in Shapes /\ Whitespace \in SUBSET Characters
  BY DEF Shapes, Characters
<1>2. Len(text) \in Nat
  OBVIOUS
<1>3. \A k \in 1..Len(text) : k \in Matched(rule, text) <=>
          \/ \A j \in 1..k : text[j] \in Whitespace
          \/ \A j \in k..Len(text) : text[j] \in Whitespace
  BY DEF Matched
<1>4. ASSUME NEW k \in 1..Len(text)
      PROVE  k \notin Matched(rule, text) <=> \E i, j \in Visible(text) : i <= k /\ k <= j
  <2>1. (\E j \in 1..k : text[j] \notin Whitespace) <=> \E i \in Visible(text) : i <= k
    BY <1>2 DEF Visible
  <2>2. (\E j \in k..Len(text) : text[j] \notin Whitespace) <=> \E j \in Visible(text) : k <= j
    BY <1>2 DEF Visible
  <2> QED BY <1>3, <2>1, <2>2
<1>5. (1..Len(text)) \ Matched(rule, text)
          = {k \in 1..Len(text) : \E i, j \in Visible(text) : i <= k /\ k <= j}
  <2> HIDE DEF rule
  <2> QED BY <1>4
<1> QED BY <1>1, <1>5, RemovingKeeps

(* Where runs start and where they end: the same number of runs has begun  *)
(* and has ended by every place that is not inside of one.                 *)
LEMMA RunsBeginAndEnd ==
    ASSUME NEW text \in Seq(Characters), NEW starts,
           starts = {k \in PlacesOf(Whitespace, text) : k - 1 \notin PlacesOf(Whitespace, text)}
    PROVE  LET begun == Visible(text) \cup starts
               ended == Visible(text) \cup LastOfRuns(text)
           IN  /\ Cardinality(begun) = Cardinality(ended)
               /\ \A k \in ended : Rank(begun, k) = Rank(ended, k)
               /\ \A k \in LastOfRuns(text) : \E s \in starts : Rank(begun, s) = Rank(begun, k)
<1> DEFINE n == Len(text)
           V == Visible(text)
           W == PlacesOf(Whitespace, text)
           E == LastOfRuns(text)
           begun == V \cup starts
           ended == V \cup E
<1>1. /\ n \in Nat /\ V = (1..n) \ W /\ W \subseteq 1..n
      /\ \A k : k \in starts <=> k \in W /\ k - 1 \notin W
      /\ \A k : k \in E <=> k \in W /\ (k < n => k + 1 \in V)
  BY DEF Visible, PlacesOf, LastOfRuns
<1> HIDE DEF n, V, W, E
<1>2. begun \in SUBSET (1..n) /\ ended \in SUBSET (1..n)
  BY <1>1
<1> HIDE DEF begun, ended
<1>3. /\ Rank(begun, 0) = 0 /\ Rank(begun, n) = Cardinality(begun)
      /\ \A k \in 0..n : Rank(begun, k) \in Nat
      /\ \A k \in 1..n : Rank(begun, k)
             = IF k \in begun THEN Rank(begun, k - 1) + 1 ELSE Rank(begun, k - 1)
  BY <1>1, <1>2, RankByStep
<1>4. /\ Rank(ended, 0) = 0 /\ Rank(ended, n) = Cardinality(ended)
      /\ \A k \in 0..n : Rank(ended, k) \in Nat
      /\ \A k \in 1..n : Rank(ended, k)
             = IF k \in ended THEN Rank(ended, k - 1) + 1 ELSE Rank(ended, k - 1)
  BY <1>1, <1>2, RankByStep
<1> DEFINE inside(k) == k \in W /\ k \notin E
           Good(k) == /\ ~ inside(k) => Rank(begun, k) = Rank(ended, k)
                      /\ inside(k) => Rank(begun, k) = Rank(ended, k) + 1
                      /\ k \in W => \E s \in starts : Rank(begun, s) = Rank(begun, k)
           N == {k \in Nat : k <= n => Good(k)}
<1>5. 0 \in N
  <2>1. 0 \notin W
    BY <1>1
  <2> QED BY <1>3, <1>4, <2>1
<1>6. ASSUME NEW m \in N PROVE m + 1 \in N
  <2> SUFFICES ASSUME m + 1 <= n PROVE Good(m + 1)
    OBVIOUS
  <2>1. /\ m \in Nat /\ m \in 0..n /\ m + 1 \in 1..n /\ (m + 1) - 1 = m /\ Good(m)
    BY <1>1
  <2>2. /\ Rank(begun, m) \in Nat /\ Rank(ended, m) \in Nat
        /\ Rank(begun, m + 1) = IF m + 1 \in begun THEN Rank(begun, m) + 1 ELSE Rank(begun, m)
        /\ Rank(ended, m + 1) = IF m + 1 \in ended THEN Rank(ended, m) + 1 ELSE Rank(ended, m)
    BY <1>3, <1>4, <2>1
  <2>3. inside(m) <=> m \in W /\ m + 1 \in W
    BY <1>1, <2>1
  <2>4. CASE m + 1 \in V
    <3>1. m + 1 \in begun /\ m + 1 \in ended /\ m + 1 \notin W
      BY <1>1, <2>4 DEF begun, ended
    <3> QED BY <2>1, <2>2, <2>3, <3>1
  <2>5. CASE m + 1 \in W /\ m \notin W
    <3>1. m + 1 \in starts /\ m + 1 \in begun /\ (m + 1 \in ended <=> m + 1 \in E)
      BY <1>1, <2>1, <2>5 DEF begun, ended
    <3> HIDE DEF N
    <3> QED BY <2>1, <2>2, <2>3, <2>5, <3>1
  <2>6. CASE m + 1 \in W /\ m \in W
    <3>1. m + 1 \notin begun /\ (m + 1 \in ended <=> m + 1 \in E)
      BY <1>1, <2>1, <2>6 DEF begun, ended
    <3>2. PICK s \in starts : Rank(begun, s) = Rank(begun, m)
      BY <2>1, <2>6
    <3>3. Rank(begun, m + 1) = Rank(begun, m) /\ Rank(begun, m) = Rank(ended, m) + 1
      BY <2>1, <2>2, <2>3, <2>6, <3>1
    <3> HIDE DEF N
    <3> QED BY <2>2, <2>6, <3>1, <3>2, <3>3
  <2> QED BY <1>1, <2>1, <2>4, <2>5, <2>6
<1>7. \A k \in 0..n : Good(k)
  <2> HIDE DEF N, Good
  <2>1. N = Nat
    <3>1. N \in SUBSET Nat
      BY DEF N
    <3> QED BY <1>5, <1>6, <3>1, SetInduction
  <2> QED BY <1>1, <2>1 DEF N
<1>8. ~ inside(n)
  BY <1>1
<1>9. Cardinality(begun) = Cardinality(ended)
  BY <1>1, <1>3, <1>4, <1>7, <1>8
<1>10. ASSUME NEW k \in ended PROVE Rank(begun, k) = Rank(ended, k)
  <2>1. k \in 0..n /\ ~ inside(k)
    BY <1>1, <1>2 DEF ended
  <2> QED BY <1>7, <2>1
<1>11. ASSUME NEW k \in E PROVE \E s \in starts : Rank(begun, s) = Rank(begun, k)
  <2>1. k \in W
    BY <1>1
  <2>2. k \in 0..n
    BY <1>1, <2>1
  <2> QED BY <1>7, <2>1, <2>2
<1> QED BY <1>9, <1>10, <1>11 DEF begun, ended, V, E

LEMMA RunsCollapsed ==
    ASSUME NEW text \in Seq(Characters)
    PROVE  Keeps(Apply(Preset["collapse_whitespace"], text),
                 [k \in 1..Len(text) |-> IF k \in Visible(text) THEN text[k] ELSE "space"],
                 Visible(text) \cup LastOfRuns(text))
<1> DEFINE rule == [chars |-> Whitespace, shape |-> "run", replacement |-> <<"space">>]
           v == [k \in 1..Len(text) |-> IF k \in Visible(text) THEN text[k] ELSE "space"]
           starts == {k \in PlacesOf(Whitespace, text) :
                          k - 1 \notin PlacesOf(Whitespace, text)}
           begun == Visible(text) \cup starts
           ended == Visible(text) \cup LastOfRuns(text)
           w == Apply(<<rule>>, text)
<1>1. rule \in Rules
  <2>1. "space" \in Characters /\ Whitespace \in SUBSET Characters /\ "run" \in Shapes
    BY DEF Characters, Whitespace, Shapes
  <2>2. <<"space">> \in Seq(Characters)
    BY <2>1
  <2> QED BY <2>1, <2>2 DEF Rules
<1>2. Preset["collapse_whitespace"] = <<rule>>
  BY DEF Preset
<1>3. Matched(rule, text) = PlacesOf(Whitespace, text) /\ Starts(rule, text) = starts
  BY DEF Matched, Starts, PlacesOf
<1>4. rule.replacement = <<"space">>
  OBVIOUS
<1>5. Len(text) \in Nat /\ \A k \in 1..Len(text) : text[k] \in Characters
  <2> HIDE DEF Characters
  <2> QED OBVIOUS
<1>6. begun \in SUBSET (1..Len(text)) /\ ended \in SUBSET (1..Len(text))
  BY DEF Visible, PlacesOf, LastOfRuns
<1>7. /\ \A k \in 1..Len(text) : k \in Visible(text) <=> k \notin PlacesOf(Whitespace, text)
      /\ starts \subseteq PlacesOf(Whitespace, text)
      /\ LastOfRuns(text) \subseteq PlacesOf(Whitespace, text)
      /\ PlacesOf(Whitespace, text) \subseteq 1..Len(text)
  BY DEF Visible, PlacesOf, LastOfRuns
<1>8. \A k \in 1..Len(text) : v[k] = IF k \in Visible(text) THEN text[k] ELSE "space"
  OBVIOUS
<1> HIDE DEF rule, v
<1>9. Leaves(rule, text, begun, v)
  <2>1. \A k \in 1..Len(text) : v[k] \in Characters
    BY <1>5, <1>8 DEF Characters, Whitespace
  <2>2. \A k \in 1..Len(text) :
            (IF k \in starts THEN <<"space">>
             ELSE IF k \in PlacesOf(Whitespace, text) THEN <<>>
             ELSE <<text[k]>>) = IF k \in begun THEN <<v[k]>> ELSE <<>>
    <3> HIDE DEF starts
    <3> QED BY <1>7, <1>8
  <2> HIDE DEF begun
  <2> QED BY <1>3, <1>4, <1>6, <2>1, <2>2 DEF Leaves
<1>10. AtRanks(w, v, begun)
  <2> HIDE DEF begun
  <2> QED BY <1>1, <1>6, <1>9, RuleKeeps
<1>11. /\ Cardinality(begun) = Cardinality(ended)
       /\ \A k \in ended : Rank(begun, k) = Rank(ended, k)
       /\ \A k \in LastOfRuns(text) : \E s \in starts : Rank(begun, s) = Rank(begun, k)
  BY RunsBeginAndEnd
<1>12. /\ Len(w) = Cardinality(begun)
       /\ \A k \in begun : w[Rank(begun, k)] = v[k]
  BY <1>10 DEF AtRanks
<1>13. ASSUME NEW k \in ended PROVE w[Rank(ended, k)] = v[k]
  <2>1. CASE k \in Visible(text)
    BY <1>11, <1>12, <2>1
  <2>2. CASE k \in LastOfRuns(text)
    <3>1. PICK s \in starts : Rank(begun, s) = Rank(begun, k)
      BY <1>11, <2>2
    <3>2. v[s] = "space" /\ v[k] = "space"
      <4> HIDE DEF starts
      <4> QED BY <1>7, <1>8, <2>2, <3>1
    <3>3. s \in begun
      OBVIOUS
    <3> HIDE DEF starts, begun
    <3> QED BY <1>11, <1>12, <3>1, <3>2, <3>3
  <2> QED BY <2>1, <2>2
<1>14. AtRanks(w, v, ended)
  <2> HIDE DEF begun, ended, w
  <2> QED BY <1>11, <1>12, <1>13 DEF AtRanks
<1>15. Keeps(w, v, ended)
  <2> HIDE DEF ended, w
  <2> QED BY <1>14, Zenon DEF Keeps, AtRanks, Rank
<1> QED BY <1>2, <1>15 DEF v

(* Row by row, every other cell is kept, and a cleaned cell is null where  *)
(* its own was.                                                            *)
THEOREM NothingElseMoves == Spec => []RowsStayInPlace
<1>1. IInv => RowsStayInPlace
  <2> DEFINE source == FieldIndex(job.fields, job.columns[1])
             target == IF InPlace(job) THEN source ELSE Len(declared)
  <2> SUFFICES ASSUME IInv, Once(job), NEW b \in 1..Len(yielded)
               PROVE  /\ Len(yielded[b].rows) = Len(job.batches[b])
                      /\ \A i \in 1..Len(job.batches[b]) :
                            /\ \A c \in 1..Len(job.fields) : c # target =>
                                  yielded[b].rows[i][c] = job.batches[b][i][c]
                            /\ job.op # "hash_rows" =>
                                  (yielded[b].rows[i][target] = Null
                                      <=> job.batches[b][i][source] = Null)
    BY DEF RowsStayInPlace
  <2>1. Len(yielded[b].rows) = Len(job.batches[b])
    BY Yielded
  <2>2. ASSUME NEW i \in 1..Len(job.batches[b])
        PROVE  /\ \A c \in 1..Len(job.fields) : c # target =>
                     yielded[b].rows[i][c] = job.batches[b][i][c]
               /\ job.op # "hash_rows" =>
                     (yielded[b].rows[i][target] = Null
                         <=> job.batches[b][i][source] = Null)
    <3> DEFINE r == job.batches[b][i]
    <3>1. b \in 1..Len(job.batches) /\ yielded[b].rows[i] = OutRow(r) /\ Workable
      BY Yielded
    <3>2. IsSequence(r) /\ Len(r) = Len(job.fields) /\ IsSequence(job.fields)
      BY <3>1, Batches
    <3>3. Len(job.fields) \in Nat /\ declared = OutSchema(job)
      BY <3>2 DEF IInv, IsSequence
    <3>4. job.op # "hash_rows" => (CleanedCell(r) = Null <=> r[source] = Null)
      <4> SUFFICES ASSUME job.op # "hash_rows"
                   PROVE  CleanedCell(r) = Null <=> r[source] = Null
        OBVIOUS
      <4>1. source \in 1..Len(job.fields) /\ ColumnAt(job.fields, job.columns[1]) = source
        BY OneColumn
      <4>2. job.fields[source].type = "string" /\ job.cleaning # Invalid
        BY <3>1, <4>1 DEF Workable
      <4>3. /\ job \in Jobs /\ b \in DOMAIN job.batches /\ i \in DOMAIN job.batches[b]
            /\ source \in DOMAIN job.fields
        <5>1. /\ job \in Jobs /\ IsSequence(job.batches) /\ IsSequence(job.batches[b])
              /\ IsSequence(job.fields)
          BY <3>1, Batches, RowLocalAssumption DEF IInv, JobsOfRows
        <5> HIDE DEF source
        <5> QED BY <3>1, <4>1, <5>1 DEF IsSequence
      <4>4. r[source] # Null => Apply(job.cleaning, r[source]) # Null
        <5> HIDE DEF source
        <5>1. Null \notin Seq(Characters) /\ job.cleaning \in Seq(Rules)
          BY <4>2, <4>3, RowLocalAssumption DEF CellsAreTexts
        <5>2. r[source] \in Seq(Characters) \cup {Null}
          BY <4>2, <4>3, RowLocalAssumption DEF CellsAreTexts
        <5> HIDE DEF r
        <5> QED BY <5>1, <5>2, RulesLeaveText
      <4> HIDE DEF source, r
      <4> QED BY <4>1, <4>4 DEF CleanedCell
    <3> HIDE DEF r
    <3>5. CASE InPlace(job)
      <4>1. job.op # "hash_rows" /\ target = source
        BY <3>5 DEF InPlace
      <4>2. source \in 1..Len(r) /\ ColumnAt(job.fields, job.columns[1]) = source
        BY <3>2, <4>1, OneColumn
      <4>3. OutRow(r) = [r EXCEPT ![source] = CleanedCell(r)]
        BY <3>5, <4>1, <4>2 DEF OutRow
      <4> HIDE DEF source, target
      <4>4. /\ OutRow(r)[source] = CleanedCell(r)
            /\ \A k \in 1..Len(r) : k # source => OutRow(r)[k] = r[k]
        BY <3>2, <4>2, <4>3, Replaced
      <4> QED BY <3>1, <3>2, <3>4, <4>1, <4>4 DEF r
    <3>6. CASE ~ InPlace(job)
      <4>1. PICK f : declared = Append(job.fields, f)
        BY <3>3, <3>6 DEF OutSchema
      <4>2. PICK cell : /\ OutRow(r) = Append(r, cell)
                        /\ job.op # "hash_rows" => cell = CleanedCell(r)
        BY <3>6 DEF OutRow
      <4>3. target = Len(r) + 1
        BY <3>2, <3>6, <4>1, Appended
      <4> HIDE DEF source, target
      <4>4. /\ OutRow(r)[target] = cell
            /\ \A k \in 1..Len(r) : OutRow(r)[k] = r[k]
        BY <3>2, <4>2, <4>3, Appended
      <4> QED BY <3>1, <3>2, <3>4, <4>2, <4>4 DEF r
    <3> QED BY <3>5, <3>6
  <2> QED BY <2>1, <2>2
<1> QED BY <1>1, SpecIInv, PTL

(* What each preset but collapse_whitespace keeps of a text. *)
LEMMA PresetEffects ==
    ASSUME NEW v \in Seq(Characters)
    PROVE  /\ Keeps(Apply(Preset["trim_whitespace"], v), v,
                    {k \in 1..Len(v) : \E i, j \in Visible(v) : i <= k /\ k <= j})
           /\ Keeps(Apply(Preset["strip_control_characters"], v), v,
                    PlacesOf(Characters \ ControlCharacters, v))
           /\ Keeps(Apply(Preset["strip_non_alphanumeric"], v), v,
                    PlacesOf(AsciiAlphanumeric \cup Whitespace, v))
           /\ Keeps(Apply(Preset["digits_only"], v), v, PlacesOf({"digit"}, v))
<1>1. /\ Preset["trim_whitespace"] = Removing(Whitespace, "ends")
      /\ Preset["strip_control_characters"] = Removing(ControlCharacters, "each")
      /\ Preset["strip_non_alphanumeric"]
             = Removing(Characters \ (AsciiAlphanumeric \cup Whitespace), "each")
      /\ Preset["digits_only"] = Removing(Characters \ {"digit"}, "each")
  BY DEF Preset
<1>2. /\ AsciiAlphanumeric \cup Whitespace \subseteq Characters
      /\ ControlCharacters \subseteq Characters /\ {"digit"} \subseteq Characters
  BY DEF AsciiAlphanumeric, Characters, Letters, Digits
<1>3. \A S \in SUBSET Characters : Characters \ (Characters \ S) = S
  OBVIOUS
<1>4. /\ Characters \ (Characters \ (AsciiAlphanumeric \cup Whitespace))
             = AsciiAlphanumeric \cup Whitespace
      /\ Characters \ (Characters \ {"digit"}) = {"digit"}
  BY <1>2, <1>3
<1>5. \A S \in SUBSET Characters :
          Keeps(Apply(Removing(S, "each"), v), v, PlacesOf(Characters \ S, v))
  BY EachRemoved
<1>6. Keeps(Apply(Preset["trim_whitespace"], v), v,
            {k \in 1..Len(v) : \E i, j \in Visible(v) : i <= k /\ k <= j})
  BY <1>1, EndsRemoved
<1>7. Keeps(Apply(Preset["strip_control_characters"], v), v,
            PlacesOf(Characters \ ControlCharacters, v))
  BY <1>1, <1>2, <1>5
<1>8. Keeps(Apply(Preset["strip_non_alphanumeric"], v), v,
            PlacesOf(AsciiAlphanumeric \cup Whitespace, v))
  <2>1. Characters \ (AsciiAlphanumeric \cup Whitespace) \in SUBSET Characters
    OBVIOUS
  <2> QED BY <1>1, <1>4, <1>5, <2>1
<1>9. Keeps(Apply(Preset["digits_only"], v), v, PlacesOf({"digit"}, v))
  <2>1. Characters \ {"digit"} \in SUBSET Characters
    OBVIOUS
  <2> QED BY <1>1, <1>4, <1>5, <2>1
<1> QED BY <1>6, <1>7, <1>8, <1>9

(* The cell that is written for a row, in place or appended, is its own    *)
(* cleaned cell.                                                           *)
LEMMA WrittenCell ==
    ASSUME IInv, Once(job), job.op # "hash_rows",
           NEW b \in 1..Len(yielded), NEW i \in 1..Len(job.batches[b])
    PROVE  LET source == FieldIndex(job.fields, job.columns[1])
               cell == job.batches[b][i][source]
           IN  /\ yielded[b].rows[i][IF InPlace(job) THEN source ELSE Len(declared)]
                      = IF cell = Null THEN Null ELSE Apply(job.cleaning, cell)
               /\ cell \in Seq(Characters) \cup {Null}
               /\ Null \notin Seq(Characters) /\ job.cleaning \in Seq(Rules)
<1> DEFINE source == FieldIndex(job.fields, job.columns[1])
           target == IF InPlace(job) THEN source ELSE Len(declared)
           r == job.batches[b][i]
<1>1. b \in 1..Len(job.batches) /\ yielded[b].rows[i] = OutRow(r) /\ Workable
  BY Yielded
<1>2. IsSequence(r) /\ Len(r) = Len(job.fields) /\ IsSequence(job.fields)
  BY <1>1, Batches
<1>3. Len(job.fields) \in Nat /\ declared = OutSchema(job)
  BY <1>2 DEF IInv, IsSequence
<1>4. source \in 1..Len(job.fields) /\ ColumnAt(job.fields, job.columns[1]) = source
  BY OneColumn
<1>5. job.fields[source].type = "string" /\ job.cleaning # Invalid
  BY <1>1, <1>4 DEF Workable
<1>6. /\ job \in Jobs /\ b \in DOMAIN job.batches /\ i \in DOMAIN job.batches[b]
      /\ source \in DOMAIN job.fields
  <2>1. /\ job \in Jobs /\ IsSequence(job.batches) /\ IsSequence(job.batches[b])
        /\ IsSequence(job.fields)
    BY <1>1, Batches, RowLocalAssumption DEF IInv, JobsOfRows
  <2> HIDE DEF source
  <2> QED BY <1>1, <1>4, <2>1 DEF IsSequence
<1>7. Null \notin Seq(Characters) /\ job.cleaning \in Seq(Rules)
  BY <1>5, <1>6, RowLocalAssumption DEF CellsAreTexts
<1>8. r[source] \in Seq(Characters) \cup {Null}
  <2> HIDE DEF source
  <2> QED BY <1>5, <1>6, RowLocalAssumption DEF CellsAreTexts
<1>9. CleanedCell(r) = IF r[source] = Null THEN Null ELSE Apply(job.cleaning, r[source])
  <2> HIDE DEF r, source
  <2> QED BY <1>4 DEF CleanedCell
<1> HIDE DEF r
<1>10. OutRow(r)[target] = CleanedCell(r)
  <2>1. CASE InPlace(job)
    <3>1. target = source /\ source \in 1..Len(r)
      BY <1>2, <1>4, <2>1
    <3>2. OutRow(r) = [r EXCEPT ![source] = CleanedCell(r)]
      BY <1>4, <2>1 DEF OutRow
    <3> HIDE DEF source, target
    <3> QED BY <1>2, <3>1, <3>2, Replaced
  <2>2. CASE ~ InPlace(job)
    <3>1. PICK f : declared = Append(job.fields, f)
      BY <1>3, <2>2 DEF OutSchema
    <3>2. OutRow(r) = Append(r, CleanedCell(r))
      BY <2>2 DEF OutRow
    <3>3. target = Len(r) + 1
      BY <1>2, <2>2, <3>1, Appended
    <3> HIDE DEF target
    <3> QED BY <1>2, <3>2, <3>3, Appended
  <2> QED BY <2>1, <2>2
<1> HIDE DEF source, target
<1> QED BY <1>1, <1>7, <1>8, <1>9, <1>10 DEF r, source, target

(* Letters and digits are those of ASCII, where a value has no others.     *)
LEMMA AsciiOnly ==
    ASSUME NEW v, PlacesOf((Letters \cup Digits) \ AsciiAlphanumeric, v) = {}
    PROVE  PlacesOf(AsciiAlphanumeric \cup Whitespace, v)
               = PlacesOf(Letters \cup Digits \cup Whitespace, v)
<1>1. AsciiAlphanumeric \subseteq Letters \cup Digits
  BY DEF AsciiAlphanumeric, Letters, Digits
<1> QED BY <1>1 DEF PlacesOf

(* Whatever the values and however they are cut into batches, a preset     *)
(* leaves of a value what its row of the table says; of a value with       *)
(* letters or digits that are not ASCII nothing is said for the one that   *)
(* strips what is not alphanumeric.                                        *)
THEOREM PresetsKeepTheirWord == Spec => []PresetsAsDocumented
<1>1. IInv => PresetsAsDocumented
  <2> SUFFICES ASSUME IInv, NEW p \in Cleaned
               PROVE  LET v == p[1]  w == p[2]
                      IN  v \in Seq(Characters) /\ w = Apply(job.cleaning, v)
    BY PresetEffects, RunsCollapsed, AsciiOnly DEF PresetsAsDocumented
  <2> DEFINE source == FieldIndex(job.fields, job.columns[1])
             target == IF InPlace(job) THEN source ELSE Len(declared)
  <2> DEFINE pairs == UNION {{<<job.batches[b][i][source], yielded[b].rows[i][target]>> :
                                 i \in 1..Len(yielded[b].rows)} : b \in 1..Len(yielded)}
  <2>0. Cleaned = IF job.op = "hash_rows" \/ ~ Once(job) THEN {} ELSE pairs \ {<<Null, Null>>}
    BY Zenon DEF Cleaned
  <2>1. job.op # "hash_rows" /\ Once(job) /\ p # <<Null, Null>> /\ p \in pairs
    <3> HIDE DEF pairs
    <3> QED BY <2>0
  <2>2. PICK b \in 1..Len(yielded) : \E i \in 1..Len(yielded[b].rows) :
            p = <<job.batches[b][i][source], yielded[b].rows[i][target]>>
    BY <2>1
  <2>3. PICK i \in 1..Len(yielded[b].rows) :
            p = <<job.batches[b][i][source], yielded[b].rows[i][target]>>
    BY <2>2
  <2>4. i \in 1..Len(job.batches[b])
    BY Yielded
  <2>5. /\ yielded[b].rows[i][target]
               = IF job.batches[b][i][source] = Null THEN Null
                 ELSE Apply(job.cleaning, job.batches[b][i][source])
        /\ job.batches[b][i][source] \in Seq(Characters) \cup {Null}
        /\ Null \notin Seq(Characters)
    BY <2>1, <2>4, WrittenCell
  <2> HIDE DEF source, target
  <2> QED BY <2>1, <2>3, <2>5
<1> QED BY <1>1, SpecIInv, PTL

(* The halves of the unsigned numbers trade places, and no two meet. *)
LEMMA SignedApart ==
    ASSUME NEW x \in Hashes, NEW y \in Hashes
    PROVE  /\ BitsAsSigned(x) \in -(2^(HashWidth - 1))..(2^(HashWidth - 1) - 1)
           /\ BitsAsSigned(x) = BitsAsSigned(y) <=> x = y
<1> DEFINE half == 2^(HashWidth - 1)
<1>1. half \in Nat \ {0} /\ x \in 0..(2 * half - 1) /\ y \in 0..(2 * half - 1)
  BY RowLocalAssumption DEF HalvesOfHashes
<1>2. /\ BitsAsSigned(x) = IF x < half THEN x ELSE x - 2 * half
      /\ BitsAsSigned(y) = IF y < half THEN y ELSE y - 2 * half
  BY RowLocalAssumption DEF HalvesOfHashes, BitsAsSigned
<1> HIDE DEF half
<1>3. BitsAsSigned(x) \in -half..(half - 1) /\ (BitsAsSigned(x) = BitsAsSigned(y) <=> x = y)
  BY <1>1, <1>2
<1> QED BY <1>3 DEF half

(* Signed, hashes are equal where they were, and fit their column. *)
THEOREM SignedHashes == Spec => []SignedHashesCompareAlike
<1>1. ASSUME IInv, job.op = "hash_rows", NEW b \in 1..Len(yielded),
             NEW i \in 1..Len(yielded[b].rows)
      PROVE  /\ Last(yielded[b].rows[i]) = BitsAsSigned(hash[HashedCells(job, job.batches[b][i])])
             /\ hash[HashedCells(job, job.batches[b][i])] \in Hashes
  <2> DEFINE r == job.batches[b][i]
  <2>1. /\ b \in 1..Len(job.batches) /\ i \in 1..Len(job.batches[b])
        /\ yielded[b].rows[i] = OutRow(r) /\ Workable
    BY <1>1, Yielded
  <2>2. HashedCells(job, r) \in Tuples(job)
    BY <1>1, <2>1 DEF Tuples, Workable
  <2>3. hash[HashedCells(job, r)] \in Hashes
    BY <1>1, <2>2 DEF IInv
  <2>4. IsSequence(r)
    BY <1>1, <2>1, Batches
  <2>5. yielded[b].rows[i] = Append(r, RowHash(r))
    BY <1>1, <2>1 DEF OutRow
  <2>6. Last(Append(r, RowHash(r))) = RowHash(r)
    <3> HIDE DEF r
    <3> QED BY <2>4, Appended DEF Last
  <2> QED BY <2>3, <2>5, <2>6 DEF RowHash
<1>2. IInv => SignedHashesCompareAlike
  <2> SUFFICES ASSUME IInv, job.op = "hash_rows",
                      NEW a \in 1..Len(yielded), NEW b \in 1..Len(yielded),
                      NEW i \in 1..Len(yielded[a].rows), NEW j \in 1..Len(yielded[b].rows)
               PROVE  LET x == Last(yielded[a].rows[i])  y == Last(yielded[b].rows[j])
                      IN  /\ x \in -(2^(HashWidth - 1))..(2^(HashWidth - 1) - 1)
                          /\ (x = y) <=> (hash[HashedCells(job, job.batches[a][i])]
                                              = hash[HashedCells(job, job.batches[b][j])])
    BY DEF SignedHashesCompareAlike
  <2> QED BY <1>1, SignedApart
<1> QED BY <1>2, SpecIInv, PTL

-----------------------------------------------------------------------------
(***************************************************************************)
(* normalize_json, for every set of texts and schemas and every number of  *)
(* rows.  What a cell of a column is depends on its own row and path       *)
(* alone, and the two statistics count the rows of two kinds; the rest is  *)
(* that the nulls of a column are rows of three kinds, none of them twice. *)
(***************************************************************************)
Fields == 1..Len(schema)

(* How many rows column c has a cell for. *)
Filled(c) == row + (IF pc = "row" /\ c <= field THEN 1 ELSE 0)

Object(i) == IsObject(json[i])
Kind(c, i) == Walk(json[i], schema[c].path).kind

(* The rows among the first n that are null in column c, by the reason. *)
Malformed(n) == {i \in 1..n : ~ Object(i)}
Ordinary(c, n) == {i \in 1..n : Object(i) /\ Kind(c, i) \in {"nothing", "null"}}
Mismatched(c, n) ==
    {i \in 1..n : Object(i) /\ Kind(c, i) \notin {"nothing", "null"} \cup
        Reads[schema[c].type]}

(* No other field reads the path of column c. *)
Alone(c) == \A d \in Fields : schema[d].path = schema[c].path => d = c

ShapeInv ==
    /\ row \in 0..Len(json) /\ field \in 0..Len(schema)
    /\ Len(json) \in Nat /\ Len(schema) \in Nat
    /\ pc \in {"check", "rows", "row", "done", "error"}
    /\ columns \in [Fields -> Seq({"null", "value"})]
    /\ pc = "row" => row < Len(json) /\ Object(row + 1)
    /\ pc = "done" => row = Len(json)
    /\ pc = "check" => row = 0
    /\ pc \in {"rows", "row", "done"} => \A c \in Fields : schema[c].type \in Supported

LengthInv == \A c \in Fields : Len(columns[c]) = Filled(c)

(* A cell is null for one of the three reasons, and for no other. *)
CellsInv ==
    \A c \in Fields : \A i \in 1..Filled(c) :
        columns[c][i] = "null" <=>
            i \in Malformed(Filled(c)) \cup Ordinary(c, Filled(c)) \cup Mismatched(c, Filled(c))

MalformedInv == malformed = Cardinality(Malformed(row))

Counted(path) == IF path \in DOMAIN mismatches THEN mismatches[path] ELSE 0

MismatchInv ==
    \A c \in Fields : Alone(c) =>
        Cardinality(Mismatched(c, Filled(c))) = Counted(schema[c].path)

MismatchType ==
    /\ DOMAIN mismatches \subseteq {schema[c].path : c \in Fields}
    /\ mismatches \in [DOMAIN mismatches -> Nat \ {0}]

JsonInv == ShapeInv /\ LengthInv /\ CellsInv /\ MalformedInv /\ MismatchType /\ MismatchInv

-----------------------------------------------------------------------------
LEMMA Finite ==
    ASSUME NEW n \in Nat, NEW S, S \subseteq 1..n
    PROVE  IsFiniteSet(S) /\ Cardinality(S) \in Nat
<1>1. IsFiniteSet(1..n)
    <2>1. 1 \in Int /\ n \in Int  OBVIOUS
    <2> QED  BY <2>1, FS_Interval
<1>2. IsFiniteSet(S)  BY <1>1, FS_Subset
<1> QED  BY <1>2, FS_CardinalityType

(* A row more adds nothing to a count, or one. *)
LEMMA CountOne ==
    ASSUME NEW n \in Nat, NEW S, S \subseteq 1..n
    PROVE  Cardinality(S \cup {n + 1}) = Cardinality(S) + 1
<1>1. n + 1 \notin S  OBVIOUS
<1> QED  BY <1>1, Finite, FS_AddElement

LEMMA ShapeInit == JsonInit => ShapeInv
<1> SUFFICES ASSUME SchemasOfFields, JsonInit PROVE ShapeInv  BY JsonAssumption
<1>1. Len(json) \in Nat
    <2>1. PICK n \in 0..MaxRows : json \in [1..n -> Texts \cup {NullText}]  BY DEF JsonInit
    <2>2. n \in Nat  BY DEF SchemasOfFields
    <2> QED  BY <2>1, <2>2
<1>2. Len(schema) \in Nat
    BY DEF SchemasOfFields, JsonInit
<1>3. columns \in [Fields -> Seq({"null", "value"})]
    <2>1. <<>> \in Seq({"null", "value"})  OBVIOUS
    <2> QED  BY <2>1 DEF JsonInit, Fields
<1> QED  BY <1>1, <1>2, <1>3 DEF JsonInit, ShapeInv

LEMMA ShapeStep == ShapeInv /\ [JsonNext]_jsonVars => ShapeInv'
<1> SUFFICES ASSUME ShapeInv, [JsonNext]_jsonVars PROVE ShapeInv'
    OBVIOUS
<1> USE DEF ShapeInv
<1>1. CASE CheckTypes  BY <1>1 DEF CheckTypes, Fields, Object
<1>2. CASE ReadObject  BY <1>2 DEF ReadObject, Fields, Object
<1>3. CASE MalformedRow
    <2>1. columns' \in [Fields -> Seq({"null", "value"})]
        <3> DEFINE Cells == Seq({"null", "value"})
        <3>1. \A c \in Fields : Append(columns[c], "null") \in Cells  OBVIOUS
        <3>2. columns' = [c \in Fields |-> Append(columns[c], "null")]
            BY <1>3 DEF MalformedRow, Fields
        <3> HIDE DEF Cells, ShapeInv
        <3>3. columns' \in [Fields -> Cells]  BY <3>1, <3>2
        <3> QED  BY <3>3 DEF Cells
    <2> QED  BY <1>3, <2>1 DEF MalformedRow, Fields, Object
<1>4. ASSUME pc = "row", field < Len(schema), pc' = pc, field' = field + 1,
             UNCHANGED <<json, schema, row>>,
             NEW cell \in {"null", "value"}, columns' = Append1(field + 1, cell)
      PROVE  ShapeInv'
    <2>1. columns' \in [Fields -> Seq({"null", "value"})]
        <3> DEFINE Cells == Seq({"null", "value"})
        <3>1. columns \in [Fields -> Cells] /\ field + 1 \in Fields  BY <1>4 DEF Fields
        <3>2. columns[field + 1] \in Seq({"null", "value"})  BY <3>1
        <3>3. Append(columns[field + 1], cell) \in Cells  BY <3>2
        <3> HIDE DEF Cells, ShapeInv
        <3>4. columns' \in [Fields -> Cells]  BY <1>4, <3>1, <3>3 DEF Append1
        <3> QED  BY <3>4 DEF Cells
    <2> QED  BY <1>4, <2>1 DEF Fields, Object
<1>5. CASE OrdinaryNull  BY <1>4, <1>5 DEF OrdinaryNull
<1>6. CASE AppendValue  BY <1>4, <1>6 DEF AppendValue
<1>7. CASE Mismatch  BY <1>4, <1>7 DEF Mismatch
<1>8. CASE RowDone  BY <1>8 DEF RowDone, Fields, Object
<1>9. CASE Finish  BY <1>9 DEF Finish, Fields, Object
<1>10. CASE Returned \/ UNCHANGED jsonVars  BY <1>10 DEF Returned, jsonVars, Fields,
    Object
<1> QED
    BY <1>1, <1>2, <1>3, <1>5, <1>6, <1>7, <1>8, <1>9, <1>10 DEF JsonNext

(* The three ways in which the columns grow. *)
Grows(c) ==
    \/ MalformedRow
    \/ (OrdinaryNull \/ AppendValue \/ Mismatch) /\ c = field + 1

(* A column that does not grow keeps its cells and their number, and one   *)
(* that does gets the cell of the next row.                                *)
LEMMA Growth ==
    ASSUME ShapeInv, LengthInv, [JsonNext]_jsonVars, NEW c \in Fields
    PROVE  /\ c \in Fields' /\ schema' = schema /\ json' = json
           /\ ~ Grows(c) => columns'[c] = columns[c] /\ Filled(c)' = Filled(c)
           /\ Grows(c) =>
                /\ Filled(c)' = Filled(c) + 1 /\ Filled(c) = row /\ row + 1 <= Len(json)
                /\ \E cell \in {"null", "value"} :
                      /\ columns'[c] = Append(columns[c], cell)
                      /\ cell = "value" <=>
                            Object(row + 1) /\ Kind(c, row + 1) \in Reads[schema[c].type]
<1> USE DEF ShapeInv
<1>1. CASE MalformedRow
    BY <1>1 DEF MalformedRow, Grows, Fields, Filled, Object
<1>2. ASSUME OrdinaryNull \/ AppendValue \/ Mismatch
      PROVE  /\ pc = "row" /\ pc' = "row" /\ field < Len(schema) /\ field' = field + 1
             /\ UNCHANGED <<json, schema, row>>
             /\ \E cell \in {"null", "value"} :
                   /\ columns' = Append1(field + 1, cell)
                   /\ cell = "value" <=>
                         Kind(field + 1, row + 1) \in Reads[schema[field + 1].type]
    <2> USE DEF Kind, value
    <2>1. CASE OrdinaryNull
        <3>1. Reads[schema[field + 1].type] \cap {"nothing", "null"} = {}
            <4>1. schema[field + 1].type \in Supported  BY <2>1 DEF OrdinaryNull, Fields
            <4> QED  BY <4>1 DEF Supported, Reads
        <3> QED  BY <2>1, <3>1 DEF OrdinaryNull
    <2>2. CASE AppendValue  BY <2>2 DEF AppendValue
    <2>3. CASE Mismatch  BY <2>3 DEF Mismatch
    <2> QED  BY <1>2, <2>1, <2>2, <2>3
<1>3. CASE OrdinaryNull \/ AppendValue \/ Mismatch
    <2>1. ~ MalformedRow  BY <1>2, <1>3 DEF MalformedRow
    <2>2. PICK cell \in {"null", "value"} :
             /\ columns' = Append1(field + 1, cell)
             /\ cell = "value" <=> Kind(field + 1, row + 1) \in Reads[schema[field + 1].type]
        BY <1>2, <1>3
    <2>3. pc = "row" /\ pc' = "row" /\ field' = field + 1 /\ UNCHANGED <<json, schema, row>>
        BY <1>2, <1>3
    <2>4. CASE c = field + 1
        <3>1. columns'[c] = Append(columns[c], cell)  BY <2>2, <2>4 DEF Append1, Fields
        <3>2. Grows(c)  BY <1>3, <2>4 DEF Grows
        <3>3. Filled(c) = row /\ Filled(c)' = row + 1  BY <2>3, <2>4 DEF Filled
        <3>4. Object(row + 1) /\ row + 1 <= Len(json)  BY <2>3
        <3> QED  BY <2>2, <2>3, <2>4, <3>1, <3>2, <3>3, <3>4 DEF Fields
    <2>5. CASE c # field + 1
        <3>1. columns'[c] = columns[c]  BY <2>2, <2>5 DEF Append1, Fields
        <3>2. ~ Grows(c)  BY <2>1, <2>5 DEF Grows
        <3>3. Filled(c)' = Filled(c)  BY <2>3, <2>5 DEF Filled, Fields
        <3> QED  BY <2>3, <3>1, <3>2, <3>3 DEF Fields
    <2> QED  BY <2>4, <2>5
<1>4. CASE ReadObject
    BY <1>4 DEF ReadObject, Grows, MalformedRow, OrdinaryNull, AppendValue,
       Mismatch, Fields, Filled, Object
<1>5. CASE RowDone
    BY <1>5 DEF RowDone, Grows, MalformedRow, OrdinaryNull, AppendValue,
       Mismatch, Fields, Filled
<1>6. CASE CheckTypes
    BY <1>6 DEF CheckTypes, Grows, MalformedRow, OrdinaryNull, AppendValue,
       Mismatch, Fields, Filled
<1>7. CASE Finish
    BY <1>7 DEF Finish, Grows, MalformedRow, OrdinaryNull, AppendValue,
       Mismatch, Fields, Filled
<1>8. CASE Returned
    BY <1>8 DEF Returned, jsonVars, Grows, MalformedRow, OrdinaryNull,
       AppendValue, Mismatch, Fields, Filled
<1>9. CASE UNCHANGED jsonVars /\ ~ JsonNext
    BY <1>9 DEF jsonVars, Grows, JsonNext, Fields, Filled
<1> QED
    BY <1>1, <1>3, <1>4, <1>5, <1>6, <1>7, <1>8, <1>9 DEF JsonNext

LEMMA LengthStep == ShapeInv /\ LengthInv /\ [JsonNext]_jsonVars => LengthInv'
<1> SUFFICES ASSUME ShapeInv, LengthInv, [JsonNext]_jsonVars, NEW c \in Fields'
             PROVE  Len(columns'[c]) = Filled(c)'
    BY DEF LengthInv
<1>1. schema' = schema
    BY DEF JsonNext, jsonVars, CheckTypes, ReadObject, MalformedRow,
       OrdinaryNull, AppendValue, Mismatch, RowDone, Finish,
       Returned
<1>2. c \in Fields  BY <1>1 DEF Fields
<1>3. columns[c] \in Seq({"null", "value"}) /\ Len(columns[c]) = Filled(c)
    BY <1>2 DEF ShapeInv, LengthInv
<1>4. CASE Grows(c)  BY <1>2, <1>3, <1>4, Growth
<1>5. CASE ~ Grows(c)  BY <1>2, <1>3, <1>5, Growth
<1> QED  BY <1>4, <1>5

(* Every branch appends to every column: nothing slides against the input, *)
(* for any number of rows and fields.                                      *)
THEOREM ColumnsStayAligned == JsonSpec => []ColumnsAligned
<1>1. JsonInit => LengthInv
    <2> SUFFICES ASSUME JsonInit PROVE LengthInv  OBVIOUS
    <2>1. Len(<<>>) = 0  OBVIOUS
    <2> QED  BY <2>1 DEF JsonInit, LengthInv, Filled, Fields
<1>2. LengthInv => ColumnsAligned
    BY DEF LengthInv, ColumnsAligned, Filled, Fields
<1> QED  BY <1>1, <1>2, ShapeInit, ShapeStep, LengthStep, PTL DEF JsonSpec

-----------------------------------------------------------------------------
LEMMA CellsStep == ShapeInv /\ LengthInv /\ CellsInv /\ [JsonNext]_jsonVars => CellsInv'
<1> SUFFICES ASSUME ShapeInv, LengthInv, CellsInv, [JsonNext]_jsonVars, NEW c \in Fields',
                    NEW i \in 1..Filled(c)'
             PROVE  columns'[c][i] = "null" <=>
                        i \in Malformed(Filled(c))' \cup Ordinary(c, Filled(c))'
                                \cup Mismatched(c, Filled(c))'
    BY DEF CellsInv
<1>1. schema' = schema
    BY DEF JsonNext, jsonVars, CheckTypes, ReadObject, MalformedRow,
       OrdinaryNull, AppendValue, Mismatch, RowDone, Finish,
       Returned
<1>2. c \in Fields  BY <1>1 DEF Fields
<1>3. json' = json  BY <1>2, Growth
<1> DEFINE NoCell(k) == \/ ~ Object(k)
                        \/ Kind(c, k) \notin Reads[schema[c].type]
                        \/ Kind(c, k) \in {"nothing", "null"}
<1>4. \A k \in 1..Filled(c)' :
         k \in Malformed(Filled(c))' \cup Ordinary(c, Filled(c))' \cup Mismatched(c, Filled(c))'
            <=> NoCell(k)
    BY <1>1, <1>3 DEF Malformed, Ordinary, Mismatched, Object, Kind
<1>5. \A k \in 1..Filled(c) : columns[c][k] = "null" <=> NoCell(k)
    BY <1>2 DEF CellsInv, Malformed, Ordinary, Mismatched
<1>6. /\ columns[c] \in Seq({"null", "value"}) /\ Len(columns[c]) = Filled(c)
      /\ Filled(c) \in Nat
    BY <1>2 DEF ShapeInv, LengthInv, Filled
<1>7. CASE ~ Grows(c)  BY <1>2, <1>4, <1>5, <1>7, Growth
<1>8. CASE Grows(c)
    <2>1. /\ Filled(c)' = Filled(c) + 1 /\ Filled(c) = row /\ row + 1 <= Len(json)
          /\ \E cell \in {"null", "value"} :
                /\ columns'[c] = Append(columns[c], cell)
                /\ cell = "value" <=>
                      Object(row + 1) /\ Kind(c, row + 1) \in Reads[schema[c].type]
        BY <1>2, <1>8, Growth
    <2>2. PICK cell \in {"null", "value"} :
             /\ columns'[c] = Append(columns[c], cell)
             /\ cell = "value" <=>
                   Object(row + 1) /\ Kind(c, row + 1) \in Reads[schema[c].type]
        BY <2>1
    <2>3. CASE i = row + 1
        <3>1. columns'[c][i] = cell  BY <1>6, <2>1, <2>2, <2>3
        <3>2. Reads[schema[c].type] \cap {"nothing", "null"} = {}
            <4>1. pc \in {"rows", "row"}
                BY <1>8 DEF Grows, MalformedRow, OrdinaryNull, AppendValue,
                   Mismatch
            <4>2. schema[c].type \in Supported  BY <1>2, <4>1 DEF ShapeInv
            <4> QED  BY <4>2 DEF Supported, Reads
        <3> QED  BY <1>4, <2>2, <2>3, <3>1, <3>2
    <2>4. CASE i \in 1..row
        <3>1. columns'[c][i] = columns[c][i]  BY <1>6, <2>1, <2>2, <2>4
        <3> QED  BY <1>4, <1>5, <2>1, <2>4, <3>1
    <2>5. i = row + 1 \/ i \in 1..row  BY <1>6, <2>1
    <2> QED  BY <2>3, <2>4, <2>5
<1> QED  BY <1>7, <1>8

LEMMA MalformedStep == ShapeInv /\ MalformedInv /\ [JsonNext]_jsonVars => MalformedInv'
<1> SUFFICES ASSUME ShapeInv, MalformedInv, [JsonNext]_jsonVars PROVE MalformedInv'
    OBVIOUS
<1> USE DEF ShapeInv, MalformedInv
<1>1. CASE MalformedRow
    <2>1. Malformed(row)' = Malformed(row) \cup {row + 1}
        BY <1>1 DEF MalformedRow, Malformed, Object
    <2>2. Malformed(row) \subseteq 1..row /\ row \in Nat  BY DEF Malformed
    <2>3. Cardinality(Malformed(row) \cup {row + 1}) = Cardinality(Malformed(row)) + 1
        BY <2>2, CountOne
    <2> QED  BY <1>1, <2>1, <2>3 DEF MalformedRow
<1>2. CASE RowDone
    <2>1. Malformed(row)' = Malformed(row)
        BY <1>2 DEF RowDone, Malformed, Object
    <2> QED  BY <1>2, <2>1 DEF RowDone
<1>3. CASE \/ CheckTypes \/ ReadObject \/ OrdinaryNull
           \/ AppendValue \/ Mismatch \/ Finish \/ Returned
           \/ UNCHANGED jsonVars
    <2>1. UNCHANGED <<json, row, malformed>>
        BY <1>3 DEF CheckTypes, ReadObject, OrdinaryNull, AppendValue,
           Mismatch, Finish, Returned, jsonVars
    <2>2. Malformed(row)' = Malformed(row)  BY <2>1 DEF Malformed, Object
    <2> QED  BY <2>1, <2>2
<1> QED  BY <1>1, <1>2, <1>3 DEF JsonNext

(* What the mismatch of one field does to the counts of all paths. *)
LEMMA Counts ==
    ASSUME ShapeInv, MismatchType, Mismatch
    PROVE  /\ MismatchType'
           /\ \A path : Counted(path)' =
                  Counted(path) + (IF path = schema[field + 1].path THEN 1 ELSE 0)
<1>1. PICK at : at = schema[field + 1].path  OBVIOUS
<1>2. /\ mismatches' = CountMismatch(at) /\ UNCHANGED <<json, schema, row>>
      /\ field + 1 \in Fields /\ Fields' = Fields
    BY <1>1 DEF Mismatch, ShapeInv, Fields
<1>3. at \in {schema[c].path : c \in Fields}  BY <1>1, <1>2
<1>4. DOMAIN mismatches' = DOMAIN mismatches \cup {at}  BY <1>2 DEF CountMismatch
<1>5. \A p \in DOMAIN mismatches : mismatches[p] \in Nat \ {0}  BY DEF MismatchType
<1>6. \A p \in DOMAIN mismatches' :
         mismatches'[p] = (IF p \in DOMAIN mismatches THEN mismatches[p] ELSE 0)
                              + (IF p = at THEN 1 ELSE 0)
    BY <1>2, <1>4 DEF CountMismatch
<1>7. MismatchType'
    <2>1. DOMAIN mismatches' \subseteq {schema[c].path : c \in Fields}
        BY <1>3, <1>4 DEF MismatchType
    <2>2. \A p \in DOMAIN mismatches' : mismatches'[p] \in Nat \ {0}
        BY <1>4, <1>5, <1>6
    <2>3. mismatches' = [p \in DOMAIN mismatches' |-> mismatches'[p]]
        BY <1>2 DEF CountMismatch
    <2>4. mismatches' \in [DOMAIN mismatches' -> Nat \ {0}]  BY <2>2, <2>3
    <2>5. {schema[c].path : c \in Fields}' = {schema[c].path : c \in Fields}
        BY <1>2
    <2> QED  BY <2>1, <2>4, <2>5 DEF MismatchType
<1>8. ASSUME NEW path
      PROVE  Counted(path)' = Counted(path) + (IF path = at THEN 1 ELSE 0)
    BY <1>4, <1>5, <1>6 DEF Counted
<1> QED  BY <1>1, <1>7, <1>8

(* The steps that leave the counts of mismatches alone. *)
LEMMA CountsKept ==
    ASSUME ShapeInv, MismatchType, [JsonNext]_jsonVars, ~ Mismatch
    PROVE  MismatchType' /\ \A path : Counted(path)' = Counted(path)
<1>1. UNCHANGED <<schema, mismatches>>
    BY DEF JsonNext, jsonVars, CheckTypes, ReadObject, MalformedRow,
       OrdinaryNull, AppendValue, RowDone, Finish, Returned
<1> QED  BY <1>1 DEF MismatchType, Counted, Fields

LEMMA MismatchStep ==
    ShapeInv /\ LengthInv /\ MismatchType /\ MismatchInv /\ [JsonNext]_jsonVars
        => MismatchType' /\ MismatchInv'
<1> SUFFICES ASSUME ShapeInv, LengthInv, MismatchType, MismatchInv, [JsonNext]_jsonVars
             PROVE  MismatchType' /\ MismatchInv'
    OBVIOUS
<1>1. MismatchType'  BY Counts, CountsKept
<1>2. ASSUME NEW c \in Fields', Alone(c)'
      PROVE  Cardinality(Mismatched(c, Filled(c)))' = Counted(schema[c].path)'
    <2>1. schema' = schema
        BY DEF JsonNext, jsonVars, CheckTypes, ReadObject, MalformedRow,
           OrdinaryNull, AppendValue, Mismatch, RowDone, Finish,
           Returned
    <2>2. c \in Fields /\ Alone(c)  BY <1>2, <2>1 DEF Fields, Alone
    <2>3. json' = json  BY <2>2, Growth
    <2>4. PICK n : n = Filled(c)  OBVIOUS
    <2>5. PICK path : path = schema[c].path  OBVIOUS
    <2>6. /\ n \in Nat /\ Mismatched(c, n) \subseteq 1..n
          /\ Cardinality(Mismatched(c, n)) = Counted(path)
        BY <2>2, <2>4, <2>5 DEF ShapeInv, Filled, Mismatched, MismatchInv
    <2>7. \A k : Mismatched(c, k)' = Mismatched(c, k)
        BY <2>1, <2>3 DEF Mismatched, Object, Kind
    <2>8. Counted(schema[c].path)' = Counted(path)'  BY <2>1, <2>5
    <2>9. Cardinality(Mismatched(c, Filled(c)))' = Cardinality(Mismatched(c, Filled(c)'))
        BY <2>1, <2>3 DEF Mismatched, Object, Kind
    <2>10. CASE ~ Grows(c)
        <3>1. Filled(c)' = n  BY <2>2, <2>4, <2>10, Growth
        <3>2. Mismatch => schema[field + 1].path # path
            BY <2>2, <2>5, <2>10 DEF Mismatch, Grows, Alone, ShapeInv, Fields
        <3>3. Counted(path)' = Counted(path)
            <4>1. Counted(path) \in Nat  BY DEF Counted, MismatchType
            <4> QED  BY <3>2, <4>1, Counts, CountsKept
        <3> QED  BY <2>6, <2>8, <2>9, <3>1, <3>3
    <2>11. CASE Grows(c)
        <3>1. Filled(c)' = n + 1 /\ n = row  BY <2>2, <2>4, <2>11, Growth
        <3>2. CASE Mismatch
            <4>1. c = field + 1 /\ Object(n + 1)
                BY <2>11, <3>1, <3>2 DEF Grows, MalformedRow, Mismatch, ShapeInv
            <4>2. Kind(c, n + 1) \notin {"nothing", "null"} \cup Reads[schema[c].type]
                BY <3>1, <3>2, <4>1 DEF Mismatch, Kind, value
            <4>3. Mismatched(c, n + 1) = Mismatched(c, n) \cup {n + 1}
                BY <2>6, <4>1, <4>2 DEF Mismatched
            <4>4. Cardinality(Mismatched(c, n) \cup {n + 1}) = Cardinality(Mismatched(c, n)) + 1
                BY <2>6, CountOne
            <4>5. Counted(path)' = Counted(path) + 1  BY <2>5, <3>2, <4>1, Counts
            <4> QED  BY <2>6, <2>8, <2>9, <3>1, <4>3, <4>4, <4>5
        <3>3. CASE ~ Mismatch
            <4>1. \/ ~ Object(n + 1)
                  \/ Kind(c, n + 1) \in {"nothing", "null"} \cup Reads[schema[c].type]
                BY <2>11, <3>1, <3>3 DEF Grows, MalformedRow, OrdinaryNull,
                   AppendValue, Object, Kind, value
            <4>2. Mismatched(c, n + 1) = Mismatched(c, n)
                BY <2>6, <4>1 DEF Mismatched
            <4>3. Counted(path)' = Counted(path)  BY <3>3, CountsKept
            <4> QED  BY <2>6, <2>8, <2>9, <3>1, <4>2, <4>3
        <3> QED  BY <3>2, <3>3
    <2> QED  BY <2>10, <2>11
<1> QED  BY <1>1, <1>2 DEF MismatchInv

LEMMA InitJson == JsonInit => JsonInv
<1> SUFFICES ASSUME SchemasOfFields, JsonInit PROVE JsonInv  BY JsonAssumption
<1>1. ShapeInv  BY ShapeInit
<1>2. \A c \in Fields : Filled(c) = 0  BY DEF JsonInit, Filled
<1>3. Len(<<>>) = 0 /\ 1..0 = {} /\ Cardinality({}) = 0  BY FS_EmptySet
<1>4. LengthInv  BY <1>2, <1>3 DEF LengthInv, JsonInit, Fields
<1>5. CellsInv  BY <1>2, <1>3 DEF CellsInv
<1>6. MalformedInv
    <2>1. Malformed(0) = {}  BY <1>3 DEF Malformed
    <2> QED  BY <1>3, <2>1 DEF MalformedInv, JsonInit
<1>7. MismatchType /\ MismatchInv
    <2>1. mismatches = [path \in {} |-> 0] /\ DOMAIN mismatches = {}  BY DEF JsonInit
    <2>2. \A c \in Fields : Mismatched(c, 0) = {}  BY <1>3 DEF Mismatched
    <2>3. \A path : Counted(path) = 0  BY <2>1 DEF Counted
    <2> QED  BY <1>2, <1>3, <2>1, <2>2, <2>3 DEF MismatchType, MismatchInv
<1> QED  BY <1>1, <1>4, <1>5, <1>6, <1>7 DEF JsonInv

LEMMA SpecJson == JsonSpec => []JsonInv
<1>1. JsonInv /\ [JsonNext]_jsonVars => JsonInv'
    BY ShapeStep, LengthStep, CellsStep, MalformedStep, MismatchStep DEF JsonInv
<1> QED  BY <1>1, InitJson, PTL DEF JsonSpec

(* In what is returned no null is silent: the nulls of a column whose path *)
(* no other field reads are the malformed rows, the counted mismatches,    *)
(* and the rows whose path holds nothing or null, each of them once.       *)
THEOREM NoNullIsSilent == JsonSpec => []StatsExplainNulls
<1>1. JsonInv => StatsExplainNulls
    <2> SUFFICES ASSUME JsonInv, pc = "done", NEW c \in Fields,
                        {d \in Fields : schema[d].path = schema[c].path} = {c}
                 PROVE  Nulls(c) = malformed
                            + Cardinality({i \in 1..Len(json) : IsObject(json[i])
                                  /\ Walk(json[i], schema[c].path).kind
                                        \in {"nothing", "null"}})
                            + Counted(schema[c].path)
        BY DEF StatsExplainNulls, Fields, Counted
    <2> DEFINE n == Len(json)
               M == Malformed(n)
               O == Ordinary(c, n)
               X == Mismatched(c, n)
    <2>1. row = n /\ n \in Nat /\ Filled(c) = n /\ Len(columns[c]) = n
        BY DEF JsonInv, ShapeInv, LengthInv, Filled
    <2>2. Alone(c)  BY DEF Alone
    <2>3. {i \in 1..Len(columns[c]) : columns[c][i] = "null"} = M \cup O \cup X
        <3>1. \A i \in 1..n : columns[c][i] = "null" <=> i \in M \cup O \cup X
            BY <2>1 DEF JsonInv, CellsInv
        <3> QED  BY <2>1, <3>1 DEF Malformed, Ordinary, Mismatched
    <2>4. /\ M \subseteq 1..n /\ O \subseteq 1..n /\ X \subseteq 1..n
          /\ M \cap O = {} /\ M \cap X = {} /\ O \cap X = {}
        BY DEF Malformed, Ordinary, Mismatched
    <2>5. malformed = Cardinality(M) /\ Cardinality(X) = Counted(schema[c].path)
        BY <2>1, <2>2 DEF JsonInv, MalformedInv, MismatchInv
    <2>6. O = {i \in 1..Len(json) : IsObject(json[i])
                  /\ Walk(json[i], schema[c].path).kind \in {"nothing", "null"}}
        BY DEF Ordinary, Object, Kind
    <2> HIDE DEF n, M, O, X
    <2>7. /\ IsFiniteSet(M) /\ IsFiniteSet(O) /\ IsFiniteSet(X)
          /\ Cardinality(M) \in Nat /\ Cardinality(O) \in Nat /\ Cardinality(X) \in Nat
        BY <2>1, <2>4, Finite
    <2>8. Cardinality(M \cup O) = Cardinality(M) + Cardinality(O) /\ IsFiniteSet(M \cup O)
        <3>1. Cardinality(M \cap O) = 0  BY <2>4, FS_EmptySet
        <3> QED  BY <2>7, <3>1, FS_Union
    <2>9. Cardinality(M \cup O \cup X) = Cardinality(M) + Cardinality(O) + Cardinality(X)
        <3>1. (M \cup O) \cap X = {}  BY <2>4
        <3>2. Cardinality((M \cup O) \cap X) = 0  BY <3>1, FS_EmptySet
        <3>3. Cardinality((M \cup O) \cup X) =
                  Cardinality(M \cup O) + Cardinality(X) - Cardinality((M \cup O) \cap X)
            BY <2>7, <2>8, FS_Union
        <3> QED  BY <2>7, <2>8, <3>2, <3>3
    <2>10. Nulls(c) = Cardinality(M \cup O \cup X)
        BY <2>3 DEF Nulls
    <2>11. Cardinality({i \in 1..Len(json) : IsObject(json[i])
                  /\ Walk(json[i], schema[c].path).kind \in {"nothing", "null"}})
               = Cardinality(O)
        BY <2>6
    <2> QED  BY <2>5, <2>9, <2>10, <2>11
<1> QED  BY <1>1, SpecJson, PTL

(* The state is of its type; among others no row is counted malformed      *)
(* twice, and only paths of the schema are counted.                        *)
THEOREM JsonTypesKept == JsonSpec => []JsonTypeOK
<1> DEFINE Inputs == /\ json \in UNION {[1..n -> Texts \cup {NullText}] : n \in 0..MaxRows}
                     /\ schema \in Schemas
<1>1. JsonInit => Inputs  BY DEF JsonInit
<1>2. Inputs /\ [JsonNext]_jsonVars => Inputs'
    <2>1. [JsonNext]_jsonVars => UNCHANGED <<json, schema>>
        BY DEF JsonNext, jsonVars, CheckTypes, ReadObject, MalformedRow,
           OrdinaryNull, AppendValue, Mismatch, RowDone, Finish,
           Returned
    <2> QED  BY <2>1
<1>3. Inputs /\ JsonInv => JsonTypeOK
    <2> SUFFICES ASSUME Inputs, JsonInv PROVE JsonTypeOK  OBVIOUS
    <2>1. malformed \in 0..row
        <3>1. row \in Nat /\ Malformed(row) \subseteq 1..row
            BY DEF JsonInv, ShapeInv, Malformed
        <3>2. IsFiniteSet(1..row) /\ Cardinality(1..row) = row
            <4>1. 1 \in Int /\ row \in Int  BY <3>1
            <4>2. Cardinality(1..row) = IF 1 > row THEN 0 ELSE row - 1 + 1
                BY <4>1, FS_Interval
            <4> QED  BY <3>1, <4>1, <4>2, FS_Interval
        <3>3. Cardinality(Malformed(row)) <= row
            BY <3>1, <3>2, FS_Subset
        <3> QED  BY <3>1, <3>3, Finite DEF JsonInv, MalformedInv
    <2>2. /\ DOMAIN mismatches \subseteq {schema[c].path : c \in 1..Len(schema)}
          /\ \A path \in DOMAIN mismatches : mismatches[path] \in Nat \ {0}
        BY DEF JsonInv, MismatchType, Fields
    <2> QED  BY <2>1, <2>2 DEF JsonTypeOK, JsonInv, ShapeInv, Fields
<1> HIDE DEF Inputs
<1> QED  BY <1>1, <1>2, <1>3, SpecJson, PTL DEF JsonSpec
=============================================================================
