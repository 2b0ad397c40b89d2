------------------------- MODULE EquivalenceProofs --------------------------
(***************************************************************************)
(* validate_schema, and check_equivalence around it, for every set of      *)
(* schemas, of whatever length, duplicate field names included.  The call  *)
(* adds nothing to what is shown of the difference, and takes its verdict  *)
(* from it only when it is complete.  Then what its verdict says of rows,  *)
(* for batches of any size: which cells and rows hash alike, that equal    *)
(* fingerprints are equal bags of rows, and that the exact mode is exact.  *)
(* Last, what the fingerprint of a schema shows of a change.               *)
(***************************************************************************)
EXTENDS Equivalence, FoldLemmas, FiniteSetTheorems, SequenceTheorems, TLAPS

-----------------------------------------------------------------------------
(* validate_schema. *)
(* One column of a schema can be read where another is wanted. *)
FieldReadableAs(have, want, widening, k) ==
    /\ want[k].name \in FieldNames(have)
    /\ TypesCompatible(want[k].type, FieldFor(have, want[k].name).type, widening)
    /\ FieldFor(have, want[k].name).nullable => want[k].nullable

(* What the loop maintains: the difference is breaking exactly if one of   *)
(* the fields judged so far cannot be read.                                *)
JudgedSoFar ==
    IsBreaking(diff) <=>
        \E k \in 1..next : ~ FieldReadableAs(actual, expected, allowWidening, k)

IInv ==
    /\ TypeOK
    /\ JudgedSoFar
    /\ pc = "done" => next = Len(expected)

-----------------------------------------------------------------------------
(* A name that occurs in a schema has a last occurrence. *)
LEMMA LastOccurrence ==
    ASSUME NEW s, Len(s) \in Nat, NEW name \in FieldNames(s)
    PROVE  LastNamed(s, name) \in 1..Len(s) /\ FieldFor(s, name).name = name
<1> DEFINE Named == {k \in 1..Len(s) : s[k].name = name}
<1>1. Named \in SUBSET (1..Len(s)) /\ Named # {}  BY DEF FieldNames
<1>2. Max(Named) \in Named /\ \A j \in Named : Max(Named) >= j
    <2> HIDE DEF Named
    <2> QED  BY <1>1, MaxIn
<1>3. \E k \in 1..Len(s) :
          s[k].name = name /\ \A j \in 1..Len(s) : s[j].name = name => j <= k
    BY <1>1, <1>2
<1> QED  BY <1>3 DEF LastNamed, FieldFor

(* Widening twice is widening. *)
LEMMA WideningTransitive ==
    ASSUME NEW a, NEW b, NEW c, NEW widening,
           TypesCompatible(a, b, widening), TypesCompatible(b, c, widening)
    PROVE  TypesCompatible(a, c, widening)
BY DEF TypesCompatible, IsNumericWidening, Wider

(* What can be read as a schema can be read as any it can be read as. *)
LEMMA ReadableTransitive ==
    ASSUME NEW s \in Schemas, NEW t \in Schemas, NEW u \in Schemas, NEW widening,
           ReadableAs(t, s, widening), ReadableAs(u, t, widening)
    PROVE  ReadableAs(u, s, widening)
<1> SUFFICES ASSUME NEW k \in 1..Len(s)
             PROVE  FieldReadableAs(u, s, widening, k)
  BY DEF ReadableAs, FieldReadableAs
<1> DEFINE name == s[k].name
           j == LastNamed(t, name)
<1>1. Len(t) \in Nat BY SchemasAreSequences
<1>2. name \in FieldNames(t) BY DEF ReadableAs
<1>3. j \in 1..Len(t) /\ t[j].name = name /\ FieldFor(t, name) = t[j]
  BY <1>1, <1>2, LastOccurrence DEF FieldFor
<1>4. /\ TypesCompatible(s[k].type, t[j].type, widening)
      /\ t[j].nullable => s[k].nullable
  BY <1>3 DEF ReadableAs
<1>5. /\ t[j].name \in FieldNames(u)
      /\ TypesCompatible(t[j].type, FieldFor(u, t[j].name).type, widening)
      /\ FieldFor(u, t[j].name).nullable => t[j].nullable
  BY <1>3 DEF ReadableAs
<1> QED BY <1>3, <1>4, <1>5, WideningTransitive DEF FieldReadableAs

-----------------------------------------------------------------------------
LEMMA InitIInv == Init => IInv
BY SchemasAreSequences DEF Init, IInv, TypeOK, JudgedSoFar, NoDifference, IsBreaking

(* A field found judged, all those before it judged. *)
LEMMA OneMoreJudged ==
    ASSUME IInv, pc = "compare", next < Len(expected),
           next' = next + 1, UNCHANGED <<actual, expected, allowWidening>>,
           IsBreaking(diff') <=> IsBreaking(diff)
               \/ ~ FieldReadableAs(actual, expected, allowWidening, next + 1)
    PROVE  JudgedSoFar'
<1>1. next \in Nat BY DEF IInv, TypeOK
<1>2. 1..(next + 1) = (1..next) \cup {next + 1} BY <1>1
<1>3. IsBreaking(diff') <=>
        \E k \in 1..(next + 1) : ~ FieldReadableAs(actual, expected, allowWidening, k)
  BY <1>2 DEF IInv, JudgedSoFar
<1> QED BY <1>3 DEF JudgedSoFar

LEMMA MissingFieldIInv == IInv /\ MissingField => IInv'
<1> SUFFICES ASSUME IInv, MissingField PROVE IInv' OBVIOUS
<1>0. Len(expected) \in Nat BY SchemasAreSequences DEF IInv, TypeOK
<1>1. field.name \in FieldNames(expected) \ FieldNames(actual)
  BY <1>0 DEF IInv, TypeOK, MissingField, field, FieldNames
<1>2. TypeOK' BY <1>0, <1>1 DEF IInv, TypeOK, MissingField
<1>3. IsBreaking(diff') /\ ~ FieldReadableAs(actual, expected, allowWidening, next + 1)
  BY <1>1 DEF IInv, TypeOK, MissingField, IsBreaking, FieldReadableAs, field
<1>4. JudgedSoFar' BY <1>3, OneMoreJudged DEF MissingField
<1> QED BY <1>2, <1>4 DEF IInv, MissingField

LEMMA CompareFieldIInv == IInv /\ CompareField => IInv'
<1> SUFFICES ASSUME IInv, CompareField PROVE IInv' OBVIOUS
<1>0. Len(expected) \in Nat BY SchemasAreSequences DEF IInv, TypeOK
<1> DEFINE found == FieldFor(actual, field.name)
           typeOk == TypesCompatible(field.type, found.type, allowWidening)
           nullOk == NullabilityCompatible(field.nullable, found.nullable)
<1>1. field.name \in FieldNames(expected) \cap FieldNames(actual)
  BY <1>0 DEF IInv, TypeOK, CompareField, field, FieldNames
<1>2. diff' = [diff EXCEPT !.retyped = @ \cup IF typeOk THEN {} ELSE {field.name},
                           !.nullability = @ \cup IF nullOk THEN {} ELSE {field.name}]
  BY DEF CompareField
<1> HIDE DEF typeOk, nullOk
<1>3. TypeOK'
  <2> DEFINE both == FieldNames(expected) \cap FieldNames(actual)
             retyped == diff.retyped \cup IF typeOk THEN {} ELSE {field.name}
             nullability == diff.nullability \cup IF nullOk THEN {} ELSE {field.name}
  <2>1. retyped \in SUBSET both /\ nullability \in SUBSET both
    BY <1>1 DEF IInv, TypeOK
  <2>2. diff' = [diff EXCEPT !.retyped = retyped, !.nullability = nullability]
    BY <1>2
  <2> HIDE DEF retyped, nullability
  <2>3. diff' = [missing |-> diff.missing, unexpected |-> diff.unexpected,
                 retyped |-> retyped, nullability |-> nullability]
    BY <2>2 DEF IInv, TypeOK
  <2>4. next' \in 0..Len(expected) BY <1>0 DEF IInv, TypeOK, CompareField
  <2> QED BY <2>1, <2>3, <2>4 DEF IInv, TypeOK, CompareField
<1>4. IsBreaking(diff') <=> IsBreaking(diff) \/ ~ typeOk \/ ~ nullOk
  BY <1>2 DEF IInv, TypeOK, IsBreaking
<1>5. FieldReadableAs(actual, expected, allowWidening, next + 1) <=> typeOk /\ nullOk
  BY <1>1 DEF FieldReadableAs, typeOk, nullOk, field, NullabilityCompatible
<1>6. JudgedSoFar' BY <1>4, <1>5, OneMoreJudged DEF CompareField
<1> QED BY <1>3, <1>6 DEF IInv, CompareField

LEMMA ListUnexpectedIInv == IInv /\ ListUnexpected => IInv'
<1> SUFFICES ASSUME IInv, ListUnexpected PROVE IInv' OBVIOUS
<1>1. TypeOK' BY DEF IInv, TypeOK, ListUnexpected, Unexpected
<1>2. IsBreaking(diff') <=> IsBreaking(diff)
  BY DEF IInv, TypeOK, ListUnexpected, IsBreaking
<1>3. JudgedSoFar'
  BY <1>2 DEF IInv, ListUnexpected, JudgedSoFar
<1> QED BY <1>1, <1>3 DEF IInv, ListUnexpected

LEMMA NextIInv == IInv /\ [Next]_vars => IInv'
<1> SUFFICES ASSUME IInv, UNCHANGED vars PROVE IInv'
  BY MissingFieldIInv, CompareFieldIInv, ListUnexpectedIInv DEF Next, Returned
<1> QED BY DEF vars, IInv, TypeOK, JudgedSoFar

(* The invariant holds of every reachable state. *)
THEOREM SpecIInv == Spec => []IInv
BY InitIInv, NextIInv, PTL DEF Spec

-----------------------------------------------------------------------------
(* Every column named in a difference is where its list says: missing and  *)
(* unexpected ones on one side only, the others on both.                   *)
THEOREM SchemaTypeOK == Spec => []TypeOK
<1>1. IInv => TypeOK BY DEF IInv
<1> QED BY <1>1, SpecIInv, PTL

(* validate_schema calls a difference breaking exactly if code written     *)
(* against the expected schema cannot read data of the actual one.         *)
THEOREM BreakingExact == Spec => []BreakingIsExact
<1>1. IInv => BreakingIsExact
  BY DEF IInv, BreakingIsExact, JudgedSoFar, ReadableAs, FieldReadableAs
<1> QED BY <1>1, SpecIInv, PTL

(* Two steps of a schema's evolution that break nothing break nothing      *)
(* together, with widening allowed or not.                                 *)
THEOREM EvolutionSteps == Spec => []EvolutionComposes
<1>1. IInv => EvolutionComposes
  <2> SUFFICES ASSUME IInv, pc = "done", NEW middle \in Schemas,
                      ReadableAs(middle, expected, allowWidening),
                      ReadableAs(actual, middle, allowWidening)
               PROVE  ~ IsBreaking(diff)
    BY DEF EvolutionComposes
  <2>1. ReadableAs(actual, expected, allowWidening)
    BY ReadableTransitive DEF IInv, TypeOK
  <2> QED BY <2>1 DEF IInv, JudgedSoFar, ReadableAs, FieldReadableAs
<1> QED BY <1>1, SpecIInv, PTL
-----------------------------------------------------------------------------
(* Which expected fields a list of the difference is about. *)
Found(k) == expected[k].name \in FieldNames(actual)
Retyped(k) ==
    /\ Found(k)
    /\ ~ TypesCompatible(expected[k].type, FieldFor(actual, expected[k].name).type, allowWidening)
Loosened(k) ==
    /\ Found(k)
    /\ ~ NullabilityCompatible(expected[k].nullable, FieldFor(actual, expected[k].name).nullable)

(* Every list has the names of the faults found so far, and no other.      *)
ListedSoFar ==
    /\ diff.missing = {expected[k].name : k \in {j \in 1..next : ~ Found(j)}}
    /\ diff.retyped = {expected[k].name : k \in {j \in 1..next : Retyped(j)}}
    /\ diff.nullability = {expected[k].name : k \in {j \in 1..next : Loosened(j)}}
    /\ diff.unexpected = IF pc = "done" THEN Unexpected ELSE {}

LEMMA InitListed == Init => ListedSoFar
<1> SUFFICES ASSUME Init PROVE ListedSoFar  OBVIOUS
<1>1. 1..next = {}  BY DEF Init
<1>2. /\ diff.missing = {} /\ diff.retyped = {} /\ diff.nullability = {}
      /\ diff.unexpected = {} /\ pc = "compare"
    BY DEF Init, NoDifference
<1> QED  BY <1>1, <1>2 DEF ListedSoFar

(* The judgement of one more field adds it to the lists it is at fault in. *)
LEMMA OneMoreListed ==
    ASSUME IInv, ListedSoFar, pc = "compare", next < Len(expected),
           next' = next + 1, UNCHANGED <<pc, actual, expected, allowWidening>>,
           diff'.missing = diff.missing \cup IF Found(next + 1) THEN {} ELSE {field.name},
           diff'.retyped = diff.retyped \cup IF Retyped(next + 1) THEN {field.name} ELSE {},
           diff'.nullability = diff.nullability
                \cup IF Loosened(next + 1) THEN {field.name} ELSE {},
           diff'.unexpected = diff.unexpected
    PROVE  ListedSoFar'
<1>1. next \in Nat  BY DEF IInv, TypeOK
<1>2. 1..(next + 1) = (1..next) \cup {next + 1}  BY <1>1
<1>3. diff'.missing = {expected[k].name : k \in {j \in 1..(next + 1) : ~ Found(j)}}
    BY <1>2 DEF ListedSoFar, field
<1>4. diff'.retyped = {expected[k].name : k \in {j \in 1..(next + 1) : Retyped(j)}}
    BY <1>2 DEF ListedSoFar, field
<1>5. diff'.nullability = {expected[k].name : k \in {j \in 1..(next + 1) : Loosened(j)}}
    BY <1>2 DEF ListedSoFar, field
<1>6. diff'.missing = {expected'[k].name : k \in {j \in 1..next' : ~ Found(j)'}}
    BY <1>3 DEF Found
<1>7. diff'.retyped = {expected'[k].name : k \in {j \in 1..next' : Retyped(j)'}}
    BY <1>4 DEF Found, Retyped
<1>8. diff'.nullability = {expected'[k].name : k \in {j \in 1..next' : Loosened(j)'}}
    BY <1>5 DEF Found, Loosened
<1>9. diff'.unexpected = IF pc' = "done" THEN Unexpected' ELSE {}
    BY DEF ListedSoFar
<1> QED  BY <1>6, <1>7, <1>8, <1>9 DEF ListedSoFar

LEMMA MissingFieldListed == IInv /\ ListedSoFar /\ MissingField => ListedSoFar'
<1> SUFFICES ASSUME IInv, ListedSoFar, MissingField PROVE ListedSoFar'  OBVIOUS
<1>1. ~ Found(next + 1) /\ ~ Retyped(next + 1) /\ ~ Loosened(next + 1)
    BY DEF MissingField, field, Found, Retyped, Loosened
<1>2. /\ diff'.missing = diff.missing \cup {field.name}
      /\ diff'.retyped = diff.retyped /\ diff'.nullability = diff.nullability
      /\ diff'.unexpected = diff.unexpected
    BY DEF IInv, TypeOK, MissingField
<1> QED  BY <1>1, <1>2, OneMoreListed DEF MissingField

LEMMA CompareFieldListed == IInv /\ ListedSoFar /\ CompareField => ListedSoFar'
<1> SUFFICES ASSUME IInv, ListedSoFar, CompareField PROVE ListedSoFar'  OBVIOUS
<1> DEFINE found == FieldFor(actual, field.name)
           typeOk == TypesCompatible(field.type, found.type, allowWidening)
           nullOk == NullabilityCompatible(field.nullable, found.nullable)
<1>1. Found(next + 1) /\ (Retyped(next + 1) <=> ~ typeOk) /\ (Loosened(next + 1) <=> ~ nullOk)
    BY DEF CompareField, field, Found, Retyped, Loosened
<1>2. diff' = [diff EXCEPT !.retyped = @ \cup IF typeOk THEN {} ELSE {field.name},
                           !.nullability = @ \cup IF nullOk THEN {} ELSE {field.name}]
    BY DEF CompareField
<1> HIDE DEF typeOk, nullOk
<1>3. /\ diff'.missing = diff.missing /\ diff'.unexpected = diff.unexpected
      /\ diff'.retyped = diff.retyped \cup IF typeOk THEN {} ELSE {field.name}
      /\ diff'.nullability = diff.nullability \cup IF nullOk THEN {} ELSE {field.name}
    BY <1>2 DEF IInv, TypeOK
<1> QED  BY <1>1, <1>3, OneMoreListed DEF CompareField

LEMMA ListUnexpectedListed == IInv /\ ListedSoFar /\ ListUnexpected => ListedSoFar'
<1> SUFFICES ASSUME IInv, ListedSoFar, ListUnexpected PROVE ListedSoFar'  OBVIOUS
<1>1. /\ diff'.missing = diff.missing /\ diff'.retyped = diff.retyped
      /\ diff'.nullability = diff.nullability /\ diff'.unexpected = Unexpected
    BY DEF IInv, TypeOK, ListUnexpected
<1> QED  BY <1>1 DEF ListedSoFar, ListUnexpected, Found, Retyped, Loosened, Unexpected

(* The lists are exact in every reachable state. *)
THEOREM SpecListed == Spec => [](IInv /\ ListedSoFar)
<1>1. IInv /\ ListedSoFar /\ [Next]_vars => ListedSoFar'
    <2> SUFFICES ASSUME IInv, ListedSoFar, UNCHANGED vars PROVE ListedSoFar'
        BY MissingFieldListed, CompareFieldListed, ListUnexpectedListed DEF Next, Returned
    <2> QED  BY DEF vars, ListedSoFar, Found, Retyped, Loosened, Unexpected
<1> QED  BY <1>1, InitListed, SpecIInv, PTL DEF Spec

(* The difference returned has every fault of every field, and none that   *)
(* is not there.                                                           *)
THEOREM FaultsReported == Spec => []ReportsEveryFault
<1>1. IInv /\ ListedSoFar => ReportsEveryFault
    <2> SUFFICES ASSUME IInv, ListedSoFar, pc = "done"
                 PROVE  diff = DiffOf(actual, expected, allowWidening)
        BY DEF ReportsEveryFault
    <2>1. next = Len(expected)  BY DEF IInv
    <2>2. diff.missing = FieldNames(expected) \ FieldNames(actual)
        BY <2>1 DEF ListedSoFar, Found, FieldNames
    <2>3. diff.unexpected = FieldNames(actual) \ FieldNames(expected)
        BY DEF ListedSoFar, Unexpected
    <2> DEFINE shared == {k \in 1..Len(expected) : expected[k].name \in FieldNames(actual)}
               Match(k) == FieldFor(actual, expected[k].name)
               retyped == {expected[k].name : k \in {k \in shared :
                   ~ TypesCompatible(expected[k].type, Match(k).type, allowWidening)}}
               loosened == {expected[k].name : k \in {k \in shared :
                   ~ NullabilityCompatible(expected[k].nullable, Match(k).nullable)}}
    <2>4. diff.retyped = retyped
        BY <2>1 DEF ListedSoFar, Retyped, Found
    <2>5. diff.nullability = loosened
        BY <2>1 DEF ListedSoFar, Loosened, Found
    <2>6. diff = [missing |-> diff.missing, unexpected |-> diff.unexpected,
                  retyped |-> diff.retyped, nullability |-> diff.nullability]
        BY DEF IInv, TypeOK
    <2>7. DiffOf(actual, expected, allowWidening) =
              [missing |-> FieldNames(expected) \ FieldNames(actual),
               unexpected |-> FieldNames(actual) \ FieldNames(expected),
               retyped |-> retyped, nullability |-> loosened]
        BY DEF DiffOf
    <2> QED  BY <2>2, <2>3, <2>4, <2>5, <2>6, <2>7
<1> QED  BY <1>1, SpecListed, PTL

(* Two schemas of distinct names that differ in nothing, with types        *)
(* compared strictly, have the same columns, in whatever order.            *)
LEMMA EmptyGivesSame ==
    ASSUME IInv, ListedSoFar, pc = "done", IsEmptyDiff(diff), ~ allowWidening,
           DistinctNames(actual)
    PROVE  ColumnsOf(actual) = ColumnsOf(expected) /\ NoNullsUnforeseen
<1>1. Len(actual) \in Nat /\ next = Len(expected)
    BY SchemasAreSequences DEF IInv, TypeOK
<1>2. diff.missing = {} /\ diff.retyped = {} /\ diff.nullability = {} /\ diff.unexpected = {}
    BY DEF IsEmptyDiff, NoDifference
<1>3. ASSUME NEW k \in 1..Len(expected) PROVE Found(k) /\ ~ Retyped(k) /\ ~ Loosened(k)
    <2>1. CASE ~ Found(k)
        <3>1. expected[k].name \in diff.missing  BY <1>1, <2>1 DEF ListedSoFar
        <3> QED  BY <1>2, <3>1
    <2>2. CASE Retyped(k)
        <3>1. expected[k].name \in diff.retyped  BY <1>1, <2>2 DEF ListedSoFar
        <3> QED  BY <1>2, <3>1
    <2>3. CASE Loosened(k)
        <3>1. expected[k].name \in diff.nullability  BY <1>1, <2>3 DEF ListedSoFar
        <3> QED  BY <1>2, <3>1
    <2> QED  BY <2>1, <2>2, <2>3
<1>4. FieldNames(actual) \subseteq FieldNames(expected)
    BY <1>2 DEF ListedSoFar, Unexpected
<1>5. ASSUME NEW k \in 1..Len(expected)
      PROVE  \E j \in 1..Len(actual) :
                /\ actual[j].name = expected[k].name /\ actual[j].type = expected[k].type
                /\ actual[j].nullable => expected[k].nullable
    <2>1. expected[k].name \in FieldNames(actual)  BY <1>3 DEF Found
    <2> DEFINE j == LastNamed(actual, expected[k].name)
    <2>2. j \in 1..Len(actual) /\ FieldFor(actual, expected[k].name).name = expected[k].name
        BY <1>1, <2>1, LastOccurrence
    <2>3. expected[k].type = FieldFor(actual, expected[k].name).type
        BY <1>3 DEF Found, Retyped, TypesCompatible
    <2>4. FieldFor(actual, expected[k].name).nullable => expected[k].nullable
        BY <1>3 DEF Found, Loosened, NullabilityCompatible
    <2>5. actual[j] = FieldFor(actual, expected[k].name)  BY DEF FieldFor
    <2> HIDE DEF j
    <2> QED  BY <2>2, <2>3, <2>4, <2>5
<1>6. ColumnsOf(expected) \subseteq ColumnsOf(actual)  BY <1>5 DEF ColumnsOf
<1>7. ASSUME NEW j \in 1..Len(actual)
      PROVE  [name |-> actual[j].name, type |-> actual[j].type] \in ColumnsOf(expected)
    <2>1. actual[j].name \in FieldNames(expected)  BY <1>4 DEF FieldNames
    <2>2. PICK k \in 1..Len(expected) : expected[k].name = actual[j].name
        BY <2>1 DEF FieldNames
    <2>3. PICK i \in 1..Len(actual) :
            actual[i].name = expected[k].name /\ actual[i].type = expected[k].type
        BY <1>5
    <2>4. i = j  BY <2>2, <2>3 DEF DistinctNames
    <2> QED  BY <2>2, <2>3, <2>4 DEF ColumnsOf
<1>8. ASSUME NEW j \in 1..Len(actual), NEW k \in 1..Len(expected),
             actual[j].name = expected[k].name, actual[j].nullable
      PROVE  expected[k].nullable
    <2>1. PICK i \in 1..Len(actual) :
            actual[i].name = expected[k].name /\ (actual[i].nullable => expected[k].nullable)
        BY <1>5
    <2>2. i = j  BY <1>8, <2>1 DEF DistinctNames
    <2> QED  BY <1>8, <2>1, <2>2
<1>9. ColumnsOf(actual) \subseteq ColumnsOf(expected)  BY <1>7 DEF ColumnsOf
<1> QED  BY <1>6, <1>8, <1>9 DEF NoNullsUnforeseen

(* Schemas with the same columns differ in nothing, if no nullable column  *)
(* was promised not to be.                                                 *)
LEMMA SameGivesEmpty ==
    ASSUME IInv, ListedSoFar, pc = "done", DistinctNames(actual),
           ColumnsOf(actual) = ColumnsOf(expected), NoNullsUnforeseen
    PROVE  IsEmptyDiff(diff)
<1>1. Len(actual) \in Nat /\ next = Len(expected)
    BY SchemasAreSequences DEF IInv, TypeOK
<1>2. ASSUME NEW k \in 1..Len(expected)
      PROVE  \E j \in 1..Len(actual) :
                actual[j].name = expected[k].name /\ actual[j].type = expected[k].type
    <2>1. [name |-> expected[k].name, type |-> expected[k].type] \in ColumnsOf(actual)
        BY DEF ColumnsOf
    <2>2. PICK j \in 1..Len(actual) :
            [name |-> expected[k].name, type |-> expected[k].type]
                = [name |-> actual[j].name, type |-> actual[j].type]
        BY <2>1 DEF ColumnsOf
    <2> QED  BY <2>2
<1>3. ASSUME NEW j \in 1..Len(actual)
      PROVE  \E k \in 1..Len(expected) : expected[k].name = actual[j].name
    <2>1. [name |-> actual[j].name, type |-> actual[j].type] \in ColumnsOf(expected)
        BY DEF ColumnsOf
    <2>2. PICK k \in 1..Len(expected) :
            [name |-> actual[j].name, type |-> actual[j].type]
                = [name |-> expected[k].name, type |-> expected[k].type]
        BY <2>1 DEF ColumnsOf
    <2> QED  BY <2>2
<1>4. ASSUME NEW k \in 1..Len(expected) PROVE Found(k) /\ ~ Retyped(k) /\ ~ Loosened(k)
    <2>1. PICK j \in 1..Len(actual) :
            actual[j].name = expected[k].name /\ actual[j].type = expected[k].type
        BY <1>2
    <2>2. expected[k].name \in FieldNames(actual)  BY <2>1 DEF FieldNames
    <2> DEFINE i == LastNamed(actual, expected[k].name)
    <2>3. /\ i \in 1..Len(actual) /\ actual[i].name = expected[k].name
          /\ actual[i] = FieldFor(actual, expected[k].name)
        BY <1>1, <2>2, LastOccurrence DEF FieldFor
    <2> HIDE DEF i
    <2>4. i = j  BY <2>1, <2>3 DEF DistinctNames
    <2>5. FieldFor(actual, expected[k].name).type = expected[k].type  BY <2>1, <2>3, <2>4
    <2>6. FieldFor(actual, expected[k].name).nullable => expected[k].nullable
        BY <2>3 DEF NoNullsUnforeseen
    <2> QED  BY <2>2, <2>5, <2>6
             DEF Found, Retyped, Loosened, TypesCompatible, NullabilityCompatible
<1>5. diff.missing = {} /\ diff.retyped = {} /\ diff.nullability = {}
    BY <1>1, <1>4 DEF ListedSoFar
<1>6. diff.unexpected = {}
    BY <1>3 DEF ListedSoFar, Unexpected, FieldNames
<1>7. diff = [missing |-> diff.missing, unexpected |-> diff.unexpected,
              retyped |-> diff.retyped, nullability |-> diff.nullability]
    BY DEF IInv, TypeOK
<1> QED  BY <1>5, <1>6, <1>7 DEF IsEmptyDiff, NoDifference

(* The difference of schemas of distinct names is empty exactly if they    *)
(* have the same columns, and no nullable one was promised not to be, with *)
(* types compared strictly.                                                *)
THEOREM EmptyDiffExact == Spec => []EmptyMeansSameColumns
<1>1. IInv /\ ListedSoFar => EmptyMeansSameColumns
    BY EmptyGivesSame, SameGivesEmpty DEF EmptyMeansSameColumns
<1> QED  BY <1>1, SpecListed, PTL

-----------------------------------------------------------------------------
(***************************************************************************)
(* check_equivalence.                                                      *)
(***************************************************************************)
(* A call never compares rows before its schemas. *)
ValidatedFirst == phase # "validate" => pc = "done"

(* Every step of a call is one of validate_schema, or leaves it alone. *)
LEMMA CallStep == [CallNext]_allVars => [Next]_vars
<1>1. Validate => Next  BY DEF Validate, Next
<1>2. ChooseColumns \/ HashBoth \/ HashFails \/ CompareRows => UNCHANGED vars
    BY DEF ChooseColumns, HashBoth, HashFails, CompareRows
<1>3. CallReturned => UNCHANGED vars  BY DEF CallReturned, allVars
<1>4. UNCHANGED allVars => UNCHANGED vars  BY DEF allVars
<1> QED  BY <1>1, <1>2, <1>3, <1>4 DEF CallNext

(* check_equivalence validates schemas as validate_schema does. *)
THEOREM CallsValidate == CallSpec => Spec
<1>1. CallInit => Init  BY DEF CallInit
<1> QED  BY <1>1, CallStep, PTL DEF CallSpec, Spec

(* The rows are looked at only once the difference is complete. *)
THEOREM SchemasFirst == CallSpec => []ValidatedFirst
<1>1. CallInit => ValidatedFirst  BY DEF CallInit, ValidatedFirst
<1>2. ValidatedFirst /\ [CallNext]_allVars => ValidatedFirst'
    <2> SUFFICES ASSUME ValidatedFirst, [CallNext]_allVars PROVE ValidatedFirst'
        OBVIOUS
    <2>1. CASE Validate  BY <2>1 DEF Validate, callVars, ValidatedFirst
    <2>2. CASE ChooseColumns  BY <2>2 DEF ChooseColumns, vars, ValidatedFirst
    <2>3. CASE HashBoth \/ HashFails \/ CompareRows
        BY <2>3 DEF HashBoth, HashFails, CompareRows, vars, ValidatedFirst
    <2>4. CASE CallReturned \/ UNCHANGED allVars
        BY <2>4 DEF CallReturned, allVars, callVars, vars, ValidatedFirst
    <2> QED  BY <2>1, <2>2, <2>3, <2>4 DEF CallNext
<1> QED  BY <1>1, <1>2, PTL DEF CallSpec

(* In a call, too, a difference is breaking exactly if one schema cannot   *)
(* be read as the other.                                                   *)
THEOREM CallBreakingExact == CallSpec => []BreakingIsExact
BY CallsValidate, BreakingExact, PTL

(* Nor does the call lose or add a fault.                                  *)
THEOREM CallFaultsReported == CallSpec => []ReportsEveryFault
BY CallsValidate, FaultsReported, PTL

(* Equivalent tables can be read as one another, for every table.          *)
THEOREM EquivalenceReadable == CallSpec => []EquivalentIsReadable
<1>1. /\ IInv /\ ListedSoFar /\ ValidatedFirst /\ BreakingIsExact
      => EquivalentIsReadable
    <2> SUFFICES ASSUME IInv, ListedSoFar, BreakingIsExact, pc = "done", IsEmptyDiff(diff)
                 PROVE  /\ FieldNames(actual) \subseteq FieldNames(expected)
                        /\ ReadableAs(actual, expected, allowWidening)
        BY DEF EquivalentIsReadable, ValidatedFirst, IsEquivalent
    <2>1. diff.unexpected = {} /\ ~ IsBreaking(diff)
        BY DEF IsEmptyDiff, NoDifference, IsBreaking
    <2>2. FieldNames(actual) \subseteq FieldNames(expected)
        BY <2>1 DEF ListedSoFar, Unexpected
    <2> QED  BY <2>1, <2>2 DEF BreakingIsExact
<1>2. CallSpec => [](IInv /\ ListedSoFar)  BY CallsValidate, SpecListed, PTL
<1> QED  BY <1>1, <1>2, SchemasFirst, CallBreakingExact, PTL

-----------------------------------------------------------------------------
(***************************************************************************)
(* Lists that are built one by one: the hash of a row, the shared columns. *)
(***************************************************************************)
(* What a fold does that walks over 1..n and appends v[k] for every k in   *)
(* keep: the function behind MapThenFoldSet.                               *)
Appending(n, keep, v, g) ==
    g = [s \in SUBSET (1..n) |->
            IF s = {} THEN <<>>
            ELSE IF Max(s) \in keep THEN Append(g[s \ {Max(s)}], v[Max(s)])
            ELSE g[s \ {Max(s)}]]

(* There is such a function. *)
LEMMA AppendingExists ==
    ASSUME NEW n \in Nat, NEW keep, NEW v
    PROVE  \E g : Appending(n, keep, v, g)
<1> DEFINE S == {m \in Nat : \E g : Appending(m, keep, v, g)}
<1>1. 0 \in S
    <2> DEFINE g == [s \in {{}} |-> <<>>]
    <2>1. SUBSET (1..0) = {{}}  OBVIOUS
    <2>2. Appending(0, keep, v, g)  BY <2>1 DEF Appending
    <2> QED  BY <2>2
<1>2. ASSUME NEW m \in S PROVE m + 1 \in S
    <2>1. PICK g : Appending(m, keep, v, g)  OBVIOUS
    <2> DEFINE h == [s \in SUBSET (1..(m + 1)) |->
                       IF m + 1 \notin s THEN g[s]
                       ELSE IF m + 1 \in keep THEN Append(g[s \ {m + 1}], v[m + 1])
                       ELSE g[s \ {m + 1}]]
    <2>2. ASSUME NEW s \in SUBSET (1..(m + 1))
          PROVE  h[s] = IF s = {} THEN <<>>
                        ELSE IF Max(s) \in keep THEN Append(h[s \ {Max(s)}], v[Max(s)])
                        ELSE h[s \ {Max(s)}]
        <3>1. s # {} => Max(s) \in s /\ \A y \in s : Max(s) >= y
            <4>1. m + 1 \in Nat  OBVIOUS
            <4> QED  BY <4>1, MaxIn
        <3>2. CASE m + 1 \in s
            <4>1. Max(s) = m + 1
                <5>1. Max(s) \in 1..(m + 1) /\ Max(s) >= m + 1  BY <3>1, <3>2
                <5> QED  BY <5>1
            <4>2. s \ {m + 1} \in SUBSET (1..(m + 1)) /\ m + 1 \notin s \ {m + 1}  OBVIOUS
            <4>3. h[s \ {m + 1}] = g[s \ {m + 1}]  BY <4>2
            <4>4. h[s] = IF m + 1 \in keep THEN Append(g[s \ {m + 1}], v[m + 1])
                         ELSE g[s \ {m + 1}]
                BY <3>2
            <4> HIDE DEF h
            <4> QED  BY <3>2, <4>1, <4>3, <4>4
        <3>3. CASE m + 1 \notin s
            <4>1. s \in SUBSET (1..m)
                <5>1. ASSUME NEW y \in s PROVE y \in 1..m
                    <6>1. y \in 1..(m + 1) /\ y # m + 1  BY <3>3
                    <6> QED  BY <6>1
                <5> QED  BY <5>1
            <4>2. h[s] = g[s]  BY <3>3
            <4>3. h[s \ {Max(s)}] = g[s \ {Max(s)}]
                <5>1. s \ {Max(s)} \in SUBSET (1..(m + 1)) /\ m + 1 \notin s \ {Max(s)}
                    BY <3>3
                <5> QED  BY <5>1
            <4>4. g[s] = IF s = {} THEN <<>>
                         ELSE IF Max(s) \in keep THEN Append(g[s \ {Max(s)}], v[Max(s)])
                         ELSE g[s \ {Max(s)}]
                <5> DEFINE w(t) == IF t = {} THEN <<>>
                               ELSE IF Max(t) \in keep THEN Append(g[t \ {Max(t)}], v[Max(t)])
                               ELSE g[t \ {Max(t)}]
                <5>1. g = [t \in SUBSET (1..m) |-> w(t)]  BY <2>1, Zenon DEF Appending
                <5> HIDE DEF w
                <5>2. g[s] = w(s)  BY <4>1, <5>1
                <5> QED  BY <5>2 DEF w
            <4> HIDE DEF h
            <4> QED  BY <4>2, <4>3, <4>4
        <3> QED  BY <3>2, <3>3
    <2>3. Appending(m + 1, keep, v, h)
        <3>1. h = [s \in SUBSET (1..(m + 1)) |-> h[s]]  OBVIOUS
        <3> HIDE DEF h
        <3>2. h = [s \in SUBSET (1..(m + 1)) |->
                      IF s = {} THEN <<>>
                      ELSE IF Max(s) \in keep THEN Append(h[s \ {Max(s)}], v[Max(s)])
                      ELSE h[s \ {Max(s)}]]
            BY <2>2, <3>1, Zenon
        <3> QED  BY <3>2, Zenon DEF Appending
    <2> HIDE DEF h
    <2>4. m + 1 \in Nat  OBVIOUS
    <2> QED  BY <2>3, <2>4
<1> HIDE DEF S
<1>3. S \in SUBSET Nat  BY DEF S
<1>4. S = Nat  BY <1>1, <1>2, <1>3, SetInduction
<1> QED  BY <1>4 DEF S

(* Row by row. *)
LEMMA AppendingStep ==
    ASSUME NEW n \in Nat, NEW keep, NEW v, NEW g, Appending(n, keep, v, g)
    PROVE  /\ g[1..0] = <<>>
           /\ \A m \in 0..(n - 1) :
                 g[1..(m + 1)] = IF m + 1 \in keep THEN Append(g[1..m], v[m + 1]) ELSE g[1..m]
<1> DEFINE w(t) == IF t = {} THEN <<>>
                   ELSE IF Max(t) \in keep THEN Append(g[t \ {Max(t)}], v[Max(t)])
                   ELSE g[t \ {Max(t)}]
<1>1. g = [t \in SUBSET (1..n) |-> w(t)]  BY Zenon DEF Appending
<1>2. \A t \in SUBSET (1..n) : g[t] = w(t)
    <2> HIDE DEF w
    <2> QED  BY <1>1
<1>3. g[1..0] = <<>>
    <2>1. 1..0 = {} /\ {} \in SUBSET (1..n)  OBVIOUS
    <2> QED  BY <1>2, <2>1
<1>4. ASSUME NEW m \in 0..(n - 1)
      PROVE  g[1..(m + 1)] = IF m + 1 \in keep THEN Append(g[1..m], v[m + 1]) ELSE g[1..m]
    <2>1. m + 1 \in Nat /\ 1..(m + 1) \in SUBSET (1..(m + 1)) /\ m + 1 \in 1..(m + 1)  OBVIOUS
    <2>2. Max(1..(m + 1)) \in 1..(m + 1) /\ \A y \in 1..(m + 1) : Max(1..(m + 1)) >= y
        BY <2>1, MaxIn
    <2>3. Max(1..(m + 1)) = m + 1  BY <2>1, <2>2
    <2>4. (1..(m + 1)) \ {m + 1} = 1..m  OBVIOUS
    <2>5. 1..(m + 1) \in SUBSET (1..n) /\ 1..(m + 1) # {}  BY <2>1
    <2>6. g[1..(m + 1)] = w(1..(m + 1))  BY <1>2, <2>5
    <2> QED  BY <2>3, <2>4, <2>5, <2>6
<1> QED  BY <1>3, <1>4

(* Where it appends for every k, the result is v, as a sequence. *)
LEMMA AppendsAll ==
    ASSUME NEW n \in Nat, NEW v, NEW g, Appending(n, 1..n, v, g)
    PROVE  g[1..n] = [k \in 1..n |-> v[k]]
<1> DEFINE S == {m \in Nat : m <= n => g[1..m] = [k \in 1..m |-> v[k]]}
<1>1. /\ g[1..0] = <<>>
      /\ \A m \in 0..(n - 1) : g[1..(m + 1)] = Append(g[1..m], v[m + 1])
    <2>1. \A m \in 0..(n - 1) : m + 1 \in 1..n  OBVIOUS
    <2>2. /\ g[1..0] = <<>>
          /\ \A m \in 0..(n - 1) :
                g[1..(m + 1)] = IF m + 1 \in 1..n THEN Append(g[1..m], v[m + 1]) ELSE g[1..m]
        <3> DEFINE K == 1..n
        <3>1. Appending(n, K, v, g)  OBVIOUS
        <3> HIDE DEF K
        <3>2. /\ g[1..0] = <<>>
              /\ \A m \in 0..(n - 1) :
                    g[1..(m + 1)] = IF m + 1 \in K THEN Append(g[1..m], v[m + 1]) ELSE g[1..m]
            BY <3>1, AppendingStep
        <3> QED  BY <3>2 DEF K
    <2> QED  BY <2>1, <2>2
<1>2. 0 \in S
    <2>1. [k \in 1..0 |-> v[k]] = <<>>  OBVIOUS
    <2> QED  BY <1>1, <2>1
<1>3. ASSUME NEW m \in S PROVE m + 1 \in S
    <2> SUFFICES ASSUME m + 1 <= n PROVE g[1..(m + 1)] = [k \in 1..(m + 1) |-> v[k]]
        OBVIOUS
    <2>1. m \in 0..(n - 1) /\ g[1..m] = [k \in 1..m |-> v[k]]  OBVIOUS
    <2>2. g[1..(m + 1)] = Append([k \in 1..m |-> v[k]], v[m + 1])  BY <1>1, <2>1
    <2>3. Append([k \in 1..m |-> v[k]], v[m + 1]) = [k \in 1..(m + 1) |-> v[k]]
        OBVIOUS
    <2> QED  BY <2>2, <2>3
<1> HIDE DEF S
<1>4. S \in SUBSET Nat  BY DEF S
<1>5. S = Nat  BY <1>2, <1>3, <1>4, SetInduction
<1>6. n \in S  BY <1>5
<1> QED  BY <1>6 DEF S

(* Where it appends for some, the result has their values and no others. *)
Gathers(keep, v, s) ==
    /\ s \in Seq({v[k] : k \in keep})
    /\ \A k \in keep : \E j \in 1..Len(s) : s[j] = v[k]

LEMMA AppendsSome ==
    ASSUME NEW n \in Nat, NEW keep \in SUBSET (1..n), NEW v, NEW g, Appending(n, keep, v, g)
    PROVE  Gathers(keep, v, g[1..n])
<1> DEFINE V == {v[k] : k \in keep}
           Lists == Seq(V)
           Has(s, m) == \A k \in keep : k <= m => \E j \in 1..Len(s) : s[j] = v[k]
           S == {m \in Nat : m <= n => g[1..m] \in Lists /\ Has(g[1..m], m)}
<1>1. /\ g[1..0] = <<>>
      /\ \A m \in 0..(n - 1) :
            g[1..(m + 1)] = IF m + 1 \in keep THEN Append(g[1..m], v[m + 1]) ELSE g[1..m]
    BY AppendingStep
<1>2. 0 \in S
    <2>1. <<>> \in Lists  OBVIOUS
    <2>2. Has(<<>>, 0)  OBVIOUS
    <2> HIDE DEF Lists, Has
    <2> QED  BY <1>1, <2>1, <2>2
<1>3. ASSUME NEW m \in S PROVE m + 1 \in S
    <2> HIDE DEF Lists, Has
    <2> SUFFICES ASSUME m + 1 <= n
                 PROVE  g[1..(m + 1)] \in Lists /\ Has(g[1..(m + 1)], m + 1)
        OBVIOUS
    <2> DEFINE s == g[1..m]
    <2>1. m \in 0..(n - 1) /\ s \in Lists /\ Has(s, m)  OBVIOUS
    <2> USE DEF Lists, Has
    <2>2. g[1..(m + 1)] = IF m + 1 \in keep THEN Append(s, v[m + 1]) ELSE s
        BY <1>1, <2>1
    <2> HIDE DEF S, s
    <2>3. CASE m + 1 \in keep
        <3>1. v[m + 1] \in V  BY <2>3
        <3> HIDE DEF V
        <3>2. /\ Append(s, v[m + 1]) \in Seq(V)
              /\ Len(Append(s, v[m + 1])) = Len(s) + 1 /\ Len(s) \in Nat
              /\ Append(s, v[m + 1])[Len(s) + 1] = v[m + 1]
              /\ \A j \in 1..Len(s) : Append(s, v[m + 1])[j] = s[j]
            BY <2>1, <3>1
        <3>3. ASSUME NEW k \in keep, k <= m + 1
              PROVE  \E j \in 1..(Len(s) + 1) : Append(s, v[m + 1])[j] = v[k]
            <4>1. CASE k = m + 1  BY <3>2, <4>1
            <4>2. CASE k # m + 1
                <5>1. k <= m  BY <3>3, <4>2, <2>1
                <5>2. PICK j \in 1..Len(s) : s[j] = v[k]  BY <2>1, <5>1
                <5> QED  BY <3>2, <5>2
            <4> QED  BY <4>1, <4>2
        <3> QED  BY <2>2, <2>3, <3>2, <3>3
    <2>4. CASE m + 1 \notin keep
        <3>1. \A k \in keep : k <= m + 1 => k <= m  BY <2>1, <2>4
        <3> QED  BY <2>1, <2>2, <2>4, <3>1
    <2> QED  BY <2>3, <2>4
<1> HIDE DEF S
<1>4. S \in SUBSET Nat  BY DEF S
<1>5. S = Nat  BY <1>2, <1>3, <1>4, SetInduction
<1>6. n \in S  BY <1>5
<1>7. g[1..n] \in Lists /\ Has(g[1..n], n)  BY <1>6 DEF S
<1> QED  BY <1>7 DEF Gathers

(* The hash of cell k of a row. *)
HashOf(b, names, i, k) ==
    CellHash(CellType(b, FirstNamed(b, names[k])), b.rows[i][FirstNamed(b, names[k])])

(* The hash of a row lists the hashes of its compared cells. *)
LEMMA HashedBatch ==
    ASSUME NEW b, Len(b.rows) \in Nat, NEW names, Len(names) \in Nat,
           NEW i \in 1..Len(b.rows)
    PROVE  HashBatch(b, names)[i] = [k \in 1..Len(names) |-> HashOf(b, names, i, k)]
<1> DEFINE n == Len(names)
           seq == Resolved(b, names)
           h(c) == CellHash(CellType(b, c), b.rows[i][c])
           w(g, s) == IF s = {} THEN Seed ELSE Combine(g[s \ {Max(s)}], h(seq[Max(s)]))
           Iter(g) == g = [s \in SUBSET DOMAIN seq |-> w(g, s)]
           v == [k \in 1..n |-> h(seq[k])]
<1>1. HashBatch(b, names)[i] = (CHOOSE g : Iter(g))[DOMAIN seq]
    BY Zenon DEF HashBatch, FoldLeft, MapThenFoldSet
<1>2. DOMAIN seq = 1..n  BY DEF Resolved
<1>3. ASSUME NEW g PROVE Iter(g) <=> Appending(n, 1..n, v, g)
    <2> DEFINE x(s) == IF s = {} THEN <<>>
                       ELSE IF Max(s) \in 1..n THEN Append(g[s \ {Max(s)}], v[Max(s)])
                       ELSE g[s \ {Max(s)}]
    <2>1. ASSUME NEW s \in SUBSET (1..n) PROVE w(g, s) = x(s)
        <3>1. CASE s = {}  BY <3>1 DEF Seed
        <3>2. CASE s # {}
            <4>1. Max(s) \in 1..n  BY <3>2, MaxIn
            <4>2. v[Max(s)] = h(seq[Max(s)])  BY <4>1
            <4> HIDE DEF v, seq, h
            <4> QED  BY <3>2, <4>1, <4>2 DEF Combine
        <3> QED  BY <3>1, <3>2
    <2>2. Appending(n, 1..n, v, g) <=> g = [s \in SUBSET (1..n) |-> x(s)]
        BY Zenon DEF Appending
    <2> HIDE DEF w, x, v, seq
    <2>3. [s \in SUBSET (1..n) |-> w(g, s)] = [s \in SUBSET (1..n) |-> x(s)]  BY <2>1
    <2> QED  BY <1>2, <2>2, <2>3
<1> HIDE DEF Iter
<1>4. \E g : Iter(g)
    <2> HIDE DEF v
    <2>1. \E g : Appending(n, 1..n, v, g)  BY AppendingExists, Zenon
    <2> QED  BY <1>3, <2>1
<1>5. PICK g : g = (CHOOSE f : Iter(f)) /\ Iter(g)  BY <1>4
<1>6. Appending(n, 1..n, v, g)  BY <1>3, <1>5
<1>7. g[1..n] = [k \in 1..n |-> v[k]]
    <2> HIDE DEF v
    <2> QED  BY <1>6, AppendsAll, Zenon
<1>8. HashBatch(b, names)[i] = [k \in 1..n |-> v[k]]  BY <1>1, <1>2, <1>5, <1>7
<1>9. \A k \in 1..n : v[k] = HashOf(b, names, i, k)  BY DEF Resolved, HashOf
<1> HIDE DEF v, seq
<1> QED  BY <1>8, <1>9

(* columns, when none are requested: the names of both, none left out. *)
LEMMA SharedListed ==
    ASSUME NEW a, NEW e, e \in Schemas
    PROVE  /\ SharedColumns(a, e) \in Seq(FieldNames(a) \cap FieldNames(e))
           /\ \A name \in FieldNames(a) \cap FieldNames(e) :
                 \E k \in 1..Len(SharedColumns(a, e)) : SharedColumns(a, e)[k] = name
<1> DEFINE n == Len(e)
           keep == {k \in 1..n : e[k].name \in FieldNames(a)}
           v == [k \in 1..n |-> e[k].name]
           grow(names, f) == IF f.name \in FieldNames(a) THEN Append(names, f.name) ELSE names
           w(g, s) == IF s = {} THEN <<>> ELSE grow(g[s \ {Max(s)}], e[Max(s)])
           Iter(g) == g = [s \in SUBSET DOMAIN e |-> w(g, s)]
<1>1. SharedColumns(a, e) = (CHOOSE g : Iter(g))[DOMAIN e]
    BY Zenon DEF SharedColumns, FoldLeft, MapThenFoldSet
<1>2. Len(e) \in Nat /\ DOMAIN e = 1..n  BY SchemasAreSequences
<1>3. ASSUME NEW g PROVE Iter(g) <=> Appending(n, keep, v, g)
    <2> DEFINE x(s) == IF s = {} THEN <<>>
                       ELSE IF Max(s) \in keep THEN Append(g[s \ {Max(s)}], v[Max(s)])
                       ELSE g[s \ {Max(s)}]
    <2>1. ASSUME NEW s \in SUBSET (1..n) PROVE w(g, s) = x(s)
        <3>1. CASE s = {}  BY <3>1
        <3>2. CASE s # {}
            <4>1. Max(s) \in 1..n  BY <1>2, <3>2, MaxIn
            <4>2. v[Max(s)] = e[Max(s)].name  BY <4>1
            <4>3. Max(s) \in keep <=> e[Max(s)].name \in FieldNames(a)  BY <4>1
            <4> HIDE DEF v, keep
            <4> QED  BY <3>2, <4>2, <4>3
        <3> QED  BY <3>1, <3>2
    <2>2. Appending(n, keep, v, g) <=> g = [s \in SUBSET (1..n) |-> x(s)]
        BY Zenon DEF Appending
    <2> HIDE DEF w, x, v, keep
    <2>3. [s \in SUBSET (1..n) |-> w(g, s)] = [s \in SUBSET (1..n) |-> x(s)]  BY <2>1
    <2> QED  BY <1>2, <2>2, <2>3
<1> HIDE DEF Iter
<1>4. \E g : Iter(g)
    <2> HIDE DEF v, keep
    <2>1. \E g : Appending(n, keep, v, g)  BY <1>2, AppendingExists, Zenon
    <2> QED  BY <1>3, <2>1
<1>5. PICK g : g = (CHOOSE f : Iter(f)) /\ Iter(g)  BY <1>4
<1>6. Appending(n, keep, v, g)  BY <1>3, <1>5
<1>7. keep \in SUBSET (1..n)  OBVIOUS
<1>8. Gathers(keep, v, g[1..n])
    <2> HIDE DEF v, keep, n
    <2> QED  BY <1>2, <1>6, <1>7, AppendsSome, Zenon DEF n
<1>9. SharedColumns(a, e) = g[1..n]  BY <1>1, <1>2, <1>5
<1>10. {v[k] : k \in keep} = FieldNames(a) \cap FieldNames(e)
    <2>1. \A k \in keep : v[k] = e[k].name /\ e[k].name \in FieldNames(a)  OBVIOUS
    <2>2. FieldNames(e) = {e[k].name : k \in 1..n}  BY DEF FieldNames
    <2> QED  BY <2>1, <2>2
<1>11. \A name \in FieldNames(a) \cap FieldNames(e) : \E k \in keep : v[k] = name
    BY <1>10
<1> HIDE DEF v, keep
<1> QED  BY <1>8, <1>9, <1>10, <1>11 DEF Gathers

-----------------------------------------------------------------------------
(***************************************************************************)
(* Lists as bags.                                                          *)
(***************************************************************************)
(* Positions of two lists paired off, each with one of the same value. *)
PairedOff(m, n, s, t) ==
    \E f \in Bijection(1..m, 1..n) : \A i \in 1..m : t[f[i]] = s[i]

(* Lists that hold each value equally often match, position for position. *)
LEMMA BagsMatch ==
    ASSUME NEW m \in Nat, NEW n \in Nat, NEW s, NEW t,
           DOMAIN s = 1..m, DOMAIN t = 1..n, ToBag(s) = ToBag(t)
    PROVE  m = n /\ PairedOff(m, n, s, t)
<1> DEFINE R == Range(s)
           I(x) == {i \in 1..m : s[i] = x}
           J(x) == {j \in 1..n : t[j] = x}
           b == [x \in R |-> CHOOSE g : g \in Bijection(I(x), J(x))]
           f == [i \in 1..m |-> b[s[i]][i]]
<1>1. Range(t) = R
    <2>1. DOMAIN ToBag(s) = Range(s) /\ DOMAIN ToBag(t) = Range(t)  BY DEF ToBag
    <2> QED  BY <2>1
<1>2. IsFiniteSet(1..m) /\ Cardinality(1..m) = m /\ IsFiniteSet(1..n) /\ Cardinality(1..n) = n
    BY FS_Interval
<1>3. ASSUME NEW x \in R PROVE b[x] \in Bijection(I(x), J(x))
    <2>1. ToBag(s)[x] = Cardinality(I(x))  BY DEF ToBag
    <2>2. ToBag(t)[x] = Cardinality(J(x))  BY <1>1 DEF ToBag
    <2>3. I(x) \in SUBSET (1..m) /\ J(x) \in SUBSET (1..n)  OBVIOUS
    <2> HIDE DEF I, J
    <2>4. IsFiniteSet(I(x)) /\ IsFiniteSet(J(x))  BY <1>2, <2>3, FS_Subset
    <2>5. ExistsBijection(I(x), J(x))  BY <2>1, <2>2, <2>4, FS_SameCardinalityBij
    <2>6. \E g : g \in Bijection(I(x), J(x))  BY <2>5 DEF ExistsBijection
    <2>7. b[x] = CHOOSE g : g \in Bijection(I(x), J(x))  OBVIOUS
    <2> QED  BY <2>6, <2>7
<1>4. ASSUME NEW i \in 1..m
      PROVE  s[i] \in R /\ i \in I(s[i]) /\ f[i] = b[s[i]][i]
    BY DEF Range
<1> HIDE DEF b
<1>5. ASSUME NEW i \in 1..m PROVE f[i] \in 1..n /\ t[f[i]] = s[i]
    <2> HIDE DEF f, R
    <2>1. b[s[i]] \in [I(s[i]) -> J(s[i])]
        BY <1>3, <1>4 DEF Bijection, Injection
    <2>2. f[i] \in J(s[i])  BY <1>4, <2>1
    <2> QED  BY <2>2
<1>6. ASSUME NEW i \in 1..m, NEW k \in 1..m, f[i] = f[k] PROVE i = k
    <2>1. s[i] = s[k]  BY <1>5, <1>6
    <2>2. b[s[i]] \in Injection(I(s[i]), J(s[i]))
        BY <1>3, <1>4 DEF Bijection
    <2>3. i \in I(s[i]) /\ k \in I(s[i]) /\ b[s[i]][i] = b[s[i]][k]
        BY <1>4, <1>6, <2>1
    <2> HIDE DEF I, J, f, R
    <2> QED  BY <2>2, <2>3 DEF Injection, IsInjective
<1>7. ASSUME NEW j \in 1..n PROVE \E i \in 1..m : f[i] = j
    <2>1. t[j] \in R /\ j \in J(t[j])  BY <1>1 DEF Range
    <2>2. b[t[j]] \in Surjection(I(t[j]), J(t[j]))
        BY <1>3, <2>1 DEF Bijection
    <2>3. PICK i \in I(t[j]) : b[t[j]][i] = j
        <3> HIDE DEF I, J, R
        <3> QED  BY <2>1, <2>2 DEF Surjection
    <2>4. i \in 1..m /\ s[i] = t[j]  OBVIOUS
    <2> HIDE DEF I, J, f, R
    <2> QED  BY <1>4, <2>3, <2>4
<1>8. f \in Bijection(1..m, 1..n)
    <2>1. f = [i \in 1..m |-> f[i]]  OBVIOUS
    <2> HIDE DEF f
    <2>2. f \in [1..m -> 1..n]  BY <1>5, <2>1
    <2> QED  BY <1>6, <1>7, <2>2 DEF Bijection, Injection, Surjection, IsInjective
<1>9. m = n
    <2>1. ExistsBijection(1..m, 1..n)  BY <1>8 DEF ExistsBijection
    <2> QED  BY <1>2, <2>1, FS_Bijection
<1> HIDE DEF f
<1> QED  BY <1>5, <1>8, <1>9 DEF PairedOff

(* Lists that match hold each value equally often. *)
LEMMA MatchingBags ==
    ASSUME NEW m \in Nat, NEW n \in Nat, NEW u, NEW w,
           DOMAIN u = 1..m, DOMAIN w = 1..n,
           PairedOff(m, n, u, w)
    PROVE  ToBag(u) = ToBag(w)
<1> PICK f \in Bijection(1..m, 1..n) : \A i \in 1..m : w[f[i]] = u[i]
    BY DEF PairedOff
<1> DEFINE I(x) == {i \in 1..m : u[i] = x}
           J(x) == {j \in 1..n : w[j] = x}
<1>1. /\ f \in [1..m -> 1..n]
      /\ \A i, k \in 1..m : f[i] = f[k] => i = k
      /\ \A j \in 1..n : \E i \in 1..m : f[i] = j
    BY DEF Bijection, Injection, Surjection, IsInjective
<1>2. Range(u) = Range(w)
    <2>1. \A i \in 1..m : u[i] \in {w[j] : j \in 1..n}  BY <1>1
    <2>2. ASSUME NEW j \in 1..n PROVE w[j] \in {u[i] : i \in 1..m}
        <3>1. PICK i \in 1..m : f[i] = j  BY <1>1
        <3>2. w[j] = u[i]  BY <3>1
        <3> QED  BY <3>2
    <2> QED  BY <2>1, <2>2 DEF Range
<1>3. ASSUME NEW x PROVE Cardinality(I(x)) = Cardinality(J(x))
    <2> DEFINE g == [i \in I(x) |-> f[i]]
    <2>1. g \in [I(x) -> J(x)]  BY <1>1
    <2>2. \A i, k \in I(x) : g[i] = g[k] => i = k  BY <1>1
    <2>3. \A j \in J(x) : \E i \in I(x) : g[i] = j
        <3> SUFFICES ASSUME NEW j \in J(x) PROVE \E i \in I(x) : g[i] = j  OBVIOUS
        <3>1. PICK i \in 1..m : f[i] = j  BY <1>1
        <3>2. i \in I(x)  BY <3>1
        <3> QED  BY <3>1, <3>2
    <2>4. I(x) \in SUBSET (1..m)  OBVIOUS
    <2> HIDE DEF g, I, J
    <2>5. ExistsBijection(I(x), J(x))
        BY <2>1, <2>2, <2>3 DEF ExistsBijection, Bijection, Injection, Surjection, IsInjective
    <2>6. IsFiniteSet(I(x))  BY <2>4, FS_Interval, FS_Subset
    <2> QED  BY <2>5, <2>6, FS_Bijection
<1>4. ToBag(u) = [x \in Range(u) |-> Cardinality(I(x))]  BY DEF ToBag
<1>5. ToBag(w) = [x \in Range(w) |-> Cardinality(J(x))]  BY DEF ToBag
<1> HIDE DEF I, J
<1> QED  BY <1>2, <1>3, <1>4, <1>5

(* Where two lists agree, so do two others. *)
Determines(m, n, s, t, u, w) ==
    \A i \in 1..m, j \in 1..n : s[i] = t[j] => u[i] = w[j]

(* What is made of each value of two such lists alike: as often again. *)
LEMMA ImagesOfBags ==
    ASSUME NEW m \in Nat, NEW n \in Nat, NEW s, NEW t, NEW u, NEW w,
           DOMAIN s = 1..m, DOMAIN u = 1..m, DOMAIN t = 1..n, DOMAIN w = 1..n,
           ToBag(s) = ToBag(t),
           Determines(m, n, s, t, u, w)
    PROVE  m = n /\ ToBag(u) = ToBag(w)
<1>1. m = n /\ PairedOff(m, n, s, t)  BY BagsMatch
<1>2. PICK f \in Bijection(1..m, 1..n) : \A i \in 1..m : t[f[i]] = s[i]
    BY <1>1 DEF PairedOff
<1>3. f \in [1..m -> 1..n]  BY DEF Bijection, Injection
<1>4. \A i \in 1..m : w[f[i]] = u[i]  BY <1>2, <1>3 DEF Determines
<1>5. ToBag(u) = ToBag(w)  BY <1>4, MatchingBags DEF PairedOff
<1> QED  BY <1>1, <1>5

-----------------------------------------------------------------------------
(***************************************************************************)
(* The bytes a cell is hashed by.                                          *)
(***************************************************************************)
(* A tag tells the family of a type, and the type if its values are of one *)
(* width.                                                                  *)
LEMMA TagsTell ==
    /\ \A n \in DOMAIN Tags : Tags[n] \in Bytes
    /\ \A m, n \in DOMAIN Tags :
          /\ Tags[m] = Tags[n] => Family(m) = Family(n)
          /\ Family(m) = Family(n) => Tags[m] = Tags[n]
          /\ Tags[m] = Tags[n] /\ m \in DOMAIN Widths => m = n
<1>1. DOMAIN Tags = {"Boolean", "Int8", "Int16", "Int32", "Int64", "UInt8", "UInt16", "UInt32",
         "UInt64", "Float32", "Float64", "Utf8", "LargeUtf8", "Binary", "LargeBinary", "Date32",
         "Date64", "Time32", "Time64", "Timestamp", "Decimal128", "Decimal256"}
    BY DEF Tags
<1>2. \A n \in DOMAIN Tags : Tags[n] \in Bytes  BY DEF Tags, Bytes
<1>3. ASSUME NEW m \in DOMAIN Tags, NEW n \in DOMAIN Tags, Tags[m] = Tags[n]
      PROVE  Family(m) = Family(n)
    BY <1>3 DEF Tags, Family
<1>4. ASSUME NEW m \in DOMAIN Tags, NEW n \in DOMAIN Tags, Family(m) = Family(n)
      PROVE  Tags[m] = Tags[n]
    BY <1>4 DEF Tags, Family
<1>5. ASSUME NEW m \in DOMAIN Tags, NEW n \in DOMAIN Tags, Tags[m] = Tags[n],
             m \in DOMAIN Widths
      PROVE  m = n
    BY <1>5 DEF Tags, Widths
<1> QED  BY <1>2, <1>3, <1>4, <1>5

(* One list of bytes after another. *)
LEMMA BytesConcat ==
    \A a, b \in Seq(Bytes) :
        /\ a \o b \in Seq(Bytes) /\ Len(a \o b) = Len(a) + Len(b)
        /\ \A i \in 1..(Len(a) + Len(b)) :
              (a \o b)[i] = IF i <= Len(a) THEN a[i] ELSE b[i - Len(a)]
<1> SUFFICES ASSUME NEW a \in Seq(Bytes), NEW b \in Seq(Bytes)
             PROVE  /\ a \o b \in Seq(Bytes) /\ Len(a \o b) = Len(a) + Len(b)
                    /\ \A i \in 1..(Len(a) + Len(b)) :
                          (a \o b)[i] = IF i <= Len(a) THEN a[i] ELSE b[i - Len(a)]
    OBVIOUS
<1> QED  OBVIOUS

(* The key of a type starts with its tag. *)
LEMMA KeyBytes ==
    ASSUME NEW type, IsType(type), type.name \in DOMAIN Tags
    PROVE  /\ TypeKey(type) \in Seq(Bytes)
           /\ Len(TypeKey(type)) = 1 + Len(type.param)
           /\ TypeKey(type)[1] = Tags[type.name]
<1> DEFINE a == <<Tags[type.name]>>
<1>1. Tags[type.name] \in Bytes  BY TagsTell
<1>2. a \in Seq(Bytes) /\ Len(a) = 1 /\ a[1] = Tags[type.name]  BY <1>1
<1>3. type.param \in Seq(Bytes) /\ Len(type.param) \in Nat  BY DEF IsType
<1>4. TypeKey(type) = a \o type.param  BY DEF TypeKey
<1> HIDE DEF a
<1> DEFINE r == type.param
<1> HIDE DEF r
<1>5. /\ a \o r \in Seq(Bytes) /\ Len(a \o r) = Len(a) + Len(r)
      /\ \A i \in 1..(Len(a) + Len(r)) : (a \o r)[i] = IF i <= Len(a) THEN a[i] ELSE r[i - Len(a)]
    BY <1>2, <1>3, BytesConcat DEF r
<1>6. (a \o r)[1] = a[1]
    <2>1. 1 \in 1..(Len(a) + Len(r)) /\ 1 <= Len(a)  BY <1>2, <1>3 DEF r
    <2> QED  BY <1>5, <2>1
<1> QED  BY <1>2, <1>4, <1>5, <1>6 DEF r

(* The bytes of a value. *)
LEMMA CellBytes ==
    ASSUME NEW type, NEW cell \in CellsOf(type), cell # Null
    PROVE  /\ cell \in Seq(Bytes)
           /\ type.name \in DOMAIN Widths =>
                 Len(cell) = Widths[type.name] /\ cell \in [1..Widths[type.name] -> Bytes]
<1>1. CASE type.name \in DOMAIN Widths
    <2>1. Widths[type.name] \in Nat  BY <1>1 DEF Widths
    <2>2. cell \in [1..Widths[type.name] -> Bytes]  BY <1>1 DEF CellsOf
    <2> QED  BY <2>1, <2>2
<1>2. CASE type.name \notin DOMAIN Widths
    BY <1>2 DEF CellsOf
<1> QED  BY <1>1, <1>2

(* Zeros are bytes. *)
LEMMA ZeroBytes ==
    ASSUME NEW n \in Nat
    PROVE  Zero(n) \in [1..n -> Bytes] /\ Zero(n) \in Seq(Bytes) /\ Len(Zero(n)) = n
<1>1. 0 \in Bytes  BY DEF Bytes
<1> QED  BY <1>1 DEF Zero

(* A canonical value has as many bytes, and no value is canonical in two   *)
(* ways: no float is both a NaN and a zero.                                *)
LEMMA CanonicalBytes ==
    ASSUME NEW type, NEW cell \in CellsOf(type), cell # Null
    PROVE  /\ Canonical(type, cell) \in Seq(Bytes)
           /\ type.name \in DOMAIN Widths => Len(Canonical(type, cell)) = Widths[type.name]
           /\ ValueOf(type, cell) = Canonical(type, cell)
<1>1. /\ cell \in Seq(Bytes)
      /\ type.name \in DOMAIN Widths =>
            Len(cell) = Widths[type.name] /\ cell \in [1..Widths[type.name] -> Bytes]
    BY CellBytes
<1>2. CASE type.name = "Float32"
    <2>1. Len(cell) = 4 /\ cell \in [1..4 -> Bytes]  BY <1>1, <1>2 DEF Widths
    <2>2. ~ (IsNaN32(cell) /\ IsZero(cell))
        <3>1. cell[4] \in 0..255  BY <2>1 DEF Bytes
        <3>2. IsZero(cell) => cell[4] \in {0, 128}  BY <2>1 DEF IsZero
        <3>3. 0 % 128 # 127 /\ 128 % 128 # 127  OBVIOUS
        <3> QED  BY <3>2, <3>3 DEF IsNaN32
    <2>3. NaN32 \in Seq(Bytes) /\ Len(NaN32) = 4  BY DEF NaN32, Bytes
    <2>4. Zero(4) \in Seq(Bytes) /\ Len(Zero(4)) = 4  BY ZeroBytes
    <2>5. Canonical(type, cell) = IF IsNaN32(cell) THEN NaN32
                                  ELSE IF IsZero(cell) THEN Zero(Len(cell)) ELSE cell
        BY <1>2, <2>2 DEF Canonical
    <2>6. ValueOf(type, cell) = IF IsNaN32(cell) THEN NaN32
                                ELSE IF IsZero(cell) THEN Zero(Len(cell)) ELSE cell
        BY <1>2 DEF ValueOf
    <2>7. Widths["Float32"] = 4  BY DEF Widths
    <2> QED  BY <1>1, <1>2, <2>1, <2>3, <2>4, <2>5, <2>6, <2>7
<1>3. CASE type.name = "Float64"
    <2>1. Len(cell) = 8 /\ cell \in [1..8 -> Bytes]  BY <1>1, <1>3 DEF Widths
    <2>2. ~ (IsNaN64(cell) /\ IsZero(cell))
        <3>2. IsZero(cell) => cell[8] \in {0, 128}  BY <2>1 DEF IsZero
        <3>3. 0 % 128 # 127 /\ 128 % 128 # 127  OBVIOUS
        <3> QED  BY <3>2, <3>3 DEF IsNaN64
    <2>3. NaN64 \in Seq(Bytes) /\ Len(NaN64) = 8  BY DEF NaN64, Bytes
    <2>4. Zero(8) \in Seq(Bytes) /\ Len(Zero(8)) = 8  BY ZeroBytes
    <2>5. Canonical(type, cell) = IF IsNaN64(cell) THEN NaN64
                                  ELSE IF IsZero(cell) THEN Zero(Len(cell)) ELSE cell
        BY <1>3, <2>2 DEF Canonical
    <2>6. ValueOf(type, cell) = IF IsNaN64(cell) THEN NaN64
                                ELSE IF IsZero(cell) THEN Zero(Len(cell)) ELSE cell
        BY <1>3 DEF ValueOf
    <2>7. Widths["Float64"] = 8  BY DEF Widths
    <2> QED  BY <1>1, <1>3, <2>1, <2>3, <2>4, <2>5, <2>6, <2>7
<1>4. CASE type.name \notin {"Float32", "Float64"}
    <2>1. Canonical(type, cell) = cell  BY <1>4 DEF Canonical
    <2>2. ValueOf(type, cell) = cell  BY <1>4 DEF ValueOf
    <2> QED  BY <1>1, <2>1, <2>2
<1> QED  BY <1>2, <1>3, <1>4

(* Cells that hash alike, and are no nulls, are of one type and one value: *)
(* the tag tells the type, its width where the parameters end.             *)
LEMMA HashTells ==
    ASSUME NEW s, NEW t, IsType(s), IsType(t), s.name \in DOMAIN Tags, t.name \in DOMAIN Tags,
           NEW x \in CellsOf(s), NEW y \in CellsOf(t), x # Null, y # Null,
           CellHash(s, x) = CellHash(t, y)
    PROVE  SameType(s, t) /\ ValueOf(s, x) = ValueOf(t, y)
<1> DEFINE p == TypeKey(s)
           q == TypeKey(t)
           u == Canonical(s, x)
           v == Canonical(t, y)
<1>1. /\ p \in Seq(Bytes) /\ Len(p) = 1 + Len(s.param) /\ p[1] = Tags[s.name]
      /\ q \in Seq(Bytes) /\ Len(q) = 1 + Len(t.param) /\ q[1] = Tags[t.name]
    BY KeyBytes
<1>2. /\ u \in Seq(Bytes) /\ v \in Seq(Bytes)
      /\ s.name \in DOMAIN Widths => Len(u) = Widths[s.name]
      /\ t.name \in DOMAIN Widths => Len(v) = Widths[t.name]
      /\ ValueOf(s, x) = u /\ ValueOf(t, y) = v
    BY CanonicalBytes
<1>3. p \o u = q \o v  BY DEF CellHash, ValueHash
<1>4. s.param \in Seq(Bytes) /\ t.param \in Seq(Bytes)  BY DEF IsType
<1>5. p = <<Tags[s.name]>> \o s.param /\ q = <<Tags[t.name]>> \o t.param  BY DEF TypeKey
<1> HIDE DEF p, q, u, v
<1>6. /\ Len(p \o u) = Len(p) + Len(u) /\ Len(q \o v) = Len(q) + Len(v)
      /\ \A i \in 1..(Len(p) + Len(u)) : (p \o u)[i] = IF i <= Len(p) THEN p[i] ELSE u[i - Len(p)]
      /\ \A i \in 1..(Len(q) + Len(v)) : (q \o v)[i] = IF i <= Len(q) THEN q[i] ELSE v[i - Len(q)]
    BY <1>1, <1>2, BytesConcat
<1>7. Len(p) \in Nat /\ Len(q) \in Nat /\ Len(u) \in Nat /\ Len(v) \in Nat
      /\ Len(s.param) \in Nat /\ Len(t.param) \in Nat
    BY <1>1, <1>2, <1>4
<1>8. Tags[s.name] = Tags[t.name]
    <2>1. /\ Len(p) >= 1 /\ 1 \in 1..(Len(p) + Len(u))
          /\ Len(q) >= 1 /\ 1 \in 1..(Len(q) + Len(v))
        <3>1. Len(p) = 1 + Len(s.param) /\ Len(q) = 1 + Len(t.param)  BY <1>1
        <3> QED  BY <1>7, <3>1
    <2>2. (p \o u)[1] = p[1]
        <3>1. \A i \in 1..(Len(p) + Len(u)) : (p \o u)[i] = IF i <= Len(p) THEN p[i] ELSE u[i - Len(p)]
            BY <1>6
        <3> QED  BY <2>1, <3>1
    <2>3. (q \o v)[1] = q[1]
        <3>1. \A i \in 1..(Len(q) + Len(v)) : (q \o v)[i] = IF i <= Len(q) THEN q[i] ELSE v[i - Len(q)]
            BY <1>6
        <3> QED  BY <2>1, <3>1
    <2> QED  BY <1>1, <1>3, <2>2, <2>3
<1>9. Family(s.name) = Family(t.name) /\ (s.name \in DOMAIN Widths => s.name = t.name)
      /\ (t.name \in DOMAIN Widths => s.name = t.name)
    BY <1>8, TagsTell
<1>10. Len(p) = Len(q)
    <2>1. CASE s.name \in DOMAIN Widths
        <3>1. Len(u) = Len(v)  BY <1>2, <1>9, <2>1
        <3> QED  BY <1>3, <1>6, <1>7, <3>1
    <2>2. CASE s.name \notin DOMAIN Widths
        <3>1. s.param = <<>> /\ t.param = <<>>  BY <1>9, <2>2 DEF IsType
        <3> QED  BY <1>1, <3>1
    <2> QED  BY <2>1, <2>2
<1>11. p = q
    <2>1. ASSUME NEW i \in 1..Len(p) PROVE p[i] = q[i]
        <3>1. i \in 1..(Len(p) + Len(u)) /\ i \in 1..(Len(q) + Len(v)) /\ i <= Len(p) /\ i <= Len(q)
            BY <1>7, <1>10
        <3>2. (p \o u)[i] = p[i] /\ (q \o v)[i] = q[i]  BY <1>6, <3>1
        <3> QED  BY <1>3, <3>2
    <2> QED  BY <1>1, <1>10, <2>1, SeqEqual
<1>12. u = v  BY <1>1, <1>2, <1>3, <1>11, ConcatSimplifications
<1>13. s.param = t.param
    <2>1. <<Tags[s.name]>> \o s.param = <<Tags[s.name]>> \o t.param  BY <1>5, <1>8, <1>11
    <2>2. <<Tags[s.name]>> \in Seq(Bytes)  BY TagsTell
    <2> QED  BY <1>4, <2>1, <2>2, ConcatSimplifications
<1> QED  BY <1>2, <1>9, <1>12, <1>13 DEF SameType

(* Cells of one type and one value hash alike, whatever their bits. *)
LEMMA HashAgrees ==
    ASSUME NEW s, NEW t, s.name \in DOMAIN Tags, t.name \in DOMAIN Tags,
           NEW x \in CellsOf(s), NEW y \in CellsOf(t),
           SameType(s, t), ValueOf(s, x) = ValueOf(t, y)
    PROVE  CellHash(s, x) = CellHash(t, y)
<1>1. TypeKey(s) = TypeKey(t)
    BY TagsTell DEF TypeKey, SameType
<1>2. Null \notin Seq(Bytes)  BY EquivalenceAssumption DEF NullIsNoValue
<1>3. x = Null <=> y = Null
    <2>1. x # Null => ValueOf(s, x) # Null  BY <1>2, CanonicalBytes
    <2>2. y # Null => ValueOf(t, y) # Null  BY <1>2, CanonicalBytes
    <2>3. (x = Null => ValueOf(s, x) = Null) /\ (y = Null => ValueOf(t, y) = Null)
        BY DEF ValueOf
    <2> QED  BY <2>1, <2>2, <2>3
<1>4. CASE x = Null  BY <1>1, <1>3, <1>4 DEF CellHash
<1>5. CASE x # Null
    <2>1. Canonical(s, x) = Canonical(t, y)  BY <1>3, <1>5, CanonicalBytes
    <2> QED  BY <1>1, <1>3, <1>5, <2>1 DEF CellHash
<1> QED  BY <1>4, <1>5

-----------------------------------------------------------------------------
(***************************************************************************)
(* The report.                                                             *)
(***************************************************************************)
TypeAt(b, names, k) == CellType(b, FirstNamed(b, names[k]))
CellAt(b, names, i, k) == b.rows[i][FirstNamed(b, names[k])]

(* What a call has found out by its phase. *)
CallInv ==
    /\ IsBatch(ActualBatch) /\ IsBatch(ExpectedBatch)
    /\ request # Shared => request \in Seq(STRING)
    /\ phase # "validate" =>
          columns = IF request = Shared THEN SharedColumns(actual, expected) ELSE request
    /\ phase \in {"compare", "done"} =>
          /\ Hashable(ActualBatch, columns) /\ Hashable(ExpectedBatch, columns)
          /\ fingerprintsMatch =
                {Fingerprint(ActualBatch, columns) = Fingerprint(ExpectedBatch, columns)}
    /\ phase = "done" =>
          rowsExactlyMatch =
              IF exact THEN {RowsExactlyEqual(ActualBatch, ExpectedBatch, columns)} ELSE {}

(* A call starts with two batches. *)
LEMMA InitCallInv == CallInit => CallInv
<1> SUFFICES ASSUME CallInit PROVE CallInv  OBVIOUS
<1>1. PICK call \in Calls :
          /\ actual = call.actual.fields /\ actualRows = call.actual.rows
          /\ expected = call.expected.fields /\ expectedRows = call.expected.rows
          /\ request = call.request
    BY DEF CallInit
<1>2. /\ IsBatch(call.actual) /\ IsBatch(call.expected)
      /\ call.request # Shared => call.request \in Seq(STRING)
    BY EquivalenceAssumption DEF CallsOfBatches
<1>3. IsBatch(ActualBatch)  BY <1>1, <1>2 DEF IsBatch, ActualBatch
<1>4. IsBatch(ExpectedBatch)  BY <1>1, <1>2 DEF IsBatch, ExpectedBatch
<1>5. phase = "validate"  BY DEF CallInit
<1> QED  BY <1>1, <1>2, <1>3, <1>4, <1>5 DEF CallInv

(* Every step of a call keeps them and notes what it finds. *)
LEMMA NextCallInv == CallInv /\ [CallNext]_allVars => CallInv'
<1> SUFFICES ASSUME CallInv, [CallNext]_allVars PROVE CallInv'  OBVIOUS
<1>1. UNCHANGED <<actual, expected, actualRows, expectedRows, request, exact>>
    BY DEF CallNext, allVars, vars, callVars, Validate, MissingField, CompareField,
           ListUnexpected, ChooseColumns, HashBoth, HashFails, CompareRows, CallReturned
<1>2. /\ (IsBatch(ActualBatch) /\ IsBatch(ExpectedBatch))'
      /\ (request # Shared => request \in Seq(STRING))'
    BY <1>1, Zenon DEF CallInv, IsBatch, ActualBatch, ExpectedBatch
<1>3. CASE Validate
    <2>1. phase = "validate" /\ phase' = "validate"  BY <1>3 DEF Validate, callVars
    <2> QED  BY <1>2, <2>1 DEF CallInv
<1>4. CASE ChooseColumns
    <2>1. phase' = "hash" /\ columns' = IF request = Shared
                                        THEN SharedColumns(actual, expected) ELSE request
        BY <1>4 DEF ChooseColumns
    <2> QED  BY <1>1, <1>2, <2>1 DEF CallInv
<1>5. CASE HashBoth
    <2>1. /\ phase = "hash" /\ phase' = "compare" /\ columns' = columns
          /\ Hashable(ActualBatch, columns) /\ Hashable(ExpectedBatch, columns)
          /\ fingerprintsMatch' =
                {Fingerprint(ActualBatch, columns) = Fingerprint(ExpectedBatch, columns)}
        BY <1>5 DEF HashBoth
    <2>2. ActualBatch' = ActualBatch /\ ExpectedBatch' = ExpectedBatch
        BY <1>1 DEF ActualBatch, ExpectedBatch
    <2> QED  BY <1>1, <1>2, <2>1, <2>2 DEF CallInv
<1>6. CASE HashFails
    <2>1. phase = "hash" /\ phase' = "error" /\ columns' = columns  BY <1>6 DEF HashFails
    <2> QED  BY <1>1, <1>2, <2>1 DEF CallInv
<1>7. CASE CompareRows
    <2>1. /\ phase = "compare" /\ phase' = "done" /\ UNCHANGED <<columns, fingerprintsMatch>>
          /\ rowsExactlyMatch' =
                IF exact THEN {RowsExactlyEqual(ActualBatch, ExpectedBatch, columns)} ELSE {}
        BY <1>7 DEF CompareRows
    <2>2. ActualBatch' = ActualBatch /\ ExpectedBatch' = ExpectedBatch
        BY <1>1 DEF ActualBatch, ExpectedBatch
    <2> QED  BY <1>1, <1>2, <2>1, <2>2 DEF CallInv
<1>8. CASE CallReturned \/ UNCHANGED allVars
    <2>1. /\ UNCHANGED <<phase, columns, fingerprintsMatch, rowsExactlyMatch>>
          /\ ActualBatch' = ActualBatch /\ ExpectedBatch' = ExpectedBatch
        BY <1>1, <1>8 DEF CallReturned, allVars, callVars, ActualBatch, ExpectedBatch
    <2> QED  BY <1>1, <1>2, <2>1 DEF CallInv
<1> QED  BY <1>3, <1>4, <1>5, <1>6, <1>7, <1>8 DEF CallNext

LEMMA SpecCallInv == CallSpec => []CallInv
BY InitCallInv, NextCallInv, PTL DEF CallSpec

(* The verdicts of a call, by themselves. *)
Verdicts ==
    /\ phase \in {"validate", "hash", "compare", "done", "error"}
    /\ exact \in BOOLEAN
    /\ phase = "validate" => columns = <<>>
    /\ fingerprintsMatch \in SUBSET BOOLEAN /\ rowsExactlyMatch \in SUBSET BOOLEAN

LEMMA SpecVerdicts == CallSpec => []Verdicts
<1>1. CallInit => Verdicts
    <2> SUFFICES ASSUME CallInit PROVE Verdicts  OBVIOUS
    <2>1. exact \in BOOLEAN
        <3>1. PICK call \in Calls : exact = call.exact  BY DEF CallInit
        <3> QED  BY <3>1, EquivalenceAssumption DEF CallsOfBatches
    <2>2. /\ phase = "validate" /\ columns = <<>>
          /\ fingerprintsMatch = {} /\ rowsExactlyMatch = {}
        BY DEF CallInit
    <2> QED  BY <2>1, <2>2 DEF Verdicts
<1>2. Verdicts /\ [CallNext]_allVars => Verdicts'
    <2> SUFFICES ASSUME Verdicts, [CallNext]_allVars PROVE Verdicts'  OBVIOUS
    <2> USE DEF Verdicts
    <2>1. CASE Validate  BY <2>1 DEF Validate, callVars
    <2>2. CASE ChooseColumns  BY <2>2 DEF ChooseColumns
    <2>3. CASE HashBoth
        <3>1. \E v \in BOOLEAN : fingerprintsMatch' = {v}  BY <2>3, Zenon DEF HashBoth
        <3>2. phase' = "compare" /\ UNCHANGED <<exact, columns, rowsExactlyMatch>>
            BY <2>3 DEF HashBoth
        <3> QED  BY <3>1, <3>2
    <2>4. CASE HashFails  BY <2>4 DEF HashFails
    <2>5. CASE CompareRows
        <3>1. rowsExactlyMatch' = {} \/ \E v \in BOOLEAN : rowsExactlyMatch' = {v}
            BY <2>5, Zenon DEF CompareRows, RowsExactlyEqual
        <3>2. phase' = "done" /\ UNCHANGED <<exact, columns, fingerprintsMatch>>
            BY <2>5 DEF CompareRows
        <3> QED  BY <3>1, <3>2
    <2>6. CASE CallReturned \/ UNCHANGED allVars
        BY <2>6 DEF CallReturned, allVars, callVars
    <2> QED  BY <2>1, <2>2, <2>3, <2>4, <2>5, <2>6 DEF CallNext
<1> QED  BY <1>1, <1>2, PTL DEF CallSpec

(* Every variable of a call keeps its type: the columns compared are those *)
(* requested, or columns of both schemas, and a verdict on the hashes is   *)
(* there once they have been compared.                                     *)
THEOREM CallTypesKept == CallSpec => []CallTypeOK
<1>1. IInv /\ ValidatedFirst /\ CallInv /\ Verdicts => CallTypeOK
    <2> SUFFICES ASSUME IInv, ValidatedFirst, CallInv, Verdicts PROVE CallTypeOK
        OBVIOUS
    <2>1. SharedColumns(actual, expected) \in Seq(FieldNames(actual) \cap FieldNames(expected))
        <3>1. expected \in Schemas  BY DEF IInv, TypeOK
        <3> QED  BY <3>1, SharedListed
    <2>2. columns = request \/ columns \in Seq(FieldNames(actual) \cap FieldNames(expected))
        <3> DEFINE Y == FieldNames(actual) \cap FieldNames(expected)
        <3>1. CASE phase = "validate"
            <4>1. columns = <<>>  BY <3>1 DEF Verdicts
            <4> HIDE DEF Y
            <4>2. columns \in Seq(Y)  BY <4>1
            <4> QED  BY <4>2 DEF Y
        <3>2. CASE phase # "validate"
            <4>1. columns \in {SharedColumns(actual, expected), request}
                BY <3>2 DEF CallInv
            <4> QED  BY <2>1, <4>1
        <3> QED  BY <3>1, <3>2
    <2>3. phase \in {"compare", "done"} => Cardinality(fingerprintsMatch) = 1
        <3> SUFFICES ASSUME phase \in {"compare", "done"}
                     PROVE  Cardinality(fingerprintsMatch) = 1
            OBVIOUS
        <3>1. \E v : fingerprintsMatch = {v}  BY DEF CallInv
        <3> QED  BY <3>1, FS_Singleton
    <2> QED  BY <2>2, <2>3 DEF CallTypeOK, Verdicts, ValidatedFirst
<1>2. CallSpec => []IInv  BY CallsValidate, SpecIInv, PTL
<1> QED  BY <1>1, <1>2, SchemasFirst, SpecCallInv, SpecVerdicts, PTL

-----------------------------------------------------------------------------
(* A name of a batch has a first column, and only one if names differ. *)
LEMMA FirstColumn ==
    ASSUME NEW b, b.fields \in Schemas, NEW name \in FieldNames(b.fields)
    PROVE  /\ FirstNamed(b, name) \in 1..Len(b.fields)
           /\ b.fields[FirstNamed(b, name)].name = name
           /\ DistinctNames(b.fields) => FieldFor(b.fields, name) = b.fields[FirstNamed(b, name)]
<1> DEFINE Named == {k \in 1..Len(b.fields) : b.fields[k].name = name}
<1>1. Len(b.fields) \in Nat  BY SchemasAreSequences
<1>2. Named \in SUBSET Nat /\ Named # {}  BY <1>1 DEF FieldNames
<1>3. PICK first \in Named : \A k \in Named : first <= k
    <2> HIDE DEF Named
    <2> QED  BY <1>2, Least
<1>4. \E m \in 1..Len(b.fields) :
          /\ b.fields[m].name = name
          /\ \A j \in 1..Len(b.fields) : b.fields[j].name = name => m <= j
    BY <1>3
<1>5. FirstNamed(b, name) \in 1..Len(b.fields) /\ b.fields[FirstNamed(b, name)].name = name
    BY <1>4 DEF FirstNamed
<1>6. LastNamed(b.fields, name) \in 1..Len(b.fields)
      /\ b.fields[LastNamed(b.fields, name)].name = name
    BY <1>1, LastOccurrence DEF FieldFor
<1> QED  BY <1>5, <1>6 DEF DistinctNames, FieldFor

(* The compared columns of a batch that can be hashed. *)
LEMMA TypedCells ==
    ASSUME NEW b, IsBatch(b), NEW names, Hashable(b, names), NEW k \in 1..Len(names)
    PROVE  /\ IsType(TypeAt(b, names, k)) /\ TypeAt(b, names, k).name \in DOMAIN Tags
           /\ \A i \in 1..Len(b.rows) : CellAt(b, names, i, k) \in CellsOf(TypeAt(b, names, k))
<1> DEFINE c == FirstNamed(b, names[k])
<1>1. names[k] \in FieldNames(b.fields) /\ Supported(CellType(b, c))  BY DEF Hashable
<1>2. c \in 1..Len(b.fields)  BY <1>1, FirstColumn DEF IsBatch
<1> HIDE DEF c
<1>3. b.fields[c].type \in DOMAIN TypeOf  BY <1>2 DEF IsBatch
<1>4. IsType(CellType(b, c))
    BY <1>3, EquivalenceAssumption DEF CallsOfBatches, CellType
<1>5. CellType(b, c).name \in DOMAIN Tags  BY <1>1 DEF Supported
<1>6. \A i \in 1..Len(b.rows) : b.rows[i][c] \in CellsOf(CellType(b, c))
    BY <1>2 DEF IsBatch, CellType
<1> QED  BY <1>4, <1>5, <1>6 DEF c, TypeAt, CellAt

(* The hashes of two rows, against their compared cells. *)
SameCell(a, b, names, i, j, k) ==
    /\ SameType(TypeAt(a, names, k), TypeAt(b, names, k))
    /\ ValueOf(TypeAt(a, names, k), CellAt(a, names, i, k))
          = ValueOf(TypeAt(b, names, k), CellAt(b, names, j, k))

(* Rows hash alike if their compared cells do, and only then. *)
LEMMA RowsByHash ==
    ASSUME NEW a, IsBatch(a), NEW b, IsBatch(b), NEW names, Len(names) \in Nat,
           Hashable(a, names), Hashable(b, names),
           NEW i \in 1..Len(a.rows), NEW j \in 1..Len(b.rows)
    PROVE  /\ (\A k \in 1..Len(names) : SameCell(a, b, names, i, j, k))
                => HashBatch(a, names)[i] = HashBatch(b, names)[j]
           /\ (\A k \in 1..Len(names) :
                  CellAt(a, names, i, k) # Null /\ CellAt(b, names, j, k) # Null)
              /\ HashBatch(a, names)[i] = HashBatch(b, names)[j]
                => \A k \in 1..Len(names) : SameCell(a, b, names, i, j, k)
<1> DEFINE p == [k \in 1..Len(names) |-> HashOf(a, names, i, k)]
           q == [k \in 1..Len(names) |-> HashOf(b, names, j, k)]
<1>1. HashBatch(a, names)[i] = p /\ HashBatch(b, names)[j] = q
    BY HashedBatch DEF IsBatch
<1>2. ASSUME NEW k \in 1..Len(names)
      PROVE  /\ p[k] = CellHash(TypeAt(a, names, k), CellAt(a, names, i, k))
             /\ q[k] = CellHash(TypeAt(b, names, k), CellAt(b, names, j, k))
    BY DEF HashOf, TypeAt, CellAt
<1>3. p = q <=> \A k \in 1..Len(names) : p[k] = q[k]  OBVIOUS
<1> HIDE DEF p, q
<1>4. ASSUME NEW k \in 1..Len(names)
      PROVE  /\ SameCell(a, b, names, i, j, k) => p[k] = q[k]
             /\ CellAt(a, names, i, k) # Null /\ CellAt(b, names, j, k) # Null /\ p[k] = q[k]
                  => SameCell(a, b, names, i, j, k)
    <2> DEFINE s == TypeAt(a, names, k)
               t == TypeAt(b, names, k)
               x == CellAt(a, names, i, k)
               y == CellAt(b, names, j, k)
    <2>1. /\ IsType(s) /\ IsType(t) /\ s.name \in DOMAIN Tags /\ t.name \in DOMAIN Tags
          /\ x \in CellsOf(s) /\ y \in CellsOf(t)
        BY TypedCells
    <2>2. p[k] = CellHash(s, x) /\ q[k] = CellHash(t, y)  BY <1>2
    <2>3. SameCell(a, b, names, i, j, k) <=> SameType(s, t) /\ ValueOf(s, x) = ValueOf(t, y)
        BY DEF SameCell
    <2>4. x # Null /\ y # Null <=>
              CellAt(a, names, i, k) # Null /\ CellAt(b, names, j, k) # Null
        OBVIOUS
    <2> HIDE DEF s, t, x, y
    <2>5. SameType(s, t) /\ ValueOf(s, x) = ValueOf(t, y) => CellHash(s, x) = CellHash(t, y)
        BY <2>1, HashAgrees
    <2>6. x # Null /\ y # Null /\ CellHash(s, x) = CellHash(t, y)
            => SameType(s, t) /\ ValueOf(s, x) = ValueOf(t, y)
        BY <2>1, HashTells
    <2> QED  BY <2>2, <2>3, <2>4, <2>5, <2>6
<1> QED  BY <1>1, <1>3, <1>4

-----------------------------------------------------------------------------
(* Rows of the same values hash alike, whatever the bits of their floats,  *)
(* and rows without nulls that hash alike hold the same values of the same *)
(* types, for every batch and every list of columns.                       *)
THEOREM HashesAreFaithful == CallSpec => []HashesTellRowsApart
<1>1. IInv /\ CallInv => HashesTellRowsApart
    <2> SUFFICES ASSUME IInv, CallInv, phase = "done",
                        NEW a \in {ActualBatch, ExpectedBatch},
                        NEW b \in {ActualBatch, ExpectedBatch},
                        NEW i \in 1..Len(a.rows), NEW j \in 1..Len(b.rows)
                 PROVE  LET same == \A k \in Columns : Value(a, i, k) = Value(b, j, k)
                            nulls == \E k \in Columns : Null \in {Value(a, i, k), Value(b, j, k)}
                            ha == HashBatch(a, columns)
                            hb == HashBatch(b, columns)
                        IN  /\ SameColumns(a, b) /\ same => ha[i] = hb[j]
                            /\ ~ nulls /\ ha[i] = hb[j] => SameColumns(a, b) /\ same
        BY DEF HashesTellRowsApart
    <2>1. /\ IsBatch(a) /\ IsBatch(b) /\ Hashable(a, columns) /\ Hashable(b, columns)
        BY DEF CallInv
    <2>2. Len(columns) \in Nat
        <3>1. request # Shared => Len(request) \in Nat  BY DEF CallInv
        <3>2. Len(SharedColumns(actual, expected)) \in Nat
            <4>1. expected \in Schemas  BY DEF IInv, TypeOK
            <4> QED  BY <4>1, SharedListed
        <3> QED  BY <3>1, <3>2 DEF CallInv
    <2>3. /\ (\A k \in 1..Len(columns) : SameCell(a, b, columns, i, j, k))
                => HashBatch(a, columns)[i] = HashBatch(b, columns)[j]
          /\ (\A k \in 1..Len(columns) :
                  CellAt(a, columns, i, k) # Null /\ CellAt(b, columns, j, k) # Null)
              /\ HashBatch(a, columns)[i] = HashBatch(b, columns)[j]
                => \A k \in 1..Len(columns) : SameCell(a, b, columns, i, j, k)
        BY <2>1, <2>2, RowsByHash
    <2>4. ASSUME NEW k \in Columns
          PROVE  /\ Value(a, i, k) = ValueOf(TypeAt(a, columns, k), CellAt(a, columns, i, k))
                 /\ Value(b, j, k) = ValueOf(TypeAt(b, columns, k), CellAt(b, columns, j, k))
        BY DEF Value, TypeAt, CellAt
    <2>5. SameColumns(a, b) <=>
              \A k \in Columns : SameType(TypeAt(a, columns, k), TypeAt(b, columns, k))
        BY DEF SameColumns, TypeAt
    <2>6. ASSUME NEW k \in Columns, Null \notin {Value(a, i, k), Value(b, j, k)}
          PROVE  CellAt(a, columns, i, k) # Null /\ CellAt(b, columns, j, k) # Null
        BY <2>4, <2>6 DEF ValueOf
    <2>7. (\A k \in 1..Len(columns) : SameCell(a, b, columns, i, j, k)) <=>
              SameColumns(a, b) /\ \A k \in Columns : Value(a, i, k) = Value(b, j, k)
        BY <2>4, <2>5 DEF SameCell, Columns
    <2> QED  BY <2>3, <2>6, <2>7 DEF Columns
<1>2. CallSpec => []IInv  BY CallsValidate, SpecIInv, PTL
<1> QED  BY <1>1, <1>2, SpecCallInv, PTL

-----------------------------------------------------------------------------
(* Where all columns are compared and no difference was found, their names *)
(* are those of either schema.                                             *)
SameNames ==
    /\ FieldNames(actual) = FieldNames(expected)
    /\ Len(columns) \in Nat
    /\ \A k \in 1..Len(columns) : columns[k] \in FieldNames(expected)
    /\ \A name \in FieldNames(expected) : \E k \in 1..Len(columns) : columns[k] = name

(* All columns, if none were asked for. *)
LEMMA ComparesAllColumns ==
    ASSUME IInv, CallInv, ValidatedFirst, ReportsEveryFault, Reported, IsEmptyDiff(diff)
    PROVE  SameNames
<1>1. diff = DiffOf(actual, expected, allowWidening)
    BY DEF Reported, ValidatedFirst, ReportsEveryFault
<1>2. diff.missing = {} /\ diff.unexpected = {}  BY DEF IsEmptyDiff, NoDifference
<1>3. FieldNames(expected) \ FieldNames(actual) = {}
      /\ FieldNames(actual) \ FieldNames(expected) = {}
    BY <1>1, <1>2 DEF DiffOf
<1>4. columns = SharedColumns(actual, expected)  BY DEF CallInv, Reported
<1>5. expected \in Schemas  BY DEF IInv, TypeOK
<1>6. /\ columns \in Seq(FieldNames(actual) \cap FieldNames(expected))
      /\ \A name \in FieldNames(actual) \cap FieldNames(expected) :
            \E k \in 1..Len(columns) : columns[k] = name
    BY <1>4, <1>5, SharedListed
<1>7. FieldNames(actual) = FieldNames(expected)  BY <1>3
<1>8. Len(columns) \in Nat
      /\ \A k \in 1..Len(columns) : columns[k] \in FieldNames(actual) \cap FieldNames(expected)
    BY <1>6
<1> QED  BY <1>6, <1>7, <1>8 DEF SameNames

(* Fingerprints are bags of row hashes. *)
LEMMA FingerprintIsBag ==
    ASSUME NEW b, Len(b.rows) \in Nat, NEW names
    PROVE  /\ DOMAIN HashBatch(b, names) = 1..Len(b.rows)
           /\ Fingerprint(b, names) = ToBag(HashBatch(b, names))
<1> DEFINE h == HashBatch(b, names)
<1>1. DOMAIN h = 1..Len(b.rows) /\ Len(h) = Len(b.rows)  BY DEF HashBatch
<1> HIDE DEF h
<1>2. TableFingerprint(h) = ToBag(h)  BY <1>1 DEF TableFingerprint, ToBag, Range
<1> QED  BY <1>1, <1>2 DEF h, Fingerprint

(* A row by column name, with its cells or their values. *)
RowOf(b, i) == [name \in FieldNames(b.fields) |-> b.rows[i][FirstNamed(b, name)]]
ValueRowOf(b, i) ==
    [name \in FieldNames(b.fields) |->
        LET c == FirstNamed(b, name) IN ValueOf(CellType(b, c), b.rows[i][c])]

(* In the fast mode equivalent batches without nulls hold the same values, *)
(* for batches of any number of rows and columns.                          *)
THEOREM FastIsExactOnValues == CallSpec => []FastTellsValuesApart
<1>1. IInv /\ CallInv /\ ValidatedFirst /\ ReportsEveryFault => FastTellsValuesApart
    <2> DEFINE A == ActualBatch
               E == ExpectedBatch
    <2> SUFFICES ASSUME IInv, CallInv, ValidatedFirst, ReportsEveryFault, Reported, IsEquivalent,
                        \A b \in {A, E} : \A i \in 1..Len(b.rows) :
                            \A c \in 1..Len(b.fields) : b.rows[i][c] # Null
                 PROVE  ValueTable(A) = ValueTable(E)
        BY DEF FastTellsValuesApart
    <2>1. SameNames  BY ComparesAllColumns DEF IsEquivalent
    <2>2. /\ IsBatch(A) /\ IsBatch(E) /\ Hashable(A, columns) /\ Hashable(E, columns)
          /\ A.fields = actual /\ E.fields = expected
        BY DEF CallInv, Reported, ActualBatch, ExpectedBatch
    <2>3. Fingerprint(A, columns) = Fingerprint(E, columns)
        BY DEF CallInv, Reported, IsEquivalent
    <2> HIDE DEF A, E
    <2> DEFINE s == HashBatch(A, columns)
               t == HashBatch(E, columns)
               u == [i \in 1..Len(A.rows) |-> ValueRowOf(A, i)]
               w == [j \in 1..Len(E.rows) |-> ValueRowOf(E, j)]
    <2>4. /\ Len(A.rows) \in Nat /\ Len(E.rows) \in Nat
          /\ DOMAIN s = 1..Len(A.rows) /\ DOMAIN t = 1..Len(E.rows) /\ ToBag(s) = ToBag(t)
        BY <2>2, <2>3, FingerprintIsBag DEF IsBatch
    <2>5. ASSUME NEW i \in 1..Len(A.rows), NEW j \in 1..Len(E.rows), s[i] = t[j]
          PROVE  ValueRowOf(A, i) = ValueRowOf(E, j)
        <3>1. ASSUME NEW k \in 1..Len(columns)
              PROVE  CellAt(A, columns, i, k) # Null /\ CellAt(E, columns, j, k) # Null
            <4>1. columns[k] \in FieldNames(A.fields) /\ columns[k] \in FieldNames(E.fields)
                BY <2>1, <2>2 DEF SameNames
            <4>2. FirstNamed(A, columns[k]) \in 1..Len(A.fields)
                  /\ FirstNamed(E, columns[k]) \in 1..Len(E.fields)
                BY <2>2, <4>1, FirstColumn DEF IsBatch
            <4> QED  BY <4>2 DEF CellAt
        <3>2. \A k \in 1..Len(columns) : SameCell(A, E, columns, i, j, k)
            BY <2>1, <2>2, <2>5, <3>1, RowsByHash DEF SameNames
        <3>3. ASSUME NEW name \in FieldNames(expected)
              PROVE  ValueRowOf(A, i)[name] = ValueRowOf(E, j)[name]
            <4>1. PICK k \in 1..Len(columns) : columns[k] = name  BY <2>1 DEF SameNames
            <4>2. ValueOf(TypeAt(A, columns, k), CellAt(A, columns, i, k))
                      = ValueOf(TypeAt(E, columns, k), CellAt(E, columns, j, k))
                BY <3>2 DEF SameCell
            <4>3. ValueRowOf(A, i)[name] = ValueOf(TypeAt(A, columns, k), CellAt(A, columns, i, k))
                BY <2>1, <2>2, <4>1 DEF ValueRowOf, TypeAt, CellAt, SameNames
            <4>4. ValueRowOf(E, j)[name] = ValueOf(TypeAt(E, columns, k), CellAt(E, columns, j, k))
                BY <2>2, <4>1 DEF ValueRowOf, TypeAt, CellAt
            <4> QED  BY <4>2, <4>3, <4>4
        <3>4. /\ ValueRowOf(A, i) = [name \in FieldNames(expected) |-> ValueRowOf(A, i)[name]]
              /\ ValueRowOf(E, j) = [name \in FieldNames(expected) |-> ValueRowOf(E, j)[name]]
            BY <2>1, <2>2 DEF ValueRowOf, SameNames
        <3> QED  BY <3>3, <3>4
    <2>6. /\ DOMAIN u = 1..Len(A.rows) /\ DOMAIN w = 1..Len(E.rows)
          /\ \A i \in 1..Len(A.rows), j \in 1..Len(E.rows) : s[i] = t[j] => u[i] = w[j]
        BY <2>5
    <2>7. ToBag(u) = ToBag(w)
        <3> DEFINE m == Len(A.rows)
                   n == Len(E.rows)
        <3>1. /\ m \in Nat /\ n \in Nat /\ ToBag(s) = ToBag(t)
              /\ DOMAIN s = 1..m /\ DOMAIN t = 1..n /\ DOMAIN u = 1..m /\ DOMAIN w = 1..n
              /\ Determines(m, n, s, t, u, w)
            BY <2>4, <2>6 DEF Determines
        <3> HIDE DEF s, t, u, w, m, n
        <3> QED  BY <3>1, ImagesOfBags
    <2>8. ValueTable(A) = ToBag(u) /\ ValueTable(E) = ToBag(w)
        BY DEF ValueTable, ValueRowOf
    <2> QED  BY <2>7, <2>8
<1>2. CallSpec => []IInv  BY CallsValidate, SpecIInv, PTL
<1> QED  BY <1>1, <1>2, SpecCallInv, SchemasFirst, CallFaultsReported, PTL

-----------------------------------------------------------------------------
(* The compared cells of a row, as they are encoded, and the row by names  *)
(* say the same, where every name is compared.                             *)
EncodedRow(b, names, i) == [k \in 1..Len(names) |-> CellAt(b, names, i, k)]

LEMMA Encoded ==
    ASSUME NEW b, NEW names, Len(names) \in Nat, Len(names) # 0
    PROVE  EncodedRows(b, names) = [i \in 1..Len(b.rows) |-> EncodedRow(b, names, i)]
<1>1. names # <<>>  OBVIOUS
<1>2. \A k \in 1..Len(names) : Resolved(b, names)[k] = FirstNamed(b, names[k])
    BY DEF Resolved
<1> QED  BY <1>1, <1>2 DEF EncodedRows, EncodedRow, CellAt

(* Two rows are the same by names exactly if they are encoded alike. *)
LEMMA SameRows ==
    ASSUME NEW a, NEW b, NEW names, Len(names) \in Nat,
           FieldNames(a.fields) = FieldNames(b.fields),
           \A k \in 1..Len(names) : names[k] \in FieldNames(b.fields),
           \A name \in FieldNames(b.fields) : \E k \in 1..Len(names) : names[k] = name,
           NEW i \in 1..Len(a.rows), NEW j \in 1..Len(b.rows)
    PROVE  RowOf(a, i) = RowOf(b, j) <=> EncodedRow(a, names, i) = EncodedRow(b, names, j)
<1> DEFINE N == FieldNames(b.fields)
           x == RowOf(a, i)
           y == RowOf(b, j)
           p == EncodedRow(a, names, i)
           q == EncodedRow(b, names, j)
<1>1. x = [name \in N |-> x[name]] /\ y = [name \in N |-> y[name]]
    BY DEF RowOf
<1>2. p = [k \in 1..Len(names) |-> p[k]] /\ q = [k \in 1..Len(names) |-> q[k]]
    BY DEF EncodedRow
<1>3. ASSUME NEW k \in 1..Len(names)
      PROVE  p[k] = x[names[k]] /\ q[k] = y[names[k]]
    BY DEF RowOf, EncodedRow, CellAt
<1> HIDE DEF x, y, p, q
<1>4. ASSUME p = q PROVE x = y
    <2>1. ASSUME NEW name \in N PROVE x[name] = y[name]
        <3>1. PICK k \in 1..Len(names) : names[k] = name  OBVIOUS
        <3> QED  BY <1>3, <1>4, <3>1
    <2> QED  BY <1>1, <2>1
<1>5. ASSUME x = y PROVE p = q
    <2>1. \A k \in 1..Len(names) : p[k] = q[k]  BY <1>3, <1>5
    <2> QED  BY <1>2, <2>1
<1> QED  BY <1>4, <1>5 DEF x, y, p, q

(* One bag of rows, or the other. *)
LEMMA SameBags ==
    ASSUME NEW a, Len(a.rows) \in Nat, NEW b, Len(b.rows) \in Nat,
           NEW names, Len(names) \in Nat, Len(names) # 0,
           FieldNames(a.fields) = FieldNames(b.fields),
           \A k \in 1..Len(names) : names[k] \in FieldNames(b.fields),
           \A name \in FieldNames(b.fields) : \E k \in 1..Len(names) : names[k] = name
    PROVE  /\ Table(a) = Table(b)
                <=> ToBag(EncodedRows(a, names)) = ToBag(EncodedRows(b, names))
           /\ Table(a) = Table(b) => Len(a.rows) = Len(b.rows)
<1> DEFINE m == Len(a.rows)
           n == Len(b.rows)
           s == [i \in 1..m |-> RowOf(a, i)]
           t == [j \in 1..n |-> RowOf(b, j)]
           u == EncodedRows(a, names)
           w == EncodedRows(b, names)
<1>1. Table(a) = ToBag(s) /\ Table(b) = ToBag(t)  BY DEF Table, RowOf
<1>2. u = [i \in 1..m |-> EncodedRow(a, names, i)] /\ w = [j \in 1..n |-> EncodedRow(b, names, j)]
    BY Encoded
<1>3. ASSUME NEW i \in 1..m, NEW j \in 1..n PROVE s[i] = t[j] <=> u[i] = w[j]
    <2>1. RowOf(a, i) = RowOf(b, j) <=> EncodedRow(a, names, i) = EncodedRow(b, names, j)
        BY SameRows
    <2>2. u[i] = EncodedRow(a, names, i) /\ w[j] = EncodedRow(b, names, j)  BY <1>2
    <2>3. s[i] = RowOf(a, i) /\ t[j] = RowOf(b, j)  OBVIOUS
    <2> HIDE DEF s, t, u, w
    <2> QED  BY <2>1, <2>2, <2>3
<1>4. DOMAIN s = 1..m /\ DOMAIN t = 1..n /\ DOMAIN u = 1..m /\ DOMAIN w = 1..n
    BY <1>2
<1>5. m \in Nat /\ n \in Nat  OBVIOUS
<1> HIDE DEF s, t, u, w, m, n
<1>6. Determines(m, n, s, t, u, w) /\ Determines(m, n, u, w, s, t)
    BY <1>3 DEF Determines
<1>7. ToBag(s) = ToBag(t) => m = n /\ ToBag(u) = ToBag(w)  BY <1>4, <1>5, <1>6, ImagesOfBags
<1>8. ToBag(u) = ToBag(w) => ToBag(s) = ToBag(t)  BY <1>4, <1>5, <1>6, ImagesOfBags
<1> QED  BY <1>1, <1>7, <1>8 DEF u, w, m, n

(* Two batches of the same columns and the same rows have one fingerprint. *)
LEMMA SameFingerprint ==
    ASSUME NEW a, Len(a.rows) \in Nat, NEW b, Len(b.rows) \in Nat,
           NEW names, Len(names) \in Nat, Len(names) # 0,
           \A k \in 1..Len(names) : TypeAt(a, names, k) = TypeAt(b, names, k),
           ToBag(EncodedRows(a, names)) = ToBag(EncodedRows(b, names))
    PROVE  Fingerprint(a, names) = Fingerprint(b, names)
<1> DEFINE m == Len(a.rows)
           n == Len(b.rows)
           s == EncodedRows(a, names)
           t == EncodedRows(b, names)
           u == HashBatch(a, names)
           w == HashBatch(b, names)
<1>1. s = [i \in 1..m |-> EncodedRow(a, names, i)] /\ t = [j \in 1..n |-> EncodedRow(b, names, j)]
    BY Encoded
<1>2. /\ DOMAIN u = 1..m /\ DOMAIN w = 1..n
      /\ Fingerprint(a, names) = ToBag(u) /\ Fingerprint(b, names) = ToBag(w)
    BY FingerprintIsBag
<1>3. ASSUME NEW i \in 1..m, NEW j \in 1..n, s[i] = t[j] PROVE u[i] = w[j]
    <2>1. EncodedRow(a, names, i) = EncodedRow(b, names, j)  BY <1>1, <1>3
    <2>2. ASSUME NEW k \in 1..Len(names) PROVE HashOf(a, names, i, k) = HashOf(b, names, j, k)
        <3>1. EncodedRow(a, names, i)[k] = CellAt(a, names, i, k)
              /\ EncodedRow(b, names, j)[k] = CellAt(b, names, j, k)
            BY DEF EncodedRow
        <3>2. CellAt(a, names, i, k) = CellAt(b, names, j, k)  BY <2>1, <3>1
        <3> QED  BY <3>2 DEF HashOf, TypeAt, CellAt
    <2>3. u[i] = [k \in 1..Len(names) |-> HashOf(a, names, i, k)]
          /\ w[j] = [k \in 1..Len(names) |-> HashOf(b, names, j, k)]
        BY HashedBatch
    <2> QED  BY <2>2, <2>3
<1>4. DOMAIN s = 1..m /\ DOMAIN t = 1..n /\ m \in Nat /\ n \in Nat  BY <1>1
<1>5. ToBag(s) = ToBag(t)  OBVIOUS
<1> HIDE DEF s, t, u, w, m, n
<1>6. Determines(m, n, s, t, u, w)  BY <1>3 DEF Determines
<1>7. ToBag(u) = ToBag(w)  BY <1>2, <1>4, <1>5, <1>6, ImagesOfBags
<1> QED  BY <1>2, <1>7

(* In the exact mode equivalence is proof, whatever the hashes do: no      *)
(* difference of schemas, the same types, the same rows, and nothing else. *)
THEOREM ExactModeProves == CallSpec => []ExactIsProof
<1>1. IInv /\ CallInv /\ ValidatedFirst /\ ReportsEveryFault => ExactIsProof
    <2> DEFINE A == ActualBatch
               E == ExpectedBatch
    <2> SUFFICES ASSUME IInv, CallInv, ValidatedFirst, ReportsEveryFault, Reported, exact,
                        Distinct, expected # <<>>, IsEmptyDiff(diff)
                 PROVE  IsEquivalent <=> SameTypes /\ Table(A) = Table(E)
        BY DEF ExactIsProof, IsEquivalent
    <2>1. SameNames  BY ComparesAllColumns
    <2>2. /\ IsBatch(A) /\ IsBatch(E) /\ A.fields = actual /\ E.fields = expected
          /\ A.rows = actualRows /\ E.rows = expectedRows
        BY DEF CallInv, ActualBatch, ExpectedBatch
    <2>3. /\ fingerprintsMatch = {Fingerprint(A, columns) = Fingerprint(E, columns)}
          /\ rowsExactlyMatch = {RowsExactlyEqual(A, E, columns)}
        BY DEF CallInv, Reported
    <2> HIDE DEF A, E
    <2>4. Len(columns) \in Nat /\ Len(columns) # 0
        <3>1. expected \in Seq([name : STRING, type : STRING, nullable : BOOLEAN])
            BY SchemasAreSequences DEF IInv, TypeOK
        <3>2. Len(expected) \in Nat /\ 1 \in 1..Len(expected)  BY <3>1
        <3>3. expected[1].name \in FieldNames(expected)  BY <3>2 DEF FieldNames
        <3>4. PICK k \in 1..Len(columns) : columns[k] = expected[1].name
            BY <2>1, <3>3 DEF SameNames
        <3> QED  BY <2>1, <3>4 DEF SameNames
    <2>5. /\ Table(A) = Table(E)
                <=> ToBag(EncodedRows(A, columns)) = ToBag(EncodedRows(E, columns))
          /\ Table(A) = Table(E) => Len(A.rows) = Len(E.rows)
        BY <2>1, <2>2, <2>4, SameBags DEF SameNames, IsBatch
    <2>6. ASSUME NEW name \in FieldNames(expected)
          PROVE  /\ FieldFor(actual, name) = A.fields[FirstNamed(A, name)]
                 /\ FieldFor(expected, name) = E.fields[FirstNamed(E, name)]
        BY <2>1, <2>2, FirstColumn DEF Distinct, SameNames, IsBatch
    <2>7. SameTypes <=>
              \A k \in 1..Len(columns) :
                  A.fields[Resolved(A, columns)[k]].type = E.fields[Resolved(E, columns)[k]].type
        <3>1. \A k \in 1..Len(columns) : /\ Resolved(A, columns)[k] = FirstNamed(A, columns[k])
                                         /\ Resolved(E, columns)[k] = FirstNamed(E, columns[k])
            BY DEF Resolved
        <3> QED  BY <2>1, <2>6, <3>1 DEF SameTypes, SameNames
    <2>8. RowsExactlyEqual(A, E, columns) <=>
              Len(A.rows) = Len(E.rows) /\ SameTypes /\ Table(A) = Table(E)
        BY <2>5, <2>7 DEF RowsExactlyEqual
    <2>9. ASSUME SameTypes, Table(A) = Table(E)
          PROVE  Fingerprint(A, columns) = Fingerprint(E, columns)
        <3>1. ASSUME NEW k \in 1..Len(columns) PROVE TypeAt(A, columns, k) = TypeAt(E, columns, k)
            <4>1. columns[k] \in FieldNames(expected)  BY <2>1 DEF SameNames
            <4> QED  BY <2>1, <2>6, <2>9, <4>1 DEF SameTypes, SameNames, TypeAt, CellType
        <3> QED  BY <2>2, <2>4, <2>5, <2>9, <3>1, SameFingerprint DEF IsBatch
    <2>10. FALSE \notin rowsExactlyMatch <=> RowsExactlyEqual(A, E, columns)
        <3>1. RowsExactlyEqual(A, E, columns) \in BOOLEAN  BY DEF RowsExactlyEqual
        <3> QED  BY <2>3, <3>1
    <2>11. fingerprintsMatch = {TRUE} <=> Fingerprint(A, columns) = Fingerprint(E, columns)
        BY <2>3
    <2>12. IsEquivalent <=> /\ Len(A.rows) = Len(E.rows)
                            /\ fingerprintsMatch = {TRUE} /\ FALSE \notin rowsExactlyMatch
        BY <2>2 DEF IsEquivalent
    <2> QED  BY <2>5, <2>8, <2>9, <2>10, <2>11, <2>12
<1>2. CallSpec => []IInv  BY CallsValidate, SpecIInv, PTL
<1> QED  BY <1>1, <1>2, SpecCallInv, SchemasFirst, CallFaultsReported, PTL

-----------------------------------------------------------------------------
(***************************************************************************)
(* The fingerprint of a schema: what is fed to its hash, read back.        *)
(***************************************************************************)
(* What follows the same beginning in equal sequences is the same. *)
LEMMA SameBeginning ==
    ASSUME NEW A, NEW r \in Seq(A), NEW t \in Seq(A), NEW u \in Seq(A), r \o t = r \o u
    PROVE  t = u
<1> DEFINE a == r \o t  b == r \o u
<1>1. /\ Len(r) \in Nat /\ Len(t) \in Nat /\ Len(u) \in Nat
      /\ Len(a) = Len(r) + Len(t) /\ Len(b) = Len(r) + Len(u)
      /\ \A i \in 1..Len(t) : a[Len(r) + i] = t[i]
      /\ \A i \in 1..Len(u) : b[Len(r) + i] = u[i]
    OBVIOUS
<1>2. a = b  OBVIOUS
<1> HIDE DEF a, b
<1>3. Len(t) = Len(u)  BY <1>1, <1>2
<1>4. \A i \in 1..Len(t) : t[i] = u[i]  BY <1>1, <1>2, <1>3
<1> QED  BY <1>3, <1>4, SeqEqual

(* Texts joined are texts, and remain so among more characters. *)
LEMMA Joined ==
    ASSUME NEW A, NEW t \in Seq(A), NEW u \in Seq(A), NEW x \in A
    PROVE  t \o u \in Seq(A) /\ t \o <<x>> \in Seq(A)
OBVIOUS

LEMMA Widened ==
    ASSUME NEW A, NEW C, A \subseteq C, NEW t \in Seq(A)
    PROVE  t \in Seq(C)
OBVIOUS

(* What is fed to the hash is, field by field, a text and a flag. *)
Texts(schema) == [k \in 1..Len(schema) |-> FieldText(schema[k])]
FlagsOf(schema) == [k \in 1..Len(schema) |-> Flag(schema[k])]

Alphabet == STRING \cup Flags

(* What is read of a field are two texts and a flag. *)
LEMMA SchemaTexts ==
    ASSUME NEW s \in Schemas
    PROVE  /\ Len(s) \in Nat /\ DOMAIN s = 1..Len(s)
           /\ \A k \in 1..Len(s) :
                 /\ s[k] \in [name : STRING, type : STRING, nullable : BOOLEAN]
                 /\ s[k].name \in DOMAIN TextOf /\ s[k].type \in DOMAIN TextOf
                 /\ TextOf[s[k].name] \in Seq(Alphabet) /\ TextOf[s[k].type] \in Seq(Alphabet)
                 /\ FieldText(s[k]) \in Seq(Alphabet) /\ Flag(s[k]) \in Alphabet
                 /\ Flag(s[k]) \in Flags
<1>1. s \in Seq([name : STRING, type : STRING, nullable : BOOLEAN])  BY SchemasAreSequences
<1>2. ASSUME NEW k \in 1..Len(s)
      PROVE  /\ s[k] \in [name : STRING, type : STRING, nullable : BOOLEAN]
             /\ s[k].name \in DOMAIN TextOf /\ s[k].type \in DOMAIN TextOf
             /\ TextOf[s[k].name] \in Seq(STRING) /\ TextOf[s[k].type] \in Seq(STRING)
    <2>1. s[k].name \in DOMAIN TextOf /\ s[k].type \in DOMAIN TextOf
        BY EquivalenceAssumption DEF TextsTell
    <2>2. \A t \in DOMAIN TextOf : TextOf[t] \in Seq(STRING)
        BY EquivalenceAssumption DEF TextsTell
    <2>3. s[k] \in [name : STRING, type : STRING, nullable : BOOLEAN]
        <3> DEFINE R == [name : STRING, type : STRING, nullable : BOOLEAN]
        <3>1. s \in Seq(R)  BY <1>1
        <3> HIDE DEF R
        <3>2. s[k] \in R  BY <3>1
        <3> QED  BY <3>2 DEF R
    <2> QED  BY <2>1, <2>2, <2>3, Zenon
<1>3. ASSUME NEW k \in 1..Len(s)
      PROVE  /\ TextOf[s[k].name] \in Seq(Alphabet) /\ TextOf[s[k].type] \in Seq(Alphabet)
             /\ FieldText(s[k]) \in Seq(Alphabet) /\ Flag(s[k]) \in Alphabet
             /\ Flag(s[k]) \in Flags
    <2>1. TextOf[s[k].name] \in Seq(Alphabet) /\ TextOf[s[k].type] \in Seq(Alphabet)
        <3> DEFINE A == STRING
        <3>1. TextOf[s[k].name] \in Seq(A) /\ TextOf[s[k].type] \in Seq(A)  BY <1>2
        <3>2. A \subseteq Alphabet  BY DEF Alphabet
        <3> HIDE DEF A
        <3> QED  BY <3>1, <3>2, Widened
    <2>2. FieldText(s[k]) \in Seq(Alphabet)  BY <2>1, Joined DEF FieldText
    <2>3. Flag(s[k]) \in Flags  BY Zenon DEF Flag, Flags
    <2> QED  BY <2>1, <2>2, <2>3 DEF Alphabet
<1>4. Len(s) \in Nat /\ DOMAIN s = 1..Len(s)  BY <1>1
<1> QED  BY <1>2, <1>3, <1>4, Zenon

(* The key of a schema, built field by field. *)
LEMMA KeyBlocks ==
    ASSUME NEW s \in Schemas, Legible(ToSet(s))
    PROVE  \E F : /\ Blocks(Alphabet, Flags, Len(s), Texts(s), FlagsOf(s), F)
                  /\ F[Len(s)] = SchemaKey(s)
<1> DEFINE n == Len(s)
           B == [k \in 1..n |-> FieldText(s[k]) \o <<Flag(s[k])>>]
           L == Seq(Alphabet)
<1>1. /\ n \in Nat /\ DOMAIN s = 1..n
      /\ \A k \in 1..n : /\ FieldText(s[k]) \in L /\ Flag(s[k]) \in Alphabet
                         /\ Flag(s[k]) \in Flags
    BY SchemaTexts
<1>2. ASSUME NEW k \in 1..n PROVE Unmarked(Flags, FieldText(s[k]))
    <2>1. s[k] \in ToSet(s)  BY <1>1 DEF ToSet
    <2>2. ToSet(FieldText(s[k])) \cap Flags = {}  BY <2>1 DEF Legible
    <2>3. DOMAIN FieldText(s[k]) = 1..Len(FieldText(s[k]))  BY <1>1
    <2> QED  BY <2>2, <2>3 DEF Unmarked, ToSet
<1>3. \A k \in 1..n : B[k] = FieldText(s[k]) \o <<Flag(s[k])>> /\ B[k] \in L
    <2>1. \A t \in L, x \in Alphabet : t \o <<x>> \in L
        <3> DEFINE A == Alphabet
        <3> SUFFICES \A t \in Seq(A), x \in A : t \o <<x>> \in Seq(A)  OBVIOUS
        <3> HIDE DEF A
        <3> QED  BY Joined
    <2>2. \A k \in 1..n : B[k] = FieldText(s[k]) \o <<Flag(s[k])>>  OBVIOUS
    <2> HIDE DEF B, L
    <2> QED  BY <1>1, <2>1, <2>2
<1>4. Len(B) = n /\ B \in Seq(L)
    <2> HIDE DEF L
    <2>1. DOMAIN B = 1..n /\ B = [k \in 1..n |-> B[k]]  OBVIOUS
    <2>2. n \in Nat /\ \A k \in 1..n : B[k] \in L  BY <1>1, <1>3
    <2> HIDE DEF B, n
    <2> QED  BY <2>1, <2>2
<1>5. SchemaKey(s) = FlattenSeq(B)  BY DEF SchemaKey
<1> HIDE DEF B
<1>6. PICK F \in [0..n -> L] : /\ F[0] = <<>> /\ F[n] = FlattenSeq(B)
                               /\ \A k \in 1..n : F[k] = F[k - 1] \o B[k]
    <2>1. Len(B) \in Nat /\ B \in Seq(Seq(Alphabet))  BY <1>1, <1>4
    <2>2. \E F \in [0..Len(B) -> Seq(Alphabet)] :
              /\ F[0] = <<>> /\ F[Len(B)] = FlattenSeq(B)
              /\ \A k \in 1..Len(B) : F[k] = F[k - 1] \o B[k]
        BY <2>1, FlattenBySequence
    <2> QED  BY <1>4, <2>2
<1>7. \A k \in 1..n : Texts(s)[k] = FieldText(s[k]) /\ FlagsOf(s)[k] = Flag(s[k])
    BY DEF Texts, FlagsOf
<1> HIDE DEF n
<1>8. Blocks(Alphabet, Flags, n, Texts(s), FlagsOf(s), F)
    BY <1>1, <1>2, <1>3, <1>6, <1>7 DEF Blocks
<1> QED  BY <1>5, <1>6, <1>8 DEF n

(* Equal keys have the same texts and flags, field by field. *)
LEMMA KeysTell ==
    ASSUME NEW s \in Schemas, NEW t \in Schemas, Legible(ToSet(s) \cup ToSet(t)),
           SchemaKey(s) = SchemaKey(t)
    PROVE  /\ Len(s) = Len(t)
           /\ \A k \in 1..Len(s) : /\ FieldText(s[k]) = FieldText(t[k])
                                   /\ s[k].nullable = t[k].nullable
<1>1. Len(s) \in Nat /\ Len(t) \in Nat  BY SchemaTexts
<1>2. Legible(ToSet(s)) /\ Legible(ToSet(t))  BY DEF Legible
<1>3. PICK F : Blocks(Alphabet, Flags, Len(s), Texts(s), FlagsOf(s), F) /\ F[Len(s)] = SchemaKey(s)
    BY <1>2, KeyBlocks
<1>4. PICK G : Blocks(Alphabet, Flags, Len(t), Texts(t), FlagsOf(t), G) /\ G[Len(t)] = SchemaKey(t)
    BY <1>2, KeyBlocks
<1>5. Len(s) = Len(t) /\ \A k \in 1..Len(s) : /\ Texts(s)[k] = Texts(t)[k]
                                              /\ FlagsOf(s)[k] = FlagsOf(t)[k]
    <2> DEFINE n == Len(s)  m == Len(t)  A == Alphabet
    <2>1. /\ n \in Nat /\ m \in Nat /\ F[n] = G[m]
          /\ Blocks(A, Flags, n, Texts(s), FlagsOf(s), F)
          /\ Blocks(A, Flags, m, Texts(t), FlagsOf(t), G)
        BY <1>1, <1>3, <1>4
    <2> HIDE DEF n, m, A
    <2>2. n = m /\ \A k \in 1..n : Texts(s)[k] = Texts(t)[k] /\ FlagsOf(s)[k] = FlagsOf(t)[k]
        BY <2>1, BlocksTell
    <2> QED  BY <2>2 DEF n, m
<1>6. ASSUME NEW k \in 1..Len(s)
      PROVE  FieldText(s[k]) = FieldText(t[k]) /\ s[k].nullable = t[k].nullable
    <2>1. FieldText(s[k]) = FieldText(t[k]) /\ Flag(s[k]) = Flag(t[k])
        BY <1>5 DEF Texts, FlagsOf
    <2>2. s[k].nullable \in BOOLEAN /\ t[k].nullable \in BOOLEAN
        <3>1. /\ s[k] \in [name : STRING, type : STRING, nullable : BOOLEAN]
              /\ t[k] \in [name : STRING, type : STRING, nullable : BOOLEAN]
            BY <1>5, SchemaTexts
        <3> QED  BY <3>1
    <2>3. "x00" # "x01"  OBVIOUS
    <2> QED  BY <2>1, <2>2, <2>3 DEF Flag
<1> QED  BY <1>5, <1>6

(* A legible schema whose names stay, or whose fields read apart, cannot   *)
(* change without its fingerprint's input.                                 *)
LEMMA ChangeIsNoticed == TypeOK => FingerprintNoticesChange
<1> DEFINE fields == ToSet(actual) \cup ToSet(expected)
           names(schema) == [k \in 1..Len(schema) |-> schema[k].name]
<1> SUFFICES ASSUME TypeOK, Legible(fields), SchemaKey(actual) = SchemaKey(expected),
                    names(actual) = names(expected) \/ ReadApart(fields)
             PROVE  actual = expected
    BY DEF FingerprintNoticesChange
<1>1. actual \in Schemas /\ expected \in Schemas  BY DEF TypeOK
<1>2. Len(actual) = Len(expected)
      /\ \A k \in 1..Len(actual) : /\ FieldText(actual[k]) = FieldText(expected[k])
                                   /\ actual[k].nullable = expected[k].nullable
    BY <1>1, KeysTell
<1>3. /\ DOMAIN actual = 1..Len(actual) /\ DOMAIN expected = 1..Len(expected)
      /\ Len(actual) \in Nat
    BY <1>1, SchemaTexts
<1>4. ASSUME NEW k \in 1..Len(actual) PROVE actual[k] = expected[k]
    <2> DEFINE a == actual[k]  e == expected[k]
    <2>1. /\ a \in [name : STRING, type : STRING, nullable : BOOLEAN]
          /\ a.name \in DOMAIN TextOf /\ a.type \in DOMAIN TextOf
          /\ TextOf[a.name] \in Seq(Alphabet) /\ TextOf[a.type] \in Seq(Alphabet)
        BY <1>1, SchemaTexts
    <2>2. /\ e \in [name : STRING, type : STRING, nullable : BOOLEAN]
          /\ e.name \in DOMAIN TextOf /\ e.type \in DOMAIN TextOf
          /\ TextOf[e.name] \in Seq(Alphabet) /\ TextOf[e.type] \in Seq(Alphabet)
        BY <1>1, <1>2, SchemaTexts
    <2>3. a.name = e.name
        <3>1. CASE names(actual) = names(expected)
            <4>1. names(actual)[k] = a.name /\ names(expected)[k] = e.name  BY <1>2
            <4> HIDE DEF names, a, e
            <4> QED  BY <3>1, <4>1
        <3>2. CASE ReadApart(fields)
            <4>1. a \in fields /\ e \in fields  BY <1>2, <1>3 DEF ToSet
            <4>2. FieldText(a) = FieldText(e)  BY <1>2
            <4> HIDE DEF fields, a, e
            <4> QED  BY <3>2, <4>1, <4>2 DEF ReadApart
        <3> QED  BY <3>1, <3>2
    <2>4. TextOf[a.name] \o TextOf[a.type] = TextOf[e.name] \o TextOf[e.type]
        BY <1>2 DEF FieldText
    <2>5. a.nullable = e.nullable  BY <1>2
    <2> HIDE DEF a, e
    <2>6. TextOf[a.type] = TextOf[e.type]  BY <2>1, <2>2, <2>3, <2>4, SameBeginning
    <2>7. a.type = e.type  BY <2>1, <2>2, <2>6, EquivalenceAssumption DEF TextsTell
    <2> QED  BY <2>1, <2>2, <2>3, <2>5, <2>7 DEF a, e
<1>5. /\ actual = [k \in 1..Len(actual) |-> actual[k]]
      /\ expected = [k \in 1..Len(expected) |-> expected[k]]
    <2>1. /\ actual \in Seq([name : STRING, type : STRING, nullable : BOOLEAN])
          /\ expected \in Seq([name : STRING, type : STRING, nullable : BOOLEAN])
        BY <1>1, SchemasAreSequences
    <2> QED  BY <2>1
<1> QED  BY <1>2, <1>4, <1>5

(* Whatever is changed in a schema shows in what its fingerprint hashes,   *)
(* if no text has a flag in it and the names stay in their places or no    *)
(* two fields of different names read alike.                               *)
THEOREM FingerprintsNoticeChange == CallSpec => []FingerprintNoticesChange
<1>1. IInv => FingerprintNoticesChange  BY ChangeIsNoticed DEF IInv
<1> QED  BY <1>1, CallsValidate, SpecIInv, PTL
=============================================================================
