---------------------------- MODULE Equivalence ----------------------------
(***************************************************************************)
(* check_equivalence (witchhat-core/src/equivalence.rs): two batches are   *)
(* compared by their schemas (validate_schema, as ValidateSchema has it),  *)
(* their row counts, the fingerprints of their rows over a list of columns *)
(* (hash_batch and table_fingerprint of witchhat-core/src/hash.rs) and, in *)
(* the exact mode, by their sorted rows.  A batch is [fields, rows], its   *)
(* rows cells by position; actual and expected are the schemas of two.     *)
(***************************************************************************)
EXTENDS RowHash, ValidateSchema, SequencesExt

CONSTANTS
    Calls,      \* the calls: [actual, expected : batch, request, exact]
    TypeOf,     \* a field's type -> its name and parameters
    Shared,     \* stands for columns: None
    TextOf      \* a name or a type -> its characters

(* Arrow's arrays: a cell for every row and field, of the field's type.    *)
IsBatch(b) ==
    /\ b.fields \in Schemas
    /\ \A c \in 1..Len(b.fields) : b.fields[c].type \in DOMAIN TypeOf
    /\ Len(b.rows) \in Nat
    /\ \A i \in 1..Len(b.rows), c \in 1..Len(b.fields) :
          b.rows[i][c] \in CellsOf(TypeOf[b.fields[c].type])

CallsOfBatches ==
    /\ \A call \in Calls : /\ IsBatch(call.actual) /\ IsBatch(call.expected)
                           /\ call.request # Shared => call.request \in Seq(STRING)
                           /\ call.exact \in BOOLEAN
    /\ \A t \in DOMAIN TypeOf : IsType(TypeOf[t])

(* Texts of the fields' names and types, from which they can be told. *)
TextsTell ==
    /\ \A t \in DOMAIN TextOf : TextOf[t] \in Seq(STRING)
    /\ \A t, u \in DOMAIN TextOf : TextOf[t] = TextOf[u] => t = u
    /\ \A s \in Schemas : \A k \in 1..Len(s) : {s[k].name, s[k].type} \subseteq DOMAIN TextOf

ASSUME EquivalenceAssumption == NullIsNoValue /\ CallsOfBatches /\ TextsTell

VARIABLES
    phase,          \* "validate", "hash", "compare", "done" or "error"
    actualRows, expectedRows,
    request,        \* the requested columns, or Shared
    exact,          \* EquivalenceMode::Exact
    columns,        \* the columns compared
    fingerprintsMatch, rowsExactlyMatch     \* of the report: options, empty or one value

callVars == <<phase, actualRows, expectedRows, request, exact, columns,
              fingerprintsMatch, rowsExactlyMatch>>
allVars == <<vars, callVars>>

ActualBatch == [fields |-> actual, rows |-> actualRows]
ExpectedBatch == [fields |-> expected, rows |-> expectedRows]

(* What a field contributes but for its flag, and the flag, a byte. *)
FieldText(f) == TextOf[f.name] \o TextOf[f.type]
Flags == {"x00", "x01"}
Flag(f) == IF f.nullable THEN "x01" ELSE "x00"

(* The names and types of the fields, no more. *)
SchemaKeyUnflagged(schema) == FlattenSeq([k \in 1..Len(schema) |-> FieldText(schema[k])])

(* What schema_fingerprint (witchhat-core/src/schema.rs) feeds to its      *)
(* hash, field after field with nothing in between.                        *)
SchemaKey(schema) ==
    FlattenSeq([k \in 1..Len(schema) |-> FieldText(schema[k]) \o <<Flag(schema[k])>>])

CellType(batch, c) == TypeOf[batch.fields[c].type]

CallTypeOK ==
    /\ phase \in {"validate", "hash", "compare", "done", "error"}
    /\ phase # "validate" => pc = "done"
    /\ exact \in BOOLEAN
    /\ \/ columns = request
       \/ columns \in Seq(FieldNames(actual) \cap FieldNames(expected))
    /\ fingerprintsMatch \in SUBSET BOOLEAN
    /\ rowsExactlyMatch \in SUBSET BOOLEAN
    /\ phase \in {"compare", "done"} => Cardinality(fingerprintsMatch) = 1

-----------------------------------------------------------------------------
(* index_of: the first field with a name. *)
FirstNamed(batch, name) ==
    CHOOSE k \in 1..Len(batch.fields) :
        /\ batch.fields[k].name = name
        /\ \A j \in 1..Len(batch.fields) : batch.fields[j].name = name => k <= j

Resolved(batch, names) == [k \in 1..Len(names) |-> FirstNamed(batch, names[k])]

(* hash_batch *)
Hashable(batch, names) ==
    \A k \in 1..Len(names) :
        /\ names[k] \in FieldNames(batch.fields)
        /\ Supported(CellType(batch, FirstNamed(batch, names[k])))

HashBatch(batch, names) ==
    [i \in 1..Len(batch.rows) |->
        FoldLeft(LAMBDA acc, c : Combine(acc, CellHash(CellType(batch, c), batch.rows[i][c])),
                 Seed, Resolved(batch, names))]

Fingerprint(batch, names) == TableFingerprint(HashBatch(batch, names))

(* The names of expected's fields that actual has as well. *)
SharedColumns(a, e) ==
    FoldLeft(LAMBDA names, f : IF f.name \in FieldNames(a) THEN Append(names, f.name) ELSE names,
             <<>>, e)

(* The encoded rows of the compared columns; a RowConverter of no columns  *)
(* has none.                                                               *)
EncodedRows(batch, names) ==
    IF names = <<>> THEN <<>>
    ELSE [i \in 1..Len(batch.rows) |->
            [k \in 1..Len(names) |-> batch.rows[i][Resolved(batch, names)[k]]]]

(* The rows compared as they come. *)
RowsEqualInOrder(a, e, names) ==
    EncodedRows(a, names) = EncodedRows(e, names)

(* rows_exactly_equal: equal sorted lists are equal bags. *)
RowsExactlyEqual(a, e, names) ==
    /\ Len(a.rows) = Len(e.rows)
    /\ \A k \in 1..Len(names) :
          a.fields[Resolved(a, names)[k]].type = e.fields[Resolved(e, names)[k]].type
    /\ ToBag(EncodedRows(a, names)) = ToBag(EncodedRows(e, names))

-----------------------------------------------------------------------------
CallInit ==
    /\ \E call \in Calls :
          /\ actual = call.actual.fields /\ actualRows = call.actual.rows
          /\ expected = call.expected.fields /\ expectedRows = call.expected.rows
          /\ request = call.request /\ exact = call.exact
    /\ Init
    /\ phase = "validate"
    /\ columns = <<>>
    /\ fingerprintsMatch = {} /\ rowsExactlyMatch = {}

(* The schemas are compared, field by field. *)
Validate ==
    /\ phase = "validate"
    /\ MissingField \/ CompareField \/ ListUnexpected
    /\ UNCHANGED callVars

ChooseColumns ==
    /\ phase = "validate" /\ pc = "done"
    /\ columns' = IF request = Shared THEN SharedColumns(actual, expected) ELSE request
    /\ phase' = "hash"
    /\ UNCHANGED <<vars, actualRows, expectedRows, request, exact,
                   fingerprintsMatch, rowsExactlyMatch>>

(* Both batches hashed over the same columns, or the error of the first    *)
(* that cannot be.                                                         *)
HashBoth ==
    /\ phase = "hash"
    /\ Hashable(ActualBatch, columns) /\ Hashable(ExpectedBatch, columns)
    /\ fingerprintsMatch' =
          {Fingerprint(ActualBatch, columns) = Fingerprint(ExpectedBatch, columns)}
    /\ phase' = "compare"
    /\ UNCHANGED <<vars, actualRows, expectedRows, request, exact, columns, rowsExactlyMatch>>

HashFails ==
    /\ phase = "hash"
    /\ ~ (Hashable(ActualBatch, columns) /\ Hashable(ExpectedBatch, columns))
    /\ phase' = "error"
    /\ UNCHANGED <<vars, actualRows, expectedRows, request, exact, columns,
                   fingerprintsMatch, rowsExactlyMatch>>

(* rows_exactly_match is None in the fast mode. *)
CompareRows ==
    /\ phase = "compare"
    /\ rowsExactlyMatch' =
          IF exact THEN {RowsExactlyEqual(ActualBatch, ExpectedBatch, columns)} ELSE {}
    /\ phase' = "done"
    /\ UNCHANGED <<vars, actualRows, expectedRows, request, exact, columns, fingerprintsMatch>>

CallReturned == phase \in {"done", "error"} /\ UNCHANGED allVars

CallNext ==
    Validate \/ ChooseColumns \/ HashBoth \/ HashFails \/ CompareRows \/ CallReturned

CallSpec == CallInit /\ [][CallNext]_allVars

(* An addition is taken for no difference. *)
IsEquivalentUnlessBreaking ==
    /\ ~ IsBreaking(diff)
    /\ Len(actualRows) = Len(expectedRows)
    /\ fingerprintsMatch = {TRUE}
    /\ FALSE \notin rowsExactlyMatch

IsEquivalent ==
    /\ IsEmptyDiff(diff)
    /\ Len(actualRows) = Len(expectedRows)
    /\ fingerprintsMatch = {TRUE}
    /\ FALSE \notin rowsExactlyMatch

-----------------------------------------------------------------------------
(* No text of these fields has a byte of a flag in it; fields that read    *)
(* alike have one name.                                                    *)
Legible(fields) == \A f \in fields : ToSet(FieldText(f)) \cap Flags = {}
ReadApart(fields) ==
    \A f, g \in fields : FieldText(f) = FieldText(g) => f.name = g.name

(* "changing the field order, a type, or a nullability flag changes the    *)
(* result" of schema_fingerprint (schema.rs, lines 19 to 21), although     *)
(* nothing separates names, types and fields: if the names stay in their   *)
(* places, whatever the texts, and if no name and type read like others,   *)
(* whatever is changed.                                                    *)
FingerprintNoticesChange ==
    LET fields == ToSet(actual) \cup ToSet(expected)
        names(schema) == [k \in 1..Len(schema) |-> schema[k].name]
    IN  /\ Legible(fields)
        /\ names(actual) = names(expected) \/ ReadApart(fields)
        /\ SchemaKey(actual) = SchemaKey(expected)
        => actual = expected

(* A name is as good a part of the shape as a type: schemas that differ    *)
(* have different fingerprints ("Hashes a schema's shape: field names in   *)
(* order, their types, and their nullability", schema.rs, line 13).        *)
FingerprintTellsNames == SchemaKey(actual) = SchemaKey(expected) => actual = expected

(* One representative of each value of a float. *)
ValueOf(type, cell) ==
    IF cell = Null THEN cell
    ELSE IF type.name = "Float32" /\ IsNaN32(cell) THEN NaN32
    ELSE IF type.name = "Float64" /\ IsNaN64(cell) THEN NaN64
    ELSE IF type.name \in {"Float32", "Float64"} /\ IsZero(cell) THEN Zero(Len(cell))
    ELSE cell

(* A batch as a bag of records by column name, with its cells as they are, *)
(* or as their values.                                                     *)
Table(batch) ==
    ToBag([i \in 1..Len(batch.rows) |->
        [name \in FieldNames(batch.fields) |-> batch.rows[i][FirstNamed(batch, name)]]])

ValueTable(batch) ==
    ToBag([i \in 1..Len(batch.rows) |->
        [name \in FieldNames(batch.fields) |->
            LET c == FirstNamed(batch, name)
            IN  ValueOf(CellType(batch, c), batch.rows[i][c])]])

SameTypes ==
    \A name \in FieldNames(expected) \cap FieldNames(actual) :
        FieldFor(actual, name).type = FieldFor(expected, name).type

Reported == phase = "done" /\ request = Shared
Distinct == DistinctNames(actual) /\ DistinctNames(expected)

(* In the exact mode, over all columns of batches with distinct field      *)
(* names, two batches are equivalent exactly if their schemas do not       *)
(* differ and they hold the same rows, in whatever order their rows and    *)
(* their columns are, with no caveat of hash collisions, of nulls that     *)
(* hash like zeros, or of widened types (equivalence.rs, lines 11 to 18    *)
(* and 174 to 177).                                                        *)
ExactIsProof ==
    Reported /\ exact /\ Distinct /\ expected # <<>> =>
        (IsEquivalent <=>
            /\ IsEmptyDiff(diff)
            /\ SameTypes
            /\ Table(ActualBatch) = Table(ExpectedBatch))

(* Whatever the mode, the columns asked for and the hashes, batches called *)
(* equivalent have no column too many, and the actual one can be read as   *)
(* the expected one (equivalence.rs, lines 88 to 92).                      *)
EquivalentIsReadable ==
    phase = "done" /\ IsEquivalent =>
        /\ FieldNames(actual) \subseteq FieldNames(expected)
        /\ ReadableAs(actual, expected, allowWidening)

(* In the fast mode equivalent batches without nulls hold the same values, *)
(* floats taken as values and not as bits (equivalence.rs, lines 4 to 10). *)
FastTellsValuesApart ==
    Reported /\ ~ exact /\ Distinct /\ IsEquivalent
        /\ (\A b \in {ActualBatch, ExpectedBatch} : \A i \in 1..Len(b.rows) :
                \A c \in 1..Len(b.fields) : b.rows[i][c] # Null)
        => ValueTable(ActualBatch) = ValueTable(ExpectedBatch)

(* The same type, but for the width of the offsets into text and bytes. *)
Family(name) ==
    IF name \in {"Utf8", "LargeUtf8"} THEN "text"
    ELSE IF name \in {"Binary", "LargeBinary"} THEN "bytes" ELSE name
SameType(s, t) == Family(s.name) = Family(t.name) /\ s.param = t.param

(* Row i of one batch and row j of another, over the compared columns. *)
Columns == 1..Len(columns)
Value(b, i, k) ==
    LET c == FirstNamed(b, columns[k]) IN ValueOf(CellType(b, c), b.rows[i][c])
SameColumns(a, b) == \A k \in Columns :
    SameType(CellType(a, FirstNamed(a, columns[k])), CellType(b, FirstNamed(b, columns[k])))

(* Rows of the same values hash alike, whatever the bits of their floats,  *)
(* and rows without nulls that hash alike have the same values of the same *)
(* types, but for the width of offsets, column by column: no bytes of      *)
(* neighbouring columns run into each other, no two columns trade places,  *)
(* and a number is not one of another width, unit or scale (hash.rs, lines *)
(* 91 to 98 and 361 to 367).                                               *)
HashesTellRowsApart ==
    phase = "done" =>
        \A a, b \in {ActualBatch, ExpectedBatch} :
        LET ha == HashBatch(a, columns)  hb == HashBatch(b, columns)
        IN  \A i \in 1..Len(a.rows), j \in 1..Len(b.rows) :
            LET same == \A k \in Columns : Value(a, i, k) = Value(b, j, k)
                nulls == \E k \in Columns : Null \in {Value(a, i, k), Value(b, j, k)}
            IN  /\ SameColumns(a, b) /\ same => ha[i] = hb[j]
                /\ ~ nulls /\ ha[i] = hb[j] => SameColumns(a, b) /\ same

(* "A null cell hashes distinctly from every non-null value of its column, *)
(* including an empty string or a zero" (hash.rs, lines 363 to 365): two   *)
(* one-row batches that differ in a null are not equivalent.               *)
NullsHashApart ==
    Reported /\ Distinct /\ actual = expected
        /\ Len(actualRows) = 1 /\ Len(expectedRows) = 1
        /\ (\E c \in 1..Len(actual) :
               actualRows[1][c] = Null /\ expectedRows[1][c] # Null)
        => ~ IsEquivalent

(* "Under EquivalenceMode::Exact ... a real proof of row-set equality"     *)
(* (equivalence.rs, lines 174 to 177): cell by cell, if the fields agree   *)
(* in their order.                                                         *)
ExactProvesRowSets ==
    Reported /\ exact /\ IsEquivalent /\ actual = expected
        => ToBag(actualRows) = ToBag(expectedRows)
=============================================================================
