--------------------------- MODULE NormalizeJson ---------------------------
(***************************************************************************)
(* normalize_json (witchhat-core/src/json.rs): rows of JSON text become    *)
(* one column per field of a schema.  A text is a parsed value, or Bad if  *)
(* it does not parse; a value has a kind and, if it is an object, members. *)
(***************************************************************************)
EXTENDS Naturals, Sequences, FiniteSets

CONSTANTS
    Texts,      \* the JSON texts considered, values and Bad
    Schemas,    \* sequences of fields [path, type, nullable]
    MaxRows,
    NullText,   \* a row that has no text
    Bad         \* text that does not parse

(* A schema is a sequence of fields. *)
SchemasOfFields ==
    /\ MaxRows \in Nat
    /\ \A s \in Schemas :
          s \in Seq([path : Seq(STRING), type : STRING, nullable : BOOLEAN])

ASSUME JsonAssumption == SchemasOfFields

Supported == {"Utf8", "Int64", "Float64", "Boolean"}

VARIABLES
    pc,         \* "check", "rows", "row", "done" or "error"
    json, schema,
    row,        \* how many rows are done
    field,      \* how many fields of the next row are done
    columns,    \* the builders: a sequence of cells per field, null or value
    malformed,  \* NormalizeStats::rows_malformed
    mismatches  \* NormalizeStats::type_mismatches, from paths to counts

jsonVars == <<pc, json, schema, row, field, columns, malformed, mismatches>>

JsonTypeOK ==
    /\ pc \in {"check", "rows", "row", "done", "error"}
    /\ json \in UNION {[1..n -> Texts \cup {NullText}] : n \in 0..MaxRows}
    /\ schema \in Schemas
    /\ row \in 0..Len(json)
    /\ field \in 0..Len(schema)
    /\ columns \in [1..Len(schema) -> Seq({"null", "value"})]
    /\ malformed \in 0..row
    /\ DOMAIN mismatches \subseteq {schema[c].path : c \in 1..Len(schema)}
    /\ \A path \in DOMAIN mismatches : mismatches[path] \in Nat \ {0}

-----------------------------------------------------------------------------
Nothing == [kind |-> "nothing"]

(* walk: the value at a path of object keys, if there is one. *)
Walk(root, path) ==
    LET Step(value, key) ==
            IF value.kind = "object" /\ key \in DOMAIN value.members
            THEN value.members[key] ELSE Nothing
        reach[k \in 0..Len(path)] == IF k = 0 THEN root ELSE Step(reach[k - 1], path[k])
    IN  reach[Len(path)]

(* as_str, as_i64, as_f64, as_bool: an integer is read as a float, but not *)
(* a float, or an integer beyond 64 bits, as an integer.                   *)
Reads == [Utf8 |-> {"string"}, Int64 |-> {"int"},
          Float64 |-> {"int", "bigint", "float"}, Boolean |-> {"bool"}]

Append1(c, cell) == [columns EXCEPT ![c] = Append(@, cell)]

-----------------------------------------------------------------------------
JsonInit ==
    /\ pc = "check"
    /\ json \in UNION {[1..n -> Texts \cup {NullText}] : n \in 0..MaxRows}
    /\ schema \in Schemas
    /\ row = 0 /\ field = 0
    /\ columns = [c \in 1..Len(schema) |-> <<>>]
    /\ malformed = 0
    /\ mismatches = [path \in {} |-> 0]

CheckTypes ==
    /\ pc = "check"
    /\ pc' = IF \A c \in 1..Len(schema) : schema[c].type \in Supported THEN "rows" ELSE "error"
    /\ UNCHANGED <<json, schema, row, field, columns, malformed, mismatches>>

IsObject(text) == text \notin {NullText, Bad} /\ text.kind = "object"

ReadObject ==
    /\ pc = "rows" /\ row < Len(json)
    /\ IsObject(json[row + 1])
    /\ field' = 0
    /\ pc' = "row"
    /\ UNCHANGED <<json, schema, row, columns, malformed, mismatches>>

(* A malformed row is counted and skipped. *)
SkipMalformed ==
    /\ pc = "rows" /\ row < Len(json)
    /\ ~ IsObject(json[row + 1])
    /\ malformed' = malformed + 1
    /\ row' = row + 1
    /\ UNCHANGED <<pc, json, schema, field, columns, mismatches>>

(* No text, text that does not parse, and JSON that is no object are null  *)
(* in every column.                                                        *)
MalformedRow ==
    /\ pc = "rows" /\ row < Len(json)
    /\ ~ IsObject(json[row + 1])
    /\ malformed' = malformed + 1
    /\ columns' = [c \in 1..Len(schema) |-> Append(columns[c], "null")]
    /\ row' = row + 1
    /\ UNCHANGED <<pc, json, schema, field, mismatches>>

value == Walk(json[row + 1], schema[field + 1].path)

(* A path that is absent, or explicitly null. *)
OrdinaryNull ==
    /\ pc = "row" /\ field < Len(schema)
    /\ value.kind \in {"nothing", "null"}
    /\ columns' = Append1(field + 1, "null")
    /\ field' = field + 1
    /\ UNCHANGED <<pc, json, schema, row, malformed, mismatches>>

AppendValue ==
    /\ pc = "row" /\ field < Len(schema)
    /\ value.kind \in Reads[schema[field + 1].type]
    /\ columns' = Append1(field + 1, "value")
    /\ field' = field + 1
    /\ UNCHANGED <<pc, json, schema, row, malformed, mismatches>>

(* Every mismatch counted as the first. *)
CountOnce(path) == [p \in DOMAIN mismatches \cup {path} |->
                        IF p = path THEN 1 ELSE mismatches[p]]

(* entry(path).or_insert(0) += 1 *)
CountMismatch(path) ==
    [p \in DOMAIN mismatches \cup {path} |->
        (IF p \in DOMAIN mismatches THEN mismatches[p] ELSE 0) + (IF p = path THEN 1 ELSE 0)]

Mismatch ==
    /\ pc = "row" /\ field < Len(schema)
    /\ value.kind \notin {"nothing", "null"} \cup Reads[schema[field + 1].type]
    /\ columns' = Append1(field + 1, "null")
    /\ mismatches' = CountMismatch(schema[field + 1].path)
    /\ field' = field + 1
    /\ UNCHANGED <<pc, json, schema, row, malformed>>

RowDone ==
    /\ pc = "row" /\ field = Len(schema)
    /\ row' = row + 1
    /\ pc' = "rows"
    /\ UNCHANGED <<json, schema, field, columns, malformed, mismatches>>

(* RecordBatch::try_new: some column, and no null where none is allowed. *)
Buildable ==
    /\ schema # <<>>
    /\ \A c \in 1..Len(schema) : schema[c].nullable
            \/ \A i \in 1..Len(columns[c]) : columns[c][i] # "null"

Finish ==
    /\ pc = "rows" /\ row = Len(json)
    /\ pc' = IF Buildable THEN "done" ELSE "error"
    /\ UNCHANGED <<json, schema, row, field, columns, malformed, mismatches>>

Returned == pc \in {"done", "error"} /\ UNCHANGED jsonVars

JsonNext ==
    \/ CheckTypes \/ ReadObject \/ MalformedRow \/ OrdinaryNull \/ AppendValue
    \/ Mismatch \/ RowDone \/ Finish \/ Returned

JsonSpec == JsonInit /\ [][JsonNext]_jsonVars

-----------------------------------------------------------------------------
Nulls(c) == Cardinality({i \in 1..Len(columns[c]) : columns[c][i] = "null"})

(* Every branch appends to every column: row i of each column is row i of  *)
(* the input, whatever was malformed, absent or of another type before it  *)
(* (json.rs, lines 255 to 281).                                            *)
ColumnsAligned ==
    \A c \in 1..Len(schema) :
        Len(columns[c]) = row + (IF pc = "row" /\ c <= field THEN 1 ELSE 0)

(* No null is silent: those of a returned column are the malformed rows,   *)
(* the counted mismatches, and the rows where the path holds nothing or    *)
(* null; "it must be visible, not silently absorbed as an ordinary null"   *)
(* (json.rs, lines 49 to 65).  Two fields of one path count together.      *)
StatsExplainNulls ==
    pc = "done" => \A c \in 1..Len(schema) :
        LET path == schema[c].path
            twins == {d \in 1..Len(schema) : schema[d].path = path}
            ordinary == {i \in 1..Len(json) : IsObject(json[i])
                            /\ Walk(json[i], path).kind \in {"nothing", "null"}}
        IN  twins = {c} =>
                Nulls(c) = malformed + Cardinality(ordinary)
                    + (IF path \in DOMAIN mismatches THEN mismatches[path] ELSE 0)

(* "A malformed row does not fail the whole batch" (json.rs, line 52): if  *)
(* every object has a value for every column, malformed rows among them    *)
(* change nothing.                                                         *)
MalformedRowFailsNoBatch ==
    (/\ schema # <<>>
     /\ \A c \in 1..Len(schema) : schema[c].type \in Supported
     /\ \A i \in 1..Len(json), c \in 1..Len(schema) : IsObject(json[i]) =>
            Walk(json[i], schema[c].path).kind \in Reads[schema[c].type])
    => pc # "error"
=============================================================================
