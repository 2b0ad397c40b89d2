--------------------------- MODULE ValidateSchema ---------------------------
(***************************************************************************)
(* validate_schema (witchhat-core/src/validate.rs): every expected field   *)
(* is looked up among the actual ones and judged, then the actual fields   *)
(* nobody asked for are listed.                                            *)
(***************************************************************************)
EXTENDS SchemaRules

CONSTANTS
    Schemas     \* the schemas considered

ASSUME SchemasAreSequences ==
    \A s \in Schemas : s \in Seq([name : STRING, type : STRING, nullable : BOOLEAN])

VARIABLES
    pc,             \* "compare" or "done"
    actual, expected,
    allowWidening,  \* ValidateSchemaOptions::allow_numeric_widening
    next,           \* how many expected fields are judged
    diff            \* the SchemaDiff so far

vars == <<pc, actual, expected, allowWidening, next, diff>>

TypeOK ==
    /\ pc \in {"compare", "done"}
    /\ actual \in Schemas /\ expected \in Schemas
    /\ allowWidening \in BOOLEAN
    /\ next \in 0..Len(expected)
    /\ diff \in [missing     : SUBSET (FieldNames(expected) \ FieldNames(actual)),
                 unexpected  : SUBSET (FieldNames(actual) \ FieldNames(expected)),
                 retyped     : SUBSET (FieldNames(expected) \cap FieldNames(actual)),
                 nullability : SUBSET (FieldNames(expected) \cap FieldNames(actual))]

-----------------------------------------------------------------------------
Init ==
    /\ pc = "compare"
    /\ actual \in Schemas /\ expected \in Schemas
    /\ allowWidening \in BOOLEAN
    /\ next = 0
    /\ diff = NoDifference

field == expected[next + 1]

MissingField ==
    /\ pc = "compare" /\ next < Len(expected)
    /\ field.name \notin FieldNames(actual)
    /\ diff' = [diff EXCEPT !.missing = @ \cup {field.name}]
    /\ next' = next + 1
    /\ UNCHANGED <<pc, actual, expected, allowWidening>>

(* A field of both, whose nullability matters only if its type is right. *)
CompareFieldElse ==
    /\ pc = "compare" /\ next < Len(expected)
    /\ field.name \in FieldNames(actual)
    /\ LET found == FieldFor(actual, field.name)
       IN  diff' = IF ~ TypesCompatible(field.type, found.type, allowWidening)
                   THEN [diff EXCEPT !.retyped = @ \cup {field.name}]
                   ELSE IF ~ NullabilityCompatible(field.nullable, found.nullable)
                   THEN [diff EXCEPT !.nullability = @ \cup {field.name}]
                   ELSE diff
    /\ next' = next + 1
    /\ UNCHANGED <<pc, actual, expected, allowWidening>>

(* A field of both: its type and its nullability are judged separately. *)
CompareField ==
    /\ pc = "compare" /\ next < Len(expected)
    /\ field.name \in FieldNames(actual)
    /\ LET found == FieldFor(actual, field.name)
           Unless(ok) == IF ok THEN {} ELSE {field.name}
       IN  diff' = [diff EXCEPT
               !.retyped = @ \cup Unless(TypesCompatible(field.type, found.type, allowWidening)),
               !.nullability = @ \cup Unless(NullabilityCompatible(field.nullable, found.nullable))]
    /\ next' = next + 1
    /\ UNCHANGED <<pc, actual, expected, allowWidening>>

(* Every actual field but the first. *)
UnexpectedLate == {actual[k].name : k \in 2..Len(actual)} \ FieldNames(expected)

Unexpected == FieldNames(actual) \ FieldNames(expected)

ListUnexpected ==
    /\ pc = "compare" /\ next = Len(expected)
    /\ diff' = [diff EXCEPT !.unexpected = Unexpected]
    /\ pc' = "done"
    /\ UNCHANGED <<actual, expected, allowWidening, next>>

Returned == pc = "done" /\ UNCHANGED vars

Next == MissingField \/ CompareField \/ ListUnexpected \/ Returned

Spec == Init /\ [][Next]_vars

-----------------------------------------------------------------------------
(* Code written against a schema finds every column it names, of a type it *)
(* can read, and never a null it was promised not to see.                  *)
ReadableAs(have, want, widening) ==
    \A k \in 1..Len(want) :
        /\ want[k].name \in FieldNames(have)
        /\ LET found == FieldFor(have, want[k].name)
           IN  /\ TypesCompatible(want[k].type, found.type, widening)
               /\ found.nullable => want[k].nullable

(* The loop, field by field, reports every fault of every field, and what  *)
(* it reports is what check_equivalence may take it to say.                *)
ReportsEveryFault == pc = "done" => diff = DiffOf(actual, expected, allowWidening)

(* A difference is breaking exactly if code written against the expected   *)
(* schema cannot read data of the actual one (validate.rs, lines 74 to 84, *)
(* and 108 to 114): no field's verdict is lost to those after it.          *)
BreakingIsExact ==
    pc = "done" => (IsBreaking(diff) <=> ~ ReadableAs(actual, expected, allowWidening))

(* The columns of a schema, whatever their order and nullability. *)
ColumnsOf(schema) ==
    {[name |-> schema[k].name, type |-> schema[k].type] : k \in 1..Len(schema)}

(* No column that is nullable was promised not to be. *)
NoNullsUnforeseen ==
    \A j \in 1..Len(actual), k \in 1..Len(expected) :
        actual[j].name = expected[k].name /\ actual[j].nullable => expected[k].nullable

(* Of two schemas of distinct field names, with types compared strictly,   *)
(* the difference is empty exactly if both have the same columns and no    *)
(* nullable one was promised not to be; the order of the fields and a      *)
(* promise more than kept make no difference (validate.rs, lines 65 to 72  *)
(* and 108 to 114).                                                        *)
EmptyMeansSameColumns ==
    pc = "done" /\ ~ allowWidening /\ DistinctNames(actual) /\ DistinctNames(expected) =>
        (IsEmptyDiff(diff) <=>
            ColumnsOf(actual) = ColumnsOf(expected) /\ NoNullsUnforeseen)

(* A schema may evolve in steps: if neither of two steps breaks, the two   *)
(* together do not (validate.rs, lines 86 to 98: no widening is forgotten  *)
(* that two others add up to).                                             *)
EvolutionComposes ==
    pc = "done" =>
        \A middle \in Schemas :
            /\ ReadableAs(middle, expected, allowWidening)
            /\ ReadableAs(actual, middle, allowWidening)
            => ~ IsBreaking(diff)

(* "Duplicate field names within one schema are not rejected; the last     *)
(* field with a given name wins" (validate.rs, lines 137 to 139): a schema *)
(* agrees with itself.                                                     *)
LastFieldWins == pc = "done" /\ actual = expected => IsEmptyDiff(diff)
=============================================================================
