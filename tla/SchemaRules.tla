---------------------------- MODULE SchemaRules ----------------------------
(***************************************************************************)
(* The rules validate_schema compares two schemas by                       *)
(* (witchhat-core/src/validate.rs).  A schema is a sequence of fields      *)
(* [name, type, nullable]; a type is its name.  A difference holds the     *)
(* names of the columns in each of its four lists.                         *)
(***************************************************************************)
EXTENDS Naturals, Sequences

(* The wider types of the same signedness class. *)
Wider == [Int8   |-> {"Int16", "Int32", "Int64"},
          Int16  |-> {"Int32", "Int64"},
          Int32  |-> {"Int64"},
          UInt8  |-> {"UInt16", "UInt32", "UInt64"},
          UInt16 |-> {"UInt32", "UInt64"},
          UInt32 |-> {"UInt64"},
          Float32 |-> {"Float64"}]

(* Only the next wider type of each. *)
OneStepWider(expected, actual) ==
    <<expected, actual>> \in
        {<<"Int8", "Int16">>, <<"Int16", "Int32">>, <<"Int32", "Int64">>,
         <<"UInt8", "UInt16">>, <<"UInt16", "UInt32">>, <<"UInt32", "UInt64">>,
         <<"Float32", "Float64">>}

IsNumericWidening(expected, actual) ==
    /\ expected \in DOMAIN Wider
    /\ actual \in Wider[expected]

TypesCompatible(expected, actual, allowWidening) ==
    \/ expected = actual
    \/ allowWidening /\ IsNumericWidening(expected, actual)

(* The promise taken the wrong way round. *)
NullabilityReversed(expected, actual) == actual \/ ~ expected

(* Only a nullable column in the place of one promised non-null breaks. *)
NullabilityCompatible(expected, actual) == expected \/ ~ actual

-----------------------------------------------------------------------------
FieldNames(schema) == {schema[k].name : k \in 1..Len(schema)}

DistinctNames(schema) ==
    \A j, k \in 1..Len(schema) : schema[j].name = schema[k].name => j = k

(* field_name_index: the last field with a name. *)
LastNamed(schema, name) ==
    CHOOSE k \in 1..Len(schema) :
        /\ schema[k].name = name
        /\ \A j \in 1..Len(schema) : schema[j].name = name => j <= k

FieldFor(schema, name) == schema[LastNamed(schema, name)]

(* The difference the loop of validate_schema adds up to. *)
DiffOf(actual, expected, allowWidening) ==
    LET shared == {k \in 1..Len(expected) : expected[k].name \in FieldNames(actual)}
        Found(k) == FieldFor(actual, expected[k].name)
        NamesOf(K) == {expected[k].name : k \in K}
    IN  [missing |-> FieldNames(expected) \ FieldNames(actual),
         unexpected |-> FieldNames(actual) \ FieldNames(expected),
         retyped |-> NamesOf({k \in shared :
             ~ TypesCompatible(expected[k].type, Found(k).type, allowWidening)}),
         nullability |-> NamesOf({k \in shared :
             ~ NullabilityCompatible(expected[k].nullable, Found(k).nullable)})]

NoDifference == [missing |-> {}, unexpected |-> {}, retyped |-> {}, nullability |-> {}]

IsEmptyDiff(diff) == diff = NoDifference

(* An unexpected column alone does not break. *)
IsBreaking(diff) == diff.missing # {} \/ diff.retyped # {} \/ diff.nullability # {}
=============================================================================
