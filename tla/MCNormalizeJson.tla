-------------------------- MODULE MCNormalizeJson --------------------------
(* Up to three rows of JSON: scalars of every kind under the key a, at top *)
(* level and nested under o; arrays, scalars and text that is no object.   *)
EXTENDS NormalizeJson, TLC

Scalar(kind) == [kind |-> kind]
Object(members) == [kind |-> "object", members |-> members]
Kinds == {"string", "int", "bigint", "float", "bool", "null", "array"}

MCTexts == {Bad, Scalar("array"), Object([k \in {} |-> Nothing])}
    \cup {Object("a" :> Scalar(kind)) : kind \in Kinds}
    \cup {Object("o" :> v) : v \in {Scalar("int"), Object("a" :> Scalar("int"))}}
    \cup {Object(("a" :> Scalar("int")) @@ ("o" :> Object("a" :> Scalar("string"))))}

F(path, type, nullable) == [path |-> path, type |-> type, nullable |-> nullable]
MCSchemas ==
    {<<F(<<"a">>, t, n)>> : t \in {"Utf8", "Int64", "Float64", "Boolean"}, n \in BOOLEAN}
    \cup {<<>>, <<F(<<"a">>, "Date32", TRUE)>>,
          <<F(<<"a">>, "Int64", TRUE), F(<<"o", "a">>, "Utf8", TRUE)>>,
          <<F(<<"o", "a">>, "Int64", TRUE), F(<<"o", "a">>, "Float64", TRUE)>>,
          <<F(<<"o">>, "Float64", TRUE), F(<<"a", "a">>, "Boolean", TRUE)>>}
=============================================================================
