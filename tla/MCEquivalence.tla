--------------------------- MODULE MCEquivalence ---------------------------
(* Single cells of every kind of hashing, those most easily confused among *)
(* them, in pairs; and tables of up to two rows and two columns, in either *)
(* order of the columns, with a column name used twice, in pairs.  And     *)
(* schemas with no rows, for what their difference says.                   *)
EXTENDS Equivalence

T(name, param) == [name |-> name, param |-> param]
MCTypes == [Boolean |-> T("Boolean", <<>>), Int8 |-> T("Int8", <<>>),
            Int16 |-> T("Int16", <<>>), Int32 |-> T("Int32", <<>>),
            Seconds |-> T("Time32", <<0>>), Millis |-> T("Time32", <<1>>),
            Micros |-> T("Time32", <<2>>),
            Utf8 |-> T("Utf8", <<>>), LargeUtf8 |-> T("LargeUtf8", <<>>),
            UInt8 |-> T("UInt8", <<>>), UInt64 |-> T("UInt64", <<>>),
            Float32 |-> T("Float32", <<>>), Float64 |-> T("Float64", <<>>),
            List |-> T("List", <<>>)]

(* Names and types by the pieces they have in common. *)
MCTexts == [a |-> <<"a">>, aU |-> <<"a", "U">>, b |-> <<"b">>, Boolean |-> <<"Boolean">>,
            Int8 |-> <<"Int", "8">>, Int16 |-> <<"Int", "16">>, Int32 |-> <<"Int", "32">>,
            UInt8 |-> <<"U", "Int", "8">>, UInt64 |-> <<"U", "Int", "64">>,
            Seconds |-> <<"Time32", "s">>, Millis |-> <<"Time32", "ms">>,
            Micros |-> <<"Time32", "us">>,
            Utf8 |-> <<"Utf8">>, LargeUtf8 |-> <<"Large", "Utf8">>,
            Float32 |-> <<"Float", "32">>, Float64 |-> <<"Float", "64">>, List |-> <<"List">>]

Bits32 == {<<0, 0, 0, 0>>, <<5, 0, 0, 0>>}
NegZero == <<0, 0, 0, 0, 0, 0, 0, 128>>
NaN2 == <<1, 0, 0, 0, 0, 0, 240, 127>>
Infinity == <<0, 0, 0, 0, 0, 0, 240, 127>>
Cells == [Boolean |-> {<<0>>, <<1>>}, Int8 |-> {<<0>>, <<255>>}, Int32 |-> Bits32,
          Seconds |-> Bits32, Millis |-> Bits32, Micros |-> Bits32,
          Utf8 |-> {<<>>, <<0>>, <<12>>, <<12, 0>>}, LargeUtf8 |-> {<<>>, <<12>>},
          Float32 |-> {Zero(4), <<0, 0, 0, 128>>, NaN32, <<1, 0, 128, 255>>, <<0, 0, 128, 127>>},
          Float64 |-> {Zero(8), NegZero, NaN64, NaN2, Infinity}]

Field(name, type) == [name |-> name, type |-> type, nullable |-> TRUE]
Of(fields, rows) == {[fields |-> fields, rows |-> r] : r \in rows}
RowsUpTo(n, row) == UNION {[1..k -> row] : k \in 0..n}

Singles == UNION {Of(<<Field("a", t)>>, [1..1 -> [1..1 -> Cells[t] \cup {Null}]]) :
                      t \in DOMAIN Cells}

A8 == Field("a", "Int8")
B8 == Field("b", "Int8")
Strict == [A8 EXCEPT !.nullable = FALSE]
AU == Field("a", "Utf8")
BU == Field("b", "Utf8")
Byte == {<<0>>, <<1>>}
Text == {<<>>, <<12>>, <<12, 12>>}

Tables ==
    Of(<<A8>>, RowsUpTo(2, [1..1 -> Byte \cup {Null}]))
    \cup Of(<<Strict>>, RowsUpTo(1, [1..1 -> Byte]))
    \cup Of(<<Field("a", "Int16")>>, RowsUpTo(1, [1..1 -> {<<0, 0>>}]))
    \cup Of(<<Field("a", "Float64")>>, RowsUpTo(2, [1..1 -> {Zero(8), NegZero}]))
    \cup Of(<<A8, B8>>, RowsUpTo(2, [1..2 -> Byte]))
    \cup Of(<<B8, A8>>, RowsUpTo(2, [1..2 -> Byte]))
    \cup Of(<<A8, A8>>, RowsUpTo(1, [1..2 -> Byte]))
    \cup Of(<<Field("a", "List")>>, RowsUpTo(1, [1..1 -> {<<1>>}]))
    \cup Of(<<>>, {<<>>})
(* Those with a column to be asked for, and those without. *)
Wide == Of(<<A8, B8>>, RowsUpTo(1, [1..2 -> Byte])) \cup Of(<<B8, A8>>, RowsUpTo(1, [1..2 -> Byte]))
            \cup Of(<<A8>>, RowsUpTo(1, [1..1 -> Byte]))
            \cup Of(<<BU>>, RowsUpTo(1, [1..1 -> Text]))
Texts == Of(<<AU, BU>>, RowsUpTo(1, [1..2 -> Text]))

Batch(schema) == [fields |-> schema, rows |-> <<>>]
Call(have, want, columnList, mode) ==
    [actual |-> have, expected |-> want, request |-> columnList, exact |-> mode]

(* Schemas of up to two fields of two names, three signed widths and one   *)
(* of another class, of either nullability, the same name twice included.  *)
MCFields == [name : {"a", "b"}, type : {"Int8", "Int16", "Int32", "UInt64"}, nullable : BOOLEAN]
TwoNames == {s \in MCFields \X MCFields : s[1].name # s[2].name /\ s[2].type = "Int8"}
OneName == {s \in MCFields \X MCFields :
               s[1].name = "a" /\ s[2].name = "a" /\ s[1].type = "Int16" /\ ~ s[1].nullable}
(* Two fields that read alike, alone and in either order. *)
Alike == {<<Field("aU", "Int8")>>, <<Field("a", "UInt8")>>,
          <<Field("aU", "Int8"), Field("a", "UInt8")>>, <<Field("a", "UInt8"), Field("aU", "Int8")>>}
Evolving == {<<>>} \cup {<<f>> : f \in MCFields} \cup TwoNames \cup OneName \cup Alike

MCSchemas == Evolving \cup {b.fields : b \in Singles \cup Tables \cup Texts \cup Wide}

MCCalls ==
    {Call(p[1], p[2], Shared, mode) :
        p \in (Singles \X Singles) \cup (Tables \X Tables) \cup (Texts \X Texts),
        mode \in BOOLEAN}
    \cup {Call(a, e, <<"b">>, TRUE) : a, e \in Wide}
    \cup {Call(Batch(s), Batch(t), Shared, FALSE) : s, t \in Evolving}
=============================================================================
