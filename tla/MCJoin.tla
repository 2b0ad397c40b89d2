------------------------------- MODULE MCJoin -------------------------------
EXTENDS Join, SequencesExt

CONSTANT MaxRows    \* bound on the rows of either side

(* Keys of two columns: without nulls, with a null in one, in both. *)
MCKey == {<<"a", "b">>, <<"a", "null">>, <<"null", "null">>, <<"b", "b">>}
MCCode == [k \in MCKey |-> k]
MCNulled == {k \in MCKey : "null" \in {k[1], k[2]}}

(* Keys of one column without a null buffer of its own: a Null array, or a *)
(* dictionary that maps to a null.                                         *)
HiddenKey == {<<"a">>, <<"null">>}
HiddenCode == [k \in HiddenKey |-> k]
HiddenNulled == {<<"null">>}

MCSides == BoundedSeq(Key, MaxRows)
MCLeftTypes == [c \in {"id", "tag"} |-> IF c = "id" THEN "Int64" ELSE "Utf8"]
MCRightTypes == [c \in {"user_id", "label"} |-> IF c = "user_id" THEN "Int64" ELSE "Utf8"]

(* The output of an earlier join on the left, joined by "id" again. *)
JoinedTypes == [c \in {"id", "id_right"} |-> "Int64"]
PlainTypes == [c \in {"id"} |-> "Int64"]
ById == {<<<<"id">>, <<"id">>>>}

MCRequests == {<<<<"id", "tag">>, <<"user_id", "label">>>>, <<<<>>, <<>>>>,
               <<<<"id">>, <<"label">>>>, <<<<"id">>, <<"user_id", "label">>>>,
               <<<<"id">>, <<"id">>>>}
=============================================================================
