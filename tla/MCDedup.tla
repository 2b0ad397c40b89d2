------------------------------ MODULE MCDedup ------------------------------
(* Float keys are the interesting ones: two zeros and two NaNs that hash   *)
(* alike without sharing their bytes, and a true collision.                *)
EXTENDS Dedup, SequencesExt

MCEncoding == {"zero", "negzero", "nan", "payload", "one", "clash"}
MCHash == {"h0", "h1", "h2"}
MCHashOf == [r \in MCEncoding |-> CASE r \in {"zero", "negzero"} -> "h0"
                               [] r \in {"nan", "payload"} -> "h1"
                               [] OTHER -> "h2"]
MCInputs == BoundedSeq(MCEncoding, 4)
MCHashable == {"id"}
MCRequests == {{"id"}, {"id", "tags"}, {"missing"}, {}}

(* The rows hash_batch canonicalizes to one value (hash.rs, 169 to 187). *)
MCCanonical == {<<r, r>> : r \in MCEncoding}
               \cup {<<"zero", "negzero">>, <<"negzero", "zero">>}
               \cup {<<"nan", "payload">>, <<"payload", "nan">>}

(* dedup.rs, 32 to 36: rows whose values are equal under hash_batch's      *)
(* float canonicalization count as duplicates, so a returned batch holds   *)
(* at most one row per canonical value.                                    *)
CanonicalDuplicatesDropped ==
    \A i, j \in out : i < j => <<input[i], input[j]>> \notin MCCanonical
=============================================================================
