----------------------------- MODULE MCBindings -----------------------------
EXTENDS Bindings

CONSTANTS c1, s1

(* A call of one binding of each kind, and a stream that hashes batch      *)
(* after batch.                                                            *)
MCBindingsOf ==
    (c1 :> {hash_rows, table_fingerprint, schema_fingerprint, validate_schema,
            clean_with_preset, clean_with_rules}) @@
    (s1 :> {hash_rows})

MCFaults == {{}, {"object"}, {"array"}, {"data"}, {"bug"},
             {"name", "array"}, {"name", "data"}, {"array", "rules"}, {"rules"}}
=============================================================================
