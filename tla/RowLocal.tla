------------------------------ MODULE RowLocal ------------------------------
(***************************************************************************)
(* The row-local operations of spark.py: hash_rows, clean_with_preset and  *)
(* clean_with_rules.  The driver declares the output schema from the       *)
(* DataFrame's; an executor turns every batch of a partition into one of   *)
(* that schema, or fails at it.  A batch is a sequence of rows, a row its  *)
(* cells by position.                                                      *)
(***************************************************************************)
EXTENDS Clean, Integers, FiniteSets

CONSTANTS
    Jobs,       \* [op, version, fields, batches, columns, output, cleaning]
    Unnamed,    \* no output column given: None or ""
    Invalid,    \* an unknown preset, or rules that do not compile
    HashWidth,  \* bits of a hash
    Hashes      \* those the kernel may come up with

(* A batch is a sequence of rows, a row has a cell of every field; what is *)
(* cleaned is a column, by its name.                                       *)
IsSequence(s) == s \in Seq(ToSet(s))
JobsOfRows ==
    \A j \in Jobs :
        /\ IsSequence(j.fields) /\ IsSequence(j.columns) /\ IsSequence(j.batches)
        /\ j.op # "hash_rows" => j.columns # <<>>
        /\ \A b \in DOMAIN j.batches :
              /\ IsSequence(j.batches[b])
              /\ \A i \in DOMAIN j.batches[b] :
                    IsSequence(j.batches[b][i]) /\ Len(j.batches[b][i]) = Len(j.fields)

(* A column of strings has texts and nulls, and is cleaned by rules.       *)
CellsAreTexts ==
    /\ Null \notin Seq(Characters)
    /\ \A j \in Jobs : j.op # "hash_rows" =>
        /\ j.cleaning # Invalid => j.cleaning \in Seq(Rules)
        /\ \A b \in DOMAIN j.batches : \A i \in DOMAIN j.batches[b] :
               \A c \in DOMAIN j.fields : j.fields[c].type = "string" =>
                   j.batches[b][i][c] \in Seq(Characters) \cup {Null}

HalvesOfHashes ==
    /\ HashWidth \in Nat \ {0}
    /\ 2^(HashWidth - 1) \in Nat \ {0}
    /\ 2^HashWidth = 2 * 2^(HashWidth - 1)
    /\ Hashes \subseteq 0..(2^HashWidth - 1)

ASSUME RowLocalAssumption == JobsOfRows /\ CellsAreTexts /\ HalvesOfHashes

VARIABLES
    job,        \* the call, and the partition it is run on
    hash,       \* the hash of each tuple of cells, as hash_batch has it
    declared,   \* the output schema the driver declares
    next,       \* how many batches are consumed
    yielded,    \* the batches yielded, [fields, rows]
    status      \* "running", "done" or the exception that failed the task

vars == <<job, hash, declared, next, yielded, status>>

Exceptions == {"ValueError", "RuntimeError", "PanicException"}

-----------------------------------------------------------------------------
Named(fields, name) == {k \in 1..Len(fields) : fields[k].name = name}

(* get_field_index: -1 for a name that is not there, or there twice. *)
FieldIndex(fields, name) ==
    IF Cardinality(Named(fields, name)) = 1 THEN CHOOSE k \in Named(fields, name) : TRUE ELSE -1

(* The column pyarrow has at an index: -1 is the last. *)
ColumnAt(fields, name) ==
    IF FieldIndex(fields, name) = -1 THEN Len(fields) ELSE FieldIndex(fields, name)

(* output_column or column *)
Target(j) == IF j.output = Unnamed THEN j.columns[1] ELSE j.output

InPlace(j) == j.op # "hash_rows" /\ Target(j) = j.columns[1]

HashField(j) == [name |-> j.output, type |-> "int64", nullable |-> FALSE]
CleanField(j) == [name |-> Target(j), type |-> "string", nullable |-> TRUE]

(* The hash column of another nullability than Spark was told. *)
OutFieldsNullable(j) ==
    IF j.op = "hash_rows" THEN Append(j.fields, [HashField(j) EXCEPT !.nullable = TRUE])
    ELSE IF InPlace(j) THEN j.fields
    ELSE Append(j.fields, CleanField(j))

(* The fields of every batch, put together on the executor. *)
OutFields(j) ==
    IF j.op = "hash_rows" THEN Append(j.fields, HashField(j))
    ELSE IF InPlace(j) THEN j.fields
    ELSE Append(j.fields, CleanField(j))

(* The schema given to mapInArrow: df.schema, or a copy of it with one     *)
(* field more.                                                             *)
OutSchema(j) ==
    IF InPlace(j) THEN j.fields
    ELSE Append(j.fields, IF j.op = "hash_rows" THEN HashField(j) ELSE CleanField(j))

(* resolve_columns takes the first column of a name. *)
FirstNamed(fields, name) ==
    CHOOSE k \in Named(fields, name) : \A i \in Named(fields, name) : k <= i

HashedCells(j, row) ==
    [k \in 1..Len(j.columns) |-> row[FirstNamed(j.fields, j.columns[k])]]

(* parse_version, parse_cleanup_version: there is one version.  Rules have *)
(* none, and are here as of that one.                                      *)
KnownVersion(j) == j.version = "v1"

Hashable(j) == \A k \in 1..Len(j.columns) : Named(j.fields, j.columns[k]) # {}

Tuples(j) ==
    IF j.op = "hash_rows" /\ Hashable(j)
    THEN UNION {{HashedCells(j, j.batches[b][i]) : i \in 1..Len(j.batches[b])} :
                    b \in 1..Len(j.batches)}
    ELSE {}

(* A conversion that keeps values in range, not bits. *)
Saturated(h) == IF h < 2^(HashWidth - 1) THEN h ELSE 2^(HashWidth - 1) - 1

(* _u64_to_i64: the same bits, read as a signed number. *)
BitsAsSigned(h) == IF h < 2^(HashWidth - 1) THEN h ELSE h - 2^HashWidth

-----------------------------------------------------------------------------
Init ==
    /\ job \in Jobs
    /\ hash \in [Tuples(job) -> Hashes]
    /\ declared = OutSchema(job)
    /\ next = 0
    /\ yielded = <<>>
    /\ status = "running"

More == status = "running" /\ next < Len(job.batches)
batch == job.batches[next + 1]

Yield(rows) ==
    /\ yielded' = Append(yielded, [fields |-> OutFields(job), rows |-> rows])
    /\ next' = next + 1
    /\ UNCHANGED <<job, hash, declared, status>>

Fail(exception) ==
    /\ status' = exception
    /\ UNCHANGED <<job, hash, declared, next, yielded>>

HashRows ==
    /\ More /\ job.op = "hash_rows"
    /\ IF ~ KnownVersion(job) THEN Fail("ValueError")
       ELSE IF ~ Hashable(job) THEN Fail("RuntimeError")
       ELSE Yield([i \in 1..Len(batch) |->
                Append(batch[i], BitsAsSigned(hash[HashedCells(job, batch[i])]))])

(* The preset, or the rules as given: what is wrong with either is found   *)
(* at a batch, first the version, and then the array is taken for one of   *)
(* strings before the preset is looked up or the rules are compiled.       *)
CleanRows ==
    /\ More /\ job.op # "hash_rows"
    /\ LET c == ColumnAt(job.fields, job.columns[1])
           cleaned == ApplyRules(job.cleaning, [i \in 1..Len(batch) |-> batch[i][c]])
       IN  IF ~ KnownVersion(job) THEN Fail("ValueError")
           ELSE IF job.fields[c].type # "string" THEN Fail("PanicException")
           ELSE IF job.cleaning = Invalid THEN Fail("ValueError")
           ELSE IF InPlace(job)
           THEN Yield([i \in 1..Len(cleaned) |-> [batch[i] EXCEPT ![c] = cleaned[i]]])
           ELSE Yield([i \in 1..Len(cleaned) |-> Append(batch[i], cleaned[i])])

Exhausted ==
    /\ status = "running" /\ next = Len(job.batches)
    /\ status' = "done"
    /\ UNCHANGED <<job, hash, declared, next, yielded>>

Ended == status # "running" /\ UNCHANGED vars

Next == HashRows \/ CleanRows \/ Exhausted \/ Ended

Spec == Init /\ [][Next]_vars

-----------------------------------------------------------------------------
TypeOK ==
    /\ \A cells \in DOMAIN hash : hash[cells] \in Hashes
    /\ next \in 0..Len(job.batches)
    /\ Len(yielded) = next
    /\ status \in {"running", "done"} \cup Exceptions

(* Every batch yielded is of the schema the driver has declared, by        *)
(* position, name, type and nullability, and as wide as that: Spark takes  *)
(* the columns of a batch by position and never looks at their names.      *)
DeclaredIsYielded ==
    \A b \in 1..Len(yielded) :
        /\ yielded[b].fields = declared
        /\ \A i \in 1..Len(yielded[b].rows) : Len(yielded[b].rows[i]) = Len(declared)

(* Row by row, what was not cleaned is what it was, in the same order, and *)
(* a row is cleaned by nothing but its own cell: "row-local: correct       *)
(* regardless of how df is partitioned" (spark.py, lines 149 and 150).     *)
Once(j) == \A k \in 1..Len(j.columns) : Cardinality(Named(j.fields, j.columns[k])) = 1
RowsStayInPlace ==
    Once(job) => \A b \in 1..Len(yielded) :
        LET rows == job.batches[b]  out == yielded[b].rows
            source == FieldIndex(job.fields, job.columns[1])
            target == IF InPlace(job) THEN source ELSE Len(declared)
        IN  /\ Len(out) = Len(rows)
            /\ \A i \in 1..Len(rows) :
                /\ \A c \in 1..Len(job.fields) : c # target => out[i][c] = rows[i][c]
                /\ job.op # "hash_rows" => (out[i][target] = Null <=> rows[i][source] = Null)

(* "equality, joins and group-bys on the result behave identically to the  *)
(* original uint64" (spark.py, lines 81 to 84), whatever the top bit, and  *)
(* the number is one of an int64.                                          *)
SignedHashesCompareAlike ==
    job.op = "hash_rows" => \A a, b \in 1..Len(yielded) :
        \A i \in 1..Len(yielded[a].rows), j \in 1..Len(yielded[b].rows) :
            LET x == Last(yielded[a].rows[i])  y == Last(yielded[b].rows[j])
            IN  /\ x \in -(2^(HashWidth - 1))..(2^(HashWidth - 1) - 1)
                /\ (x = y) <=> (hash[HashedCells(job, job.batches[a][i])]
                                    = hash[HashedCells(job, job.batches[b][j])])

(* The cells of the cleaned column, before and after, nulls left out. *)
Cleaned ==
    IF job.op = "hash_rows" \/ ~ Once(job) THEN {}
    ELSE LET source == FieldIndex(job.fields, job.columns[1])
             target == IF InPlace(job) THEN source ELSE Len(declared)
         IN  (UNION {{<<job.batches[b][i][source], yielded[b].rows[i][target]>> :
                         i \in 1..Len(yielded[b].rows)} : b \in 1..Len(yielded)})
             \ {<<Null, Null>>}

(* w is what v has at some places, in their order, and nothing else. *)
Keeps(w, v, places) ==
    /\ Len(w) = Cardinality(places)
    /\ \A k \in places : w[Cardinality({j \in places : j <= k})] = v[k]

PlacesOf(chars, v) == {k \in 1..Len(v) : v[k] \in chars}
Visible(v) == {k \in 1..Len(v) : v[k] \notin Whitespace}
LastOfRuns(v) == {k \in PlacesOf(Whitespace, v) : k < Len(v) => k + 1 \in Visible(v)}

(* The effect of each preset in terms of the values alone, whatever its    *)
(* expression: what is left of a value and what is not (clean.rs, lines    *)
(* 144 to 153).  A trimmed value is its part between its first and last    *)
(* visible characters; a collapsed one has its visible characters, and a   *)
(* space in the place of every run of whitespace; the others keep some     *)
(* characters, all of them, in order.  The one that strips what is not     *)
(* alphanumeric is held to its row only on values whose letters and digits *)
(* are ASCII; LettersSurvive is that row on all values.                    *)
PresetsAsDocumented ==
    \A p \in Cleaned :
        LET v == p[1]  w == p[2]
        IN  /\ job.cleaning = Preset["trim_whitespace"] =>
                  Keeps(w, v, {k \in 1..Len(v) : \E i, j \in Visible(v) : i <= k /\ k <= j})
            /\ job.cleaning = Preset["collapse_whitespace"] =>
                  Keeps(w, [k \in 1..Len(v) |-> IF k \in Visible(v) THEN v[k] ELSE "space"],
                        Visible(v) \cup LastOfRuns(v))
            /\ job.cleaning = Preset["strip_control_characters"] =>
                  Keeps(w, v, PlacesOf(Characters \ ControlCharacters, v))
            /\ /\ job.cleaning = Preset["strip_non_alphanumeric"]
               /\ PlacesOf((Letters \cup Digits) \ AsciiAlphanumeric, v) = {}
               => Keeps(w, v, PlacesOf(Letters \cup Digits \cup Whitespace, v))
            /\ job.cleaning = Preset["digits_only"] => Keeps(w, v, PlacesOf({"digit"}, v))

(* "Removes everything except letters, digits and whitespace" (clean.rs,   *)
(* line 151).                                                              *)
LettersSurvive ==
    \A p \in Cleaned : job.cleaning = Preset["strip_non_alphanumeric"] =>
        Keeps(p[2], p[1], PlacesOf(Letters \cup Digits \cup Whitespace, p[1]))

(* "Applies a named witchhat cleanup preset to column, writing the result  *)
(* to output_column (column itself, in place, by default)" (spark.py,      *)
(* lines 174 and 175): a column of another name is left as it is.          *)
OnlyTheNamedColumnChanges ==
    \A b \in 1..Len(yielded) : \A i \in 1..Len(yielded[b].rows) :
        \A c \in 1..Len(job.fields) :
            (InPlace(job) => job.fields[c].name # job.columns[1]) =>
                yielded[b].rows[i][c] = job.batches[b][i][c]
=============================================================================
