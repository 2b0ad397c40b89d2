# A TLA+ verification of witchhat

witchhat is a data-transformation library for Spark: a Rust core of pure
functions over Arrow record batches (`crates/witchhat-core`), a PyO3 binding
(`crates/witchhat-py/src`), a measured Python wrapper around every function
(`python/witchhat/__init__.py`, `metrics.py`) and the Spark integration that
runs the functions in the tasks of a DataFrame (`spark.py`). These modules say
what the parts that keep state, or that promise an algebraic law, do; TLC checks
them on small instances and TLAPS proves the most important properties for every
value of the constants. Paths below are relative to `src/`.

How to run: `tlc -config MCDedup.cfg MCDedup` for a run, `tlapm DedupProofs.tla`
for a proof. Each `MCx*.cfg` goes with module `MCx`.

## The system

### Components, their state and their interactions

| Component | Source | State | Operations | Called by |
| --- | --- | --- | --- | --- |
| row hashing | `hash.rs` | none; a running hash per row | `hash_batch`, `hash_batch_all_columns`, `table_fingerprint` | dedup, equivalence, Spark `hash_rows`, the dedup stream |
| drop_duplicates kernel | `dedup.rs` | hash -> kept rows, a keep mask | `drop_duplicates` | Python |
| join kernel | `join.rs` | key -> right rows, matched flags, output indices | `join`, `join_null_safe` | Python, `broadcast_join` |
| aggregate kernel | `aggregate.rs` | key -> group, one accumulator per group | `aggregate` | Python, the aggregate stream |
| schema validation | `validate.rs` | the difference being built | `validate_schema` | Python, equivalence |
| output equivalence | `equivalence.rs` | none | `check_equivalence` | Python |
| JSON normalization | `json.rs` | one builder per field, counters | `normalize_json` | Python |
| cleanup rules | `clean.rs` | compiled rules | `clean_with_rules`, presets | Python, Spark |
| schema fingerprint | `schema.rs` | none | `schema_fingerprint` | Python |
| streaming drop_duplicates | `spark.py` `_drop_duplicates_stream` | hash -> key tuples, counters, the suspended generator | pull, judge, yield, raise, close | `spark.drop_duplicates`, in each task |
| Spark drop_duplicates | `spark.py` | partitions, attempts | repartition, `mapInArrow` | the caller's driver |
| streaming aggregate | `spark.py` `_aggregate_stream` | group -> merged accumulator | reduce a batch, merge, finish | `spark.aggregate`, in each task |
| broadcast_join | `spark.py` | the batches of each partition | guard, join a batch | the caller's driver, tasks |
| metrics | `metrics.py` | `_enabled`, `_sink`, shared by all threads | `enable`, `disable`, `is_enabled`, `measure` | every wrapper |
| Python wrappers | `__init__.py` | none | check, measured call | user code, `spark.py` |
| row-local Spark operations, schema helpers | `spark.py` | the batches of each partition | `hash_rows`, `clean_with_preset`, `clean_with_rules` | the caller's driver, tasks |
| bindings | `python.rs`, `lib.rs` | the GIL | argument checks, kernel call, conversion of the result or error | the wrappers |
| CPU features, errors, tools | `cpu.rs`, `error.rs`, `tools/` | none | reports and types | Python |

The driver calls a function of `spark.py`, which sends a Python closure to the
tasks; a task pulls Arrow batches from a generator, calls a kernel of the Rust
core on each through a measured wrapper, and yields the results. The Rust core
shares nothing, so concurrency exists in three places only: threads of one
process share the two globals of `metrics.py`; they share the GIL, which a binding
gives away while its kernel runs, except for two; and the tasks of a Spark job run
in any order, fail, are retried and run twice.

### What is hard here, and what makes each component correct

- **Hash tables over row encodings** (dedup, join, aggregate). Rows whose hashes
  collide must still be told apart, and what counts as equal is decided by three
  different equalities: the xxh3 of canonicalized values, the bytes of arrow's
  `RowConverter`, and Python's `==` on key tuples. A kernel is right if its
  verdict on a row is the definition's, whatever collides.
- **Cuts into batches** (the two streams, broadcast_join). Spark cuts a
  partition into batches, empty ones included, where it likes. A stream is right
  if its answer does not depend on the cut and equals the kernel's on the whole.
- **Suspension** (the dedup stream). Between two batches the generator is parked
  at a `yield` and its consumer may drop it; the memory limit is checked only
  there.
- **Attempts** (Spark drop_duplicates). A partition's closure runs again after a
  failure and twice under speculation; each run must start afresh, and equal keys
  must meet in one partition.
- **Two assignments** (metrics). `enable` sets the sink and then the flag, a
  wrapper reads the flag twice and the sink later, and a sink may raise.
- **The GIL** (bindings). While a kernel runs without it, other threads change what
  the call will find when it is back; a kernel that keeps it stops them all. A
  binding checks its arguments in an order of its own, and the first fault, or a
  panic, decides which exception leaves the call and what its event says.
- **Bounds of numbers** (aggregate). A sum that fits may have partial sums that
  do not; a float sum depends on the order of its addends; the mean of integers
  may exist where their sum does not; a decimal mean is cut towards zero.
- **Verdicts that must compose** (validate, equivalence). "Not breaking" is
  useful only if it survives a chain of releases; "equivalent" only if it is
  about the rows and not about their hashes.
- **Two schemas for one column** (row-local operations). The driver declares the
  output's fields, every batch brings its own, and a column that is not there has
  the index -1, which is a column.
- **Rows that fail** (json). Every path through a row must append one cell to
  every column, or the columns slide against the input.

`PROJECT.json` lists the hazards, each at its line, with the properties that
cover it.

## The modules

| Module | Models | State and actions |
| --- | --- | --- |
| `FirstOccurrence` | what any drop_duplicates promises | a mask of surviving rows is published once |
| `Dedup` | `dedup.rs` `drop_duplicates` | `pc`, `buckets`, `keep`; HashRows, ScanRow, RowOutOfBounds (the panic), Filter |
| `DedupStream` | `_drop_duplicates_stream` | `seen`, `keep`, `out`, the counters; PullEmpty, Pull, ScanRow, RaiseMemoryError, Yield, Resume, Close, Exhausted |
| `SparkDedup` | `spark.drop_duplicates` on a cluster | partitions and attempts; Start, Judge, Fail, Commit, Discard |
| `Float64` | integers and their quotients rounded to floats, as Rust and Python do | operators |
| `AggregateStream` | `_aggregate_stream`, `_aggregate_merge_plan` and the kernel beneath | `partial` (the kernel's accumulators of the batch at hand), `merged`; PullEmpty, Pull, ReduceRow, EndBatch, MergeGroup, BatchMerged, Finish |
| `Aggregate` | `aggregate.rs` `aggregate` | `rows_per_group`, the columns built; ResolveGroupBy, CheckAggregations, GroupAll, NoRowEncoding, GroupRow, TakeKeys, Reduce, FinishBatch, and Fail inside each |
| `Metrics` | `metrics.py` and the wrappers | `enabled`, `sink`, a program counter per call and thread; EnableSink, EnableFlag, Disable, Check, Enter, Return, Raise, Interrupt, CloseStream, ReadSink, Emit, SinkRaises |
| `Bindings` | `python.rs`, under the wrappers of `Metrics` | the GIL, what is wrong with a call, where its native code is; Invoke, KernelEnds, Reacquire, EndBlock |
| `JoinResult` | the rows a join returns, by definition and in the order the docs give | operators |
| `Join` | `join.rs` `join_impl` | `right_map`, output pairs, matched flags; CheckKeys, IndexRow, Indexed, ProbeRow, Probed, SweepRow, Swept |
| `BroadcastJoin` | `spark.broadcast_join` | what each partition has read and yielded; Plan, JoinBatch, JoinEmpty, KernelRaises, Exhausted. The kernel may return any list of rows that is the join of the batch by `JoinResult` |
| `RowHash` | the hash of a cell and of a row | operators |
| `Equivalence` | `check_equivalence`, `schema_fingerprint` | `phase`, the columns compared, the verdicts; Validate (a step of `ValidateSchema`), ChooseColumns, HashBoth, HashFails, CompareRows |
| `SchemaRules` | when data of one type can be read as another | operators |
| `ValidateSchema` | `validate_schema` | `next`, `diff`; MissingField, CompareField, ListUnexpected |
| `NormalizeJson` | `normalize_json` | a column per field, counters; CheckTypes, MalformedRow, ReadObject, OrdinaryNull, AppendValue, Mismatch, RowDone, Finish |
| `Clean` | `apply_rules` and the presets | operators |
| `RowLocal` | `hash_rows`, `clean_with_preset`, `clean_with_rules` of `spark.py` | the batches consumed and yielded; HashRows, CleanRows, Exhausted |
| `FoldLemmas` | no code: what the proofs need of numbers, folds, flattened sequences and ranks | lemmas |

How they fit together: `Dedup` and `DedupStream` both implement
`FirstOccurrence` under a refinement mapping (the mask is published when the
kernel filters, or when the stream has returned). `SparkDedup` composes the stream
over partitions and attempts and uses its one-row verdict as a step. `Join` and
`BroadcastJoin` share `JoinResult`: the kernel is shown to return it, and the
driver's streams are built from it. `Bindings` extends `Metrics`: every step of a
wrapper is a step of `Metrics` taken with the GIL, and its own steps leave the
variables of `Metrics` alone, so `Bindings` implements `Metrics`. `Equivalence`
extends `ValidateSchema` in the same way: a call of `check_equivalence` takes the
steps of `validate_schema` until the difference is there, and uses `RowHash`
afterwards. `RowLocal` extends `Clean`. `AggregateStream` holds
both the kernel over integers, at the grain of a row, and the merge, at the grain
of a group; `Aggregate` is the kernel alone, with all its checks and types. Both extend `Float64`,
for the means.
A proof module extends TLAPS and the component it is named for, and some a second one:
`JoinProofs` also `BroadcastJoin`, `BindingsProofs` `Metrics`, `EquivalenceProofs`
`ValidateSchema`, `AggregateProofs` `AggregateStream` and `Aggregate`, `RowLocalProofs`
`NormalizeJson`, `DedupProofs` `SparkDedup`. The aggregate, equivalence and row-local
proofs extend `FoldLemmas` as well. Modules extended together may not define a name
twice, which is why the names of some carry a prefix (`KernelInit`, `JsonNext`,
`BroadcastSpec`). Each
`MCX` gives `X` its constants.
Operators named for something the code does not do (`FilterEarly`, `InvokeHolding`)
are plausible wrong versions of the definition after them; no specification uses
them, and `PROJECT.json` names the property each would violate.

What is abstracted, everywhere: a row is a model value or a small record that
stands for its encoding; a hash is a member of a small set and a CONSTANT
function gives the collisions; a batch is a sequence of rows; an Arrow type is a
name. In `Aggregate` a float is its rank in the total order and a float sum is the
sequence of its addends; a mean of integers is counted in sixteenths and rounded to
the bits a float has, the sum before the division where the code does so (`Float64`);
in `Clean` a value is a sequence of classes of characters
and a regular expression a set of classes with a shape (each, runs, or runs at the
two ends). The text of messages, and the durations and the `row_count` in events,
are left out.

## The runs

All runs check for deadlock; a component that has returned loops in a final
action, so a deadlock is a state the code has no way on from.

| Run | Configuration | Bounds, and why they are enough |
| --- | --- | --- |
| `dedup_kernel` | `MCDedup.cfg` | up to 4 rows out of 6 float-like values with 3 hashes: two zeros and two NaNs that share a hash after canonicalization but not their bytes, and two values that merely collide; column lists that are empty, absent from the batch or of an unsupported type. Four rows fill a bucket with both its values and look each up again |
| `dedup_stream` | `MCDedupStream.cfg` | 4 rows, 2 non-empty batches and empty ones between, limits none, 1 and 2. A key can recur in the same and in the next batch, the limit can be hit in the first and in the second |
| `spark_dedup` | `MCSparkDedup.cfg` | 2 partitions, 2 concurrent attempts each, up to 3 rows, and a job that is given up at the second failure of a partition. A failed attempt can be followed by a good one, a speculative one can finish first or be discarded. Rows of a partition are read in any order, so tables that differ in order only are represented by the sorted one |
| `aggregate_stream` | `MCAggregateStream.cfg` | Int64 cut to 4 bits (-8..7), cells -7, 1, 7 and null, 2 groups, 4 rows in at most 3 batches, floats of three bits (`F64Exact = 8`). Two cells overflow, a third brings the sum back in range; 7, 1 and 1 have a sum that no such float holds |
| `aggregate_kernel` | `MCAggregate.cfg` | batches of up to 4 rows, integers and decimals of four bits (-8..7, or 0..15), floats with two bits of mantissa and one hidden; signed, unsigned, float, decimal, Null and map columns with cells at the edges of their ranges; nine calls, among them an unknown column, a column that cannot be summed and one that cannot be grouped by. Two rows of a group overflow, a third brings the sum back, and a fourth makes the other group |
| `measured_call` | `MCBindings.cfg` | one call of one of six bindings, which between them have every order of checks, either treatment of the GIL and every exception; one stream that invokes a binding batch after batch; one thread that enables with a good or a raising sink and disables at any time; nine sets of faults, pairs of them where the order of the checks decides. One call and one stream suffice for a step of either between any two of the other's |
| `join_kernel` | `MCJoin.cfg` | sides of up to 3 rows over 4 keys of two columns, with a null in none, one or both; all join types, SQL and null-safe; key lists that are empty, of different length, of different type or name an absent column |
| `broadcast_join` | `MCBroadcastJoin.cfg` | 2 partitions of up to 2 rows, cut in every way with at most one empty batch, a small side of up to 2 |
| `equivalence` | `MCEquivalence.cfg` | every pair of single cells of 9 kinds, chosen among those most easily confused; tables of up to 2 rows and 2 columns, with the columns in either order and a name used twice; two text columns whose bytes could run into each other; calls that name their columns; and pairs of schemas of up to 2 fields over 2 names, three signed widths and an unsigned one, duplicate names included; in both modes, with widening and without. The rules of validation are per field, so two fields show order, absence and repetition, and three widths a chain of widenings |
| `null_hashes` | `MCEquivalence_nulls.cfg` | the same calls |
| `normalize_json` | `MCNormalizeJson.cfg` | up to 3 texts out of 13 (malformed, no object, path absent, a null, each JSON type at the path, integers outside Int64's range, values one level down) against 13 schemas of up to 2 fields, two fields on one path among them |
| `row_local` | `MCRowLocal.cfg` | every value of up to four characters out of eight classes through each preset; each operation over partitions of up to 2 batches of up to 2 rows, two columns, names that are absent, doubled or taken, hashes of 3 bits on both sides of the sign. Four characters hold a run at either end and one between |

What each shows:

- `dedup_kernel`: `VerdictsAreExact` (a row survives exactly if no earlier one
  has its bytes), `BucketsIndexKeptRows` (the buckets list the survivors of their
  hash, each once), and that the kernel implements `FirstOccurrence`.
- `dedup_stream`: `VerdictsSpanBatches`, `YieldedHashesWithinLimit` (no batch is
  yielded once the limit on hashes is passed), `StatsDescribeStream` (the
  counters are right at every yield, for early closes as well) and the refinement.
- `spark_dedup`: `AtMostOnePerKey` and `EveryKeySurvives` over what is committed.
- `aggregate_stream`: `MergedSoFar`, `ReturnsKernelResult` (groups, sums, counts,
  minima, maxima and means are those of one kernel call; the kernel makes a sum a float
  before it divides, `aggregate.rs:362`, and Python divides integers, `spark.py:479`, so
  the mean of a sum that no float holds may differ, and is then the exact mean rounded
  once) and
  `OverflowIsNeverHidden` (a sum the kernel refuses is never returned).
- `aggregate_kernel`: `GroupedSoFar` (after every row, groups are in first-seen
  order and every row scanned is in the group of its key), `OverflowIsExact` (a call
  fails with an overflow exactly if some requested sum, or decimal sum beneath a
  mean, cannot be represented, whatever its partial sums), `CellsAreExact` (every
  cell is what the documentation promises of the rows of its group).
- `measured_call`: `OneEventPerMeasuredCall`, `SilentWhileDisabled`,
  `EventTellsOutcome` of `Metrics`, now with native code between its steps;
  `ExceptionNamesFault` (which exception leaves a call with several faults),
  `EventTellsException` (the event says error exactly for the documented exceptions; a
  panic is not its subject, but that of `PanicIsRecorded` below), and
  `KernelsBlockNobody` (a call whose kernel has ended gets to its end, however long
  kernels of other calls run).
- `join_kernel`: `OutputIsJoin` (rows and their order).
- `broadcast_join`: `StreamedJoin` per partition, `DataFrameJoined` for the union.
- `equivalence`: of the difference, `BreakingIsExact` against the meaning of
  reading data, `EvolutionComposes`, `EmptyMeansSameColumns` (an
  empty one means the same columns and no unforeseen nulls, and the reverse),
  `ReportsEveryFault`;
  of the fingerprint of a schema, `FingerprintNoticesChange` (a change of order, type or
  nullability shows although the fields are hashed without separators, as long as no
  name or type contains the byte of a flag, and the names stay where they are or no two
  fields of different names read alike); of the
  verdict, `ExactIsProof`, `EquivalentIsReadable`, `FastTellsValuesApart`,
  `HashesTellRowsApart`.
- `null_hashes`: the violation described below.
- `normalize_json`: `ColumnsAligned`, `StatsExplainNulls`.
- `row_local`: `DeclaredIsYielded` (every batch has the fields the driver declared,
  in place or appended), `RowsStayInPlace`, `SignedHashesCompareAlike` (two's
  complement keeps hashes apart beyond 2^63), `PresetsAsDocumented` (each preset
  against its row of the table in `clean.rs:147-153`, `strip_non_alphanumeric` on values
  whose letters and digits are ASCII: on others it violates `LettersSurvive` below).

`TypeOK` says the same in every module: which values each variable may hold. Those of
the components, but for `Aggregate`, are theorems below, so no run repeats them; any
can be added to the `INVARIANTS` of a configuration.

### Fairness

`Bindings` has weak fairness of the steps of a call that has come back from its
kernel: `Reacquire`, `EndBlock`, `ReadSink` and the delivery of the event. The
operating system runs a thread that can run, and CPython hands the GIL to a
thread that waits for it. A kernel over row data may take forever; `KernelEnds` is fair
only for `schema_fingerprint` and `validate_schema`, which walk over the fields of
a schema while they hold the GIL. Nothing makes a user call, enable or disable.

The other components are called by code that may stop at any moment, and whether a
Spark job ends is its scheduler's business, so their properties are of safety.

## Where the code and its documentation differ

One configuration violates a property that the documentation states, and is a run of
the project: `null_hashes`, `NullsHashApart`. `hash.rs:140` hashes a null as the
type and the byte 0, and so are `false`, an `Int8` 0 and the string of one zero
byte. `hash.rs:363-365` says a null hashes distinctly from every other value.

The modules state these as well. A configuration with a suffix (`MCJoin_nulls.cfg`) checks the
property as it is; for one that is a run's, put the property in place of the
`INVARIANTS` and leave out `PROPERTY` or `PROPERTIES`. TLC finds each violated:

| Property | Configuration | The code | The documentation |
| --- | --- | --- | --- |
| `NeverPanics` | `MCDedup.cfg` | `dedup.rs:101` indexes row 0 of a converter without columns when no column is asked for | `dedup.rs:50` "Does not panic." |
| `CanonicalDuplicatesDropped` | `MCDedup.cfg` | `dedup.rs:103` compares bytes, which keep `0.0` and `-0.0` apart | `dedup.rs:33-35`: the comparison inherits the float canonicalization of the hash |
| `AgreesWithKernel` | `MCDedupStream.cfg` | `spark.py:264` compares key tuples with `==` | `spark.py:289`: "`witchhat.drop_duplicates` applied per partition, streaming" |
| `KeysWithinLimit` | `MCDedupStream.cfg` | `spark.py:270` counts hashes; NaN keys pile up under one | `spark.py:306-308`: the distinct-key count never exceeds the limit |
| `FailsOnlyWithKernel` | `MCAggregateStream_sum.cfg` | `spark.py:437`: the sum of each batch must fit Int64, not only the total | `spark.py:390-391` "the same maths `witchhat.aggregate` itself uses in one shot" |
| `FailsOnlyWithKernel` | `MCAggregateStream_mean.cfg` | `spark.py:403` asks for a mean as a sum, which must fit; the kernel's mean need not | the same |
| `MeansAreTheKernels` | `MCAggregateStream_rounding.cfg` | `aggregate.rs:362` rounds the sum to a float and then the quotient, `spark.py:479` divides integers and rounds once; with floats of three bits the values 7, 1 and 1 have the mean 3 in the stream and 2.5 in the kernel, as sums beyond 2^53 may with real ones | the same |
| `OneRowPerGroup` | `MCAggregateStream_keys.cfg` | `spark.py:444` merges groups in a dict under Python's equality: `0.0` and `-0.0`, two groups of the kernel, become one, and a NaN group becomes one row per batch | `spark.py:515-516`: the per-partition aggregate of a key is the true one |
| `CountsNonNull` | `MCAggregate_nulls.cfg` | `aggregate.rs:537` asks a column's null buffer, which a column of the Null type does not have | `aggregate.rs:50` "Non-null values in the group. Works on any column type." |
| `EveryKernelReleasesGil` | `MCBindings.cfg` | `python.rs:135-138` and `python.rs:245`: `schema_fingerprint` and `validate_schema` run with the GIL held | `docs/architecture.md:636-637` "releases the GIL for the duration of every kernel call" |
| `PanicIsRecorded` | `MCBindings.cfg` | `metrics.py:136` catches `Exception`, and pyo3's `PanicException` is a `BaseException` | `metrics.py:119-120` "An exception raised inside the block is recorded" |
| `OnlyObserves` | `MCBindings.cfg` | `metrics.py:148` calls the sink in a `finally`, and its exception replaces the call's result | `metrics.py:122-123` "only ever observes" |
| `SuccessCarriesCounters` | `MCBindings.cfg` | a stream closed early reports success without its counters (`spark.py:328`) | `spark.py:309-311`: one event per partition with the counters |
| `NullNeverMatches` | `MCJoin_nulls.cfg` | `join.rs:86` asks a column's own null buffer, which does not know the nulls of a Null column or of a dictionary's values | `join.rs:96-97` "never matches another row" |
| `OutputNamesDistinct` | `MCJoin_names.cfg` | `join.rs:327` does not look the suffixed name up again | `docs/architecture.md:506-508`: the suffix avoids "a schema with a duplicate field name" |
| `LastFieldWins` | `MCEquivalence.cfg` | `validate.rs:172` judges every expected field, also one that another of its name follows | `validate.rs:137-139` "the last field with a given name wins" |
| `ExactProvesRowSets` | `MCEquivalence.cfg` | `equivalence.rs:107` resolves columns by name to the first of that name | `equivalence.rs:174-177` "a real proof of row-set equality" |
| `FingerprintTellsNames` | `MCEquivalence.cfg` | `schema.rs:39` hashes names and types without separators: a `UInt8` column `a` and an `Int8` column `aU` are fed the same bytes, so that even exchanging the two leaves the fingerprint as it was (`schema.rs:19-21`: "changing the field order ... changes the result") | `schema.rs:13` "Hashes a schema's shape: field names in order, their types, and their nullability." |
| `LettersSurvive` | `MCRowLocal.cfg` | `clean.rs:175` keeps `A-Za-z0-9` and white space, and removes other letters and digits | `clean.rs:151` "Removes everything except letters, digits and whitespace" |
| `OnlyTheNamedColumnChanges` | `MCRowLocal.cfg` | `spark.py:189-193`: a column that is absent, or there twice, has the index -1, and the last column is cleaned | `spark.py:174-175`: the result goes to the column named |
| `MalformedRowFailsNoBatch` | `MCNormalizeJson.cfg` | `json.rs:286`: a malformed row is a null in a non-nullable column, which is refused | `json.rs:52` "a malformed row does not fail the whole batch" |

## What is proved

TLAPS proves, for every value of the constants that meets the named assumptions:

| Theorem | Statement | Assumptions |
| --- | --- | --- |
| `DedupProofs!ExactVerdicts`, `ExactIndex`, `DedupTypeOK`, `Refinement` | the kernel's verdicts and index are exact for every hash function, and it implements `FirstOccurrence` | `DedupAssumption`: every row has a hash |
| `DedupStreamProofs!VerdictsAcrossBatches`, `HashesWithinLimit`, `CountersAreExact`, `StreamTypeOK`, `Refinement` | the stream keeps the first occurrences of a partition however it is cut, yields no more hashes than the limit, counts what it has yielded, and implements `FirstOccurrence` | `StreamAssumption`; `PyEqualAssumption`: `==` is symmetric and transitive and equal keys hash alike; it is not taken to be reflexive, for NaN's sake |
| `AggregateProofs!NothingLostBetweenBatches`, `StreamEqualsKernel`, `OverflowReported`, `AggregateTypeOK` | for every cut into batches and every set of functions the merged state is the reduction of all rows, the groups and cells returned are the kernel's, save that the mean of a sum no float holds is the exact mean rounded once, and no overflow is hidden | `AggregateAssumption`; `Float64Assumption`: some integers are floats; `PlainKeys`: Python's equality on group keys is the kernel's |
| `AggregateProofs!RowsAreGrouped` | after every row of a batch of the kernel, whatever its length and types, each row so far is in the one group of its key, the rows of a group and the groups in the order they were seen | `AggregateKernelAssumption`: a batch has a cell of the column's type in every row, a call lists columns and functions, the number types hold integers, 0 among them |
| `AggregateProofs!OverflowExact`, `ExactCells` | for any batch, call and widths of the numbers: a call fails with an overflow exactly if some sum or mean it asks for cannot be said, and every cell returned is the count, least, greatest, total or mean of the set of non-null rows of its group | the same and `Float64Assumption` |
| `JoinProofs!ResultIsJoin`, `NullsUnmatched`, `JoinTypeOK` | the kernel returns the join, each row of it once and in the documented order, for any two sides; under SQL's rule no null key is matched | `JoinAssumption`; `NullsAreMarked`: the null buffers tell which keys are null (that they may not is the row `NullNeverMatches` above). `JoinTypeOK` does without |
| `JoinProofs!BatchesAddUp`, `DataFrameIsJoined`, `BroadcastTypesKept` | however the partitions are cut into batches, each yields the join of what it has read, and all of them together one join of the DataFrame | `BroadcastAssumption`: what a table is; the kernel taken at its word |
| `JoinProofs!KernelKeepsItsWord` | the kernel's word: what `Join` returns is one of the results `BroadcastJoin` lets its kernel return | those of `ResultIsJoin` |
| `RowLocalProofs!YieldedAsDeclared`, `NothingElseMoves`, `SignedHashes`, `RowLocalTypeOK` | whatever the cut, the hash function and the rules: batches have the declared fields, only the output column differs from the input, and signed hashes are equal exactly if the hashes are | `RowLocalAssumption`: what a job is, that a cell of a string column is a text or null, that null is no text, and that a hash is below twice its half |
| `RowLocalProofs!PresetsKeepTheirWord` | for texts of any length: a preset leaves the characters the table of presets says, in their order and no others; for `strip_non_alphanumeric`, of texts without letters or digits outside ASCII | the same |
| `RowLocalProofs!ColumnsStayAligned`, `NoNullIsSilent`, `JsonTypesKept` | for any schema and any texts each column has a cell per row read, which depends on that row alone, and the counters account for the nulls | `JsonAssumption`: a schema is a sequence of fields |
| `DedupProofs!OnePerKey`, `NoKeyLost`, `ClusterTypeOK` | whatever attempts fail, are retried or run twice, what is committed holds each key once and, in the end, all of them | `SparkDedupAssumption`: `==` is symmetric and Spark's hash sends equal keys to one partition |
| `BindingsProofs!NoEventLost`, `NothingWhileDisabled`, `FaithfulEvents`, `MetricsTypeOK` | for any number of calls, streams, threads and sinks: an event per measured call that ended, none while metrics are off, and, unless the sink raised, an error in it exactly if the block raised an `Exception` (a panic, an interrupt and an early close leave it at ok) | `MetricsAssumption`: the "no sink" value is no sink |
| `BindingsProofs!NativeImplementsMetrics`, `NoEventLostInKernels`, `ExceptionsAreExact`, `EventsAreExact`, `BindingsTypeOK` | a call of a binding is a measured call of `Metrics`, whatever runs while its kernel has given the GIL away; its exception tells what was wrong, and so does its event if it did not panic | `MetricsAssumption`; `BindingsAssumption`: what a binding may check and raise |
| `EquivalenceProofs!BreakingExact`, `EvolutionSteps`, `FaultsReported`, `EmptyDiffExact`, `SchemaTypeOK` | for schemas of any length; `EmptyDiffExact` with types compared strictly and distinct names | `SchemasAreSequences` |
| `EquivalenceProofs!CallsValidate`, `CallBreakingExact`, `CallFaultsReported`, `EquivalenceReadable`, `CallTypesKept` | a call of `check_equivalence` validates as `validate_schema` does, and what it calls equivalent can be read as expected, whatever the hashes and the mode | `SchemasAreSequences`; for the last what a call is, `CallsOfBatches` |
| `EquivalenceProofs!HashesAreFaithful` | whatever the batches and the columns, rows of equal values hash alike, and rows without nulls that hash alike have the same values of the same types | `EquivalenceAssumption`: a batch has a cell of the column's type for every row, a cell is the bytes of its width or a text of any length, and a null is none of them |
| `EquivalenceProofs!FastIsExactOnValues`, `ExactModeProves` | for batches of any size: equivalent ones in the fast mode without nulls hold the same bag of rows; in the exact mode equivalence is the same schema, the same types and the same bag of rows | the same |
| `EquivalenceProofs!FingerprintsNoticeChange` | for schemas of any length, under the conditions given with the runs: equal fingerprints are equal schemas | the same: different names and types have different texts |

The invariants that carry the proofs:

- *Dedup*: `BucketsIndexKeptRows` mentions the verdicts, so it cannot be preserved
  without them. The invariant uses `BucketsIndexScannedRows` instead (a bucket lists,
  without repetition, exactly the scanned rows of its hash) and `NoRowIsLost` (every
  scanned row was kept at its place or before). Equal rows hash alike, so a row's
  equal, if there is one, is in the bucket it is looked up in.
- *DedupStream*: `IndexIsSound` and `IndexIsComplete` say the same of `seen`,
  across batches, for a relation that need not be reflexive. `BetweenBatches` says
  that at a pull nothing of the last batch is pending. Transitivity is what turns
  "no kept row equals it" into "no earlier row equals it". For the counters,
  `BucketsByHash` adds that a bucket holds keys of its own hash, so that the dict
  has an entry for exactly the hashes of the rows scanned.
- *SparkDedup*: `TaskInv` says of every running task, by itself, that what it has
  kept is distinct and covers what it has read, and that its index is the keys it
  has kept; a step of one task leaves all others as they were. `CommitInv` is what
  is left of it when the task has read its partition to the end. With rows placed
  by their keys, two committed rows of one key would be of one partition.
- *AggregateStream*: `Merge` is associative and has `Empty` as its unit (lemmas
  `MergeAssoc`, `MergeEmpty`), and adding a cell is merging a single one
  (`AddIsMerge`); so `merged` with the groups still pending is the reduction of all
  rows so far, through every step of the merge. Where a sum is a float, making it one
  changes nothing (`SameCells`), so either way of dividing gives one mean.
- *Metrics*: `SinkBeforeFlag` (metrics are never enabled without a sink, because
  `enable` sets the sink first) and one invariant per call that ties its program
  counter to the events delivered.
- *Bindings*: `NativeImplementsMetrics` hands over every invariant of `Metrics`. On
  top, `NInv` says where the native code of a call can be while its block runs, what
  each verdict says of the faults of the call, and that the block of a call ends as
  its binding did.
- *ValidateSchema*: `JudgedSoFar` says that after `next` fields the three lists
  hold exactly the faults of those fields. `EvolutionComposes` then follows from
  the transitivity of widening and the last occurrence of a name. `ListedSoFar`
  gives the lists themselves, as sets of names, for the two properties about them.
- *Equivalence*: `ValidatedFirst` says that the difference is complete before a row
  is looked at; what is said of schemas is inherited from `ValidateSchema`. For the rows,
  `CallInv` says which columns are compared and what the verdicts are by each phase. A cell
  is hashed as a tag, parameters and a value, and a type either has values of one width
  or no parameters, so equal bytes are cut in the same places (`HashTells`). Bags are equal
  exactly if their positions can be paired off (`BagsMatch`, `MatchingBags`), so what is
  made alike of equal rows, a hash or an encoding, is there equally often (`ImagesOfBags`).
  For the fingerprint, what is hashed of a schema is field by field a text and a flag
  (`Blocks`). No text contains a flag, so the first flag ends the first field, and two
  equal keys are read back alike to their end (`KeysTell`).
- *Join*: `IndexInv` (the index lists the usable right rows of every encoding, in their
  order) makes what a probe appends the matches of one left row; `MatchedInv` says
  that the flags are the right rows with a match among the left rows probed; `OutputInv`
  that the output lists what the rows dealt with so far make of the join.
- *BroadcastJoin*: a join that keeps left rows at most is made row by row of the left
  side, so the joins of two batches, one after the other, are the join of both.
- *Aggregate*: no group is empty, no scanned row without a group, and the groups stand
  in the order of their first rows, so the row at hand is a new group's first or the
  last of the one group it belongs to. `ReduceInv` adds what has been built: the columns
  of the keys, then a column per aggregation done, computed of every group and without
  an overflow (`Reduces`). What a cell is follows from a lemma about the kernel's fold:
  after the first rows of a group the accumulator equals the total over that *set* of
  rows (`Reduced`), by an induction over its rows; a decimal has overflowed exactly if one of
  these totals left the mantissa, an integer is looked at only in the end.
- *NormalizeJson*: the cells appended for the row at hand are those of the fields before
  the one at hand, and a null of a column comes from one of three disjoint kinds of rows:
  malformed, without a value at the path, or with one of another type.
- *RowLocal*: each yielded batch is what the job makes of the batch of that number. Under
  it, a rule leaves one character or none of each place of a text, so the result has the
  characters of the places kept, at their ranks (`AtRanks`); as many runs of blanks have begun
  as have ended, give or take the one at hand (`RunsBeginAndEnd`), so keeping where runs
  begin and keeping where they end come to the same text.

Only model-checked:

- the liveness property `KernelsBlockNobody`: liveness is out of the prover's reach;
- the type invariant `KernelTypeOK` of `Aggregate`, which holds when it is added to the
  run; that a count fits Int64 needs a bound on the length of a batch.

Every invariant of a run that holds is the statement of one of the theorems.

A theorem that takes an operator as its parameter cannot be used with the provers at
hand, and the library states induction so. `FoldLemmas` states what is needed of it for
sets and functions: a set of numbers has a least (`Least`), one that has 0 and with
each number the next has them all (`SetInduction`), and a fold over a sequence is
the function that goes on by one element at a time (`PrefixFolding`). Elsewhere the
proofs carry the prefix dealt with in the invariant.

## What is not modelled

- The digits of decimals and floats. `Aggregate` has decimal sums that overflow and
  decimal means that are cut, over small mantissas, and float sums as sequences of
  addends; what IEEE addition and 256-bit mantissas make of them, and the
  precision a decimal column declares, is left out. The floats of `Float64` have a few bits
  of mantissa and no exponents below a sixteenth: means that are smaller, and sums beyond
  `WidestUlp`, are outside the bounds of the runs. `AggregateStream` is over integers, so the
  merge of `Decimal` partial results (28 digits, half-even) and of float minima across
  batches is not covered, nor are aliases that collide in the merge plan.
- Accidental collisions of 64-bit hashes in `RowHash` and `Equivalence`: hashes
  there are the data fed to them, so that what collides is a fault of the encoding.
  `Dedup` and `DedupStream` do have collisions.
- The narrowing of row indices to `u32` in `join.rs` and `aggregate.rs`: a batch of
  2^32 rows does not fit the models' bounds.
- Regular expressions other than those of the presets: `Clean` has their three
  shapes, and rules of a caller's own are sequences of such.
- `collect_as_record_batch`, which is one conversion of a collected table; the
  conversion of results to Python objects in the bindings; the CPU report, the error
  type, tools and CI. `rows_in` and `rows_out` of events are left out with them.
- `spark.aggregate` without repartitioning promises nothing across partitions. Of
  `drop_duplicates` without it, `AtMostOnePerKey` speaks of DataFrames whose equal rows
  are in one partition already, as the docstring asks.
