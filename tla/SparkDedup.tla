----------------------------- MODULE SparkDedup -----------------------------
(***************************************************************************)
(* drop_duplicates over a whole DataFrame (python/witchhat/spark.py):      *)
(* repartition(columns) places the rows, then every partition is filtered  *)
(* by tasks that know nothing of each other.  Spark may run a partition    *)
(* more than once, after a failure or speculatively, and commits one       *)
(* attempt of each; a shuffled partition may arrive in another order every *)
(* time.  Shuffle, scheduling and commit are Spark's; what the code adds   *)
(* is where the index lives and what is repartitioned.                     *)
(*                                                                         *)
(* Within an attempt rows are judged one at a time, in any order, since a  *)
(* shuffle may deliver them in any; DedupStream is the detailed account    *)
(* of how a task judges them batch by batch.                               *)
(***************************************************************************)
EXTENDS Integers, Sequences, FiniteSets

CONSTANTS
    Row,            \* rows, told apart by the bytes of the key columns
    PyEqual,        \* the pairs of rows whose keys are equal
    Tables,         \* the DataFrames considered, sequences of rows
    Partition,
    Route,          \* Route[r]: the partition Spark's hash assigns to row r
    Attempt,        \* attempts Spark may have of one partition at a time
    MaxFailures     \* bound: failures Spark tolerates per partition

ASSUME SparkDedupAssumption ==
    /\ Tables \subseteq Seq(Row)
    /\ Route \in [Row -> Partition]
    /\ \A a, b \in Row : <<a, b>> \in PyEqual =>
          <<b, a>> \in PyEqual /\ Route[a] = Route[b]
    /\ MaxFailures \in Nat

VARIABLES
    table,          \* the rows of the DataFrame; a position identifies a row
    repartition,    \* the caller's flag
    place,          \* position -> partition, once the shuffle is done
    left,           \* [partition, attempt] -> positions still to be read
    seen,           \* [partition, attempt] -> the keys in the task's index
    kept,           \* [partition, attempt] -> positions the task has yielded
    status,         \* [partition, attempt] -> "idle", "running" or "done"
    failures,       \* partition -> failed attempts
    committed       \* partition -> positions committed, or NotCommitted

vars == <<table, repartition, place, left, seen, kept, status, failures, committed>>

NotCommitted == {0}     \* no position is 0

Tasks == Partition \X Attempt
Positions == 1..Len(table)
RowsOf(p) == {i \in Positions : place[i] = p}
Equal(i, j) == <<table[i], table[j]>> \in PyEqual

TypeOK ==
    /\ table \in Tables
    /\ repartition \in BOOLEAN
    /\ place \in [Positions -> Partition]
    /\ left \in [Tasks -> SUBSET Positions]
    /\ seen \in [Tasks -> SUBSET Row]
    /\ kept \in [Tasks -> SUBSET Positions]
    /\ status \in [Tasks -> {"idle", "running", "done"}]
    /\ failures \in [Partition -> 0..MaxFailures]
    /\ committed \in [Partition -> (SUBSET Positions) \cup {NotCommitted}]

-----------------------------------------------------------------------------
(* Nothing is repartitioned, whatever the caller asked for. *)
Unplaced(t, flag) == [1..Len(t) -> Partition]

(* df.repartition on the key columns if asked for; else the rows are where *)
(* the DataFrame happens to hold them.                                     *)
Placements(t, flag) ==
    IF flag THEN {[i \in 1..Len(t) |-> Route[t[i]]]} ELSE [1..Len(t) -> Partition]

Init ==
    /\ table \in Tables
    /\ repartition \in BOOLEAN
    /\ place \in Placements(table, repartition)
    /\ left = [t \in Tasks |-> {}]
    /\ seen = [t \in Tasks |-> {}]
    /\ kept = [t \in Tasks |-> {}]
    /\ status = [t \in Tasks |-> "idle"]
    /\ failures = [p \in Partition |-> 0]
    /\ committed = [p \in Partition |-> NotCommitted]

(* The index lives in the worker process from one attempt to the next. *)
StartReusing(p, a) ==
    /\ status[<<p, a>>] = "idle"
    /\ committed[p] = NotCommitted
    /\ failures[p] < MaxFailures
    /\ left' = [left EXCEPT ![<<p, a>>] = RowsOf(p)]
    /\ kept' = [kept EXCEPT ![<<p, a>>] = {}]
    /\ status' = [status EXCEPT ![<<p, a>>] = "running"]
    /\ UNCHANGED <<table, repartition, place, seen, failures, committed>>

(* Spark calls process() anew for each attempt, with a fresh index. *)
Start(p, a) ==
    /\ status[<<p, a>>] = "idle"
    /\ committed[p] = NotCommitted
    /\ failures[p] < MaxFailures
    /\ left' = [left EXCEPT ![<<p, a>>] = RowsOf(p)]
    /\ seen' = [seen EXCEPT ![<<p, a>>] = {}]
    /\ kept' = [kept EXCEPT ![<<p, a>>] = {}]
    /\ status' = [status EXCEPT ![<<p, a>>] = "running"]
    /\ UNCHANGED <<table, repartition, place, failures, committed>>

(* One more row of the partition is judged against the task's index. *)
Judge(p, a) ==
    /\ status[<<p, a>>] = "running"
    /\ \E i \in left[<<p, a>>] :
         /\ left' = [left EXCEPT ![<<p, a>>] = @ \ {i}]
         /\ IF \E r \in seen[<<p, a>>] : <<r, table[i]>> \in PyEqual
            THEN UNCHANGED <<seen, kept>>
            ELSE /\ seen' = [seen EXCEPT ![<<p, a>>] = @ \cup {table[i]}]
                 /\ kept' = [kept EXCEPT ![<<p, a>>] = @ \cup {i}]
    /\ UNCHANGED <<table, repartition, place, status, failures, committed>>

(* The task is over, whatever it held is gone with it. *)
End(p, a, s) ==
    /\ status' = [status EXCEPT ![<<p, a>>] = s]
    /\ left' = [left EXCEPT ![<<p, a>>] = {}]
    /\ kept' = [kept EXCEPT ![<<p, a>>] = {}]
    /\ UNCHANGED <<table, repartition, place, seen>>

(* The executor is lost or the task raises: its output is thrown away. *)
Fail(p, a) ==
    /\ status[<<p, a>>] = "running"
    /\ failures[p] < MaxFailures
    /\ failures' = [failures EXCEPT ![p] = @ + 1]
    /\ End(p, a, "idle")
    /\ UNCHANGED committed

(* The first attempt to read its partition to the end commits it. *)
Commit(p, a) ==
    /\ status[<<p, a>>] = "running"
    /\ left[<<p, a>>] = {}
    /\ committed[p] = NotCommitted
    /\ committed' = [committed EXCEPT ![p] = kept[<<p, a>>]]
    /\ End(p, a, "done")
    /\ UNCHANGED failures

(* A later attempt of a committed partition is killed and its output lost. *)
Discard(p, a) ==
    /\ status[<<p, a>>] = "running"
    /\ committed[p] # NotCommitted
    /\ End(p, a, "done")
    /\ UNCHANGED <<failures, committed>>

JobFailed == \E p \in Partition : committed[p] = NotCommitted /\ failures[p] = MaxFailures
JobDone == \A p \in Partition : committed[p] # NotCommitted

Ended == (JobFailed \/ JobDone) /\ UNCHANGED vars

Next ==
    \/ \E p \in Partition, a \in Attempt :
          Start(p, a) \/ Judge(p, a) \/ Fail(p, a) \/ Commit(p, a) \/ Discard(p, a)
    \/ Ended

Spec == Init /\ [][Next]_vars

-----------------------------------------------------------------------------
Output == UNION {committed[p] : p \in {q \in Partition : committed[q] # NotCommitted}}

(* Equal rows are in one partition: the precondition the docstring sets for *)
(* repartition=False (spark.py, lines 294 to 301).                          *)
Colocated == \A i, j \in Positions : Equal(i, j) => place[i] = place[j]

(* At no time does the DataFrame's output hold two rows with equal keys,   *)
(* whichever attempts of whichever partitions were committed.              *)
AtMostOnePerKey ==
    repartition \/ Colocated => \A i, j \in Output : i # j => ~ Equal(i, j)

(* No key is lost: once every partition is committed, each row of the      *)
(* DataFrame is in the output or an equal row is, even after failures,     *)
(* retries and speculation, and with or without repartitioning.            *)
EveryKeySurvives ==
    JobDone => \A i \in Positions : i \in Output \/ \E j \in Output : Equal(i, j)
=============================================================================
