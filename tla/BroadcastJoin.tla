--------------------------- MODULE BroadcastJoin ---------------------------
(***************************************************************************)
(* broadcast_join (python/witchhat/spark.py): a small table, collected to  *)
(* the driver, is joined with every Arrow batch of every partition of a    *)
(* DataFrame, each batch by a call of the kernel of its own.  The kernel   *)
(* is taken at its word here (JoinResult, which Join is checked against):  *)
(* what is modelled is that its results are put one after another, and     *)
(* that nobody sees more of the DataFrame than a batch.                    *)
(***************************************************************************)
EXTENDS JoinResult, FiniteSets

CONSTANTS
    Partition,
    Parts,          \* the rows a partition may hold, sequences of keys
    Smalls,         \* the rows the small table may have
    MaxEmpty        \* bound on the empty batches of a partition

(* The tables are sequences of keys. *)
TablesOfKeys == Parts \subseteq Seq(Key) /\ Smalls \subseteq Seq(Key)

ASSUME BroadcastAssumption == TablesOfKeys /\ MaxEmpty \in Nat

VARIABLES
    howName,    \* the argument how, "outer" standing for any unknown name
    part,       \* partition -> its rows
    small,      \* the broadcast table
    wellFormed, \* whether the key columns exist and have the same types
    planned,    \* "no", "yes" or "rejected", by the driver
    status,     \* partition -> "running", "done" or "failed"
    read,       \* partition -> rows pulled so far
    empties,    \* partition -> empty batches pulled so far
    yielded     \* partition -> the result rows yielded, in order

broadcastVars == <<howName, part, small, wellFormed, planned, status, read, empties, yielded>>

BroadcastTypeOK ==
    /\ howName \in Hows \cup {"outer"}
    /\ part \in [Partition -> Seq(Key)]
    /\ small \in Seq(Key)
    /\ wellFormed \in BOOLEAN
    /\ planned \in {"no", "yes", "rejected"}
    /\ status \in [Partition -> {"running", "done", "failed"}]
    /\ \A p \in Partition : read[p] \in 0..Len(part[p])
    /\ empties \in [Partition -> 0..MaxEmpty]
    /\ \A p \in Partition : yielded[p] \in Seq((0..read[p]) \X (0..Len(small)))

-----------------------------------------------------------------------------
(* Only a full join is turned away. *)
RejectsFullOnly == howName = "full"

(* The guard on how, before anything is sent anywhere. *)
Rejects == howName \in {"right", "full"}

(* JoinType::parse and the checks of join_impl, at every batch. *)
KernelAccepts == howName \in Hows /\ wellFormed

(* What a call of the kernel may return for rows first..last of partition  *)
(* p: a listing of their join.                                             *)
KernelResults(p, first, last) ==
    LET rows == JoinOf(SubSeq(part[p], first, last), small, howName, FALSE)
    IN  {s \in [1..Cardinality(rows) -> rows] : Lists(s, rows)}

(* A result with its left rows counted from the start of the partition,    *)
(* n rows of which come before the batch.                                  *)
Numbered(result, n) ==
    [k \in 1..Len(result) |->
        IF result[k][1] = 0 THEN result[k] ELSE <<n + result[k][1], result[k][2]>>]

BroadcastInit ==
    /\ howName \in Hows \cup {"outer"}
    /\ part \in [Partition -> Parts]
    /\ small \in Smalls
    /\ wellFormed \in BOOLEAN
    /\ planned = "no"
    /\ status = [p \in Partition |-> "running"]
    /\ read = [p \in Partition |-> 0]
    /\ empties = [p \in Partition |-> 0]
    /\ yielded = [p \in Partition |-> <<>>]

Plan ==
    /\ planned = "no"
    /\ planned' = IF Rejects THEN "rejected" ELSE "yes"
    /\ UNCHANGED <<howName, part, small, wellFormed, status, read, empties, yielded>>

(* The batch is joined with what has been read before it as well. *)
JoinBatchAgain(p) ==
    /\ planned = "yes"
    /\ status[p] = "running"
    /\ KernelAccepts
    /\ \E n \in 1..(Len(part[p]) - read[p]) :
          /\ read' = [read EXCEPT ![p] = @ + n]
          /\ \E result \in KernelResults(p, 1, read[p] + n) :
                yielded' = [yielded EXCEPT ![p] = @ \o Numbered(result, 0)]
    /\ UNCHANGED <<howName, part, small, wellFormed, planned, status, empties>>

JoinBatch(p) ==
    /\ planned = "yes"
    /\ status[p] = "running"
    /\ KernelAccepts
    /\ \E n \in 1..(Len(part[p]) - read[p]) :
          /\ read' = [read EXCEPT ![p] = @ + n]
          /\ \E result \in KernelResults(p, read[p] + 1, read[p] + n) :
                yielded' = [yielded EXCEPT ![p] = @ \o Numbered(result, read[p])]
    /\ UNCHANGED <<howName, part, small, wellFormed, planned, status, empties>>

(* An empty batch is joined like any other: there is no early continue. *)
JoinEmpty(p) ==
    /\ planned = "yes"
    /\ status[p] = "running"
    /\ KernelAccepts
    /\ empties[p] < MaxEmpty
    /\ empties' = [empties EXCEPT ![p] = @ + 1]
    /\ \E result \in KernelResults(p, read[p] + 1, read[p]) :
          yielded' = [yielded EXCEPT ![p] = @ \o Numbered(result, read[p])]
    /\ UNCHANGED <<howName, part, small, wellFormed, planned, status, read>>

(* The kernel refuses the first batch of the task, an empty one as well. *)
KernelRaises(p) ==
    /\ planned = "yes"
    /\ status[p] = "running"
    /\ ~ KernelAccepts
    /\ read[p] < Len(part[p]) \/ empties[p] < MaxEmpty
    /\ status' = [status EXCEPT ![p] = "failed"]
    /\ UNCHANGED <<howName, part, small, wellFormed, planned, read, empties, yielded>>

Exhausted(p) ==
    /\ planned = "yes"
    /\ status[p] = "running"
    /\ read[p] = Len(part[p])
    /\ status' = [status EXCEPT ![p] = "done"]
    /\ UNCHANGED <<howName, part, small, wellFormed, planned, read, empties, yielded>>

Ended ==
    /\ planned = "rejected" \/ \A p \in Partition : status[p] # "running"
    /\ UNCHANGED broadcastVars

BroadcastNext ==
    \/ Plan
    \/ \E p \in Partition :
          JoinBatch(p) \/ JoinEmpty(p) \/ KernelRaises(p) \/ Exhausted(p)
    \/ Ended

BroadcastSpec == BroadcastInit /\ [][BroadcastNext]_broadcastVars

-----------------------------------------------------------------------------
(* However a partition is cut into batches, what has been yielded is the   *)
(* join of what has been read, in the order one call of the kernel over    *)
(* those rows would return it.                                             *)
StreamedJoin ==
    \A p \in Partition :
        Lists(yielded[p], IF KernelAccepts /\ planned = "yes"
                      THEN JoinOf(SubSeq(part[p], 1, read[p]), small, howName, FALSE)
                      ELSE {})

(* Which rows of a partition's result have a row of the partition. *)
OfLeftRows(p) == {k \in 1..Len(yielded[p]) : yielded[p][k][1] # 0}

(* The partitions' results together are one join of the whole DataFrame    *)
(* with the small table: every row of a partition is joined once, and a    *)
(* row of the small table is beside nulls only in a join that asks for it, *)
(* only if no partition has a match, and then once, not once per partition *)
(* or per batch (spark.py, lines 639 to 643).                              *)
DataFrameJoined ==
    (planned = "yes" /\ KernelAccepts /\ \A p \in Partition : status[p] = "done") =>
        /\ \A p \in Partition :
              /\ {yielded[p][k] : k \in OfLeftRows(p)} =
                    {row \in JoinOf(part[p], small, howName, FALSE) : row[1] # 0}
              /\ \A k, l \in OfLeftRows(p) : k < l => Before(yielded[p][k], yielded[p][l])
        /\ \A j \in 1..Len(small) :
              Cardinality({p \in Partition : \E k \in 1..Len(yielded[p]) : yielded[p][k] = <<0, j>>})
              = IF howName \in {"right", "full"}
                   /\ \A p \in Partition : <<0, j>> \in RightOver(part[p], small, FALSE)
                THEN 1 ELSE 0
=============================================================================
