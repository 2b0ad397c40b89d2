------------------------------ MODULE Bindings ------------------------------
(***************************************************************************)
(* Calls of the extension module (witchhat-py/src/python.rs) below the     *)
(* wrappers and partition streams whose metrics Metrics models, on the     *)
(* Python threads of one process.  A binding extracts its arguments,       *)
(* parses the names among them, converts untyped arrays, and runs its      *)
(* kernel; all of it holds the interpreter lock (GIL), except the kernels  *)
(* that are run inside allow_threads.  Whoever holds the GIL in native     *)
(* code keeps every other thread from its next step.                       *)
(***************************************************************************)
EXTENDS Metrics, SequencesExt

CONSTANTS
    BindingsOf,     \* call -> the bindings it may invoke
    Faults,         \* the sets of things that may be wrong with one invocation
    NoOwner         \* the GIL as Python's own code passes it around

(* The bindings are as below, and a call may have nothing wrong. *)
ASSUME BindingsAssumption ==
    /\ \A c \in Call : \A b \in BindingsOf[c] :
          /\ b.checks \in Seq({"name", "array", "rules"})
          /\ b.refusal \in {"none", "ValueError", "RuntimeError"}
    /\ {} \in Faults
    /\ NoOwner \notin Call

VARIABLES
    gil,        \* the call whose native code holds the GIL, or NoOwner
    binding,    \* call -> the binding it invokes
    faults,     \* call -> what is wrong with its arguments
    native      \* call -> "python", "kernel", "finished" or a verdict

nativeVars == <<gil, binding, faults, native>>
allVars == <<vars, nativeVars>>

-----------------------------------------------------------------------------
(* What each binding checks before its kernel, in order: names (a version, *)
(* a how, a func), arrays it converts to a type, rules it compiles;        *)
(* whether the kernel releases the GIL; and what an Err of the kernel is   *)
(* raised as.                                                              *)
hash_rows == [checks |-> <<"name">>, releases |-> TRUE, refusal |-> "RuntimeError"]
hash_rows_all_columns == hash_rows
table_fingerprint == [checks |-> <<"name", "array">>, releases |-> TRUE, refusal |-> "none"]
schema_fingerprint == [checks |-> <<"name">>, releases |-> FALSE, refusal |-> "none"]
validate_schema == [checks |-> <<>>, releases |-> FALSE, refusal |-> "none"]
normalize_json == [checks |-> <<"name", "array">>, releases |-> TRUE, refusal |-> "RuntimeError"]
clean_with_preset == [checks |-> <<"name", "array">>, releases |-> TRUE, refusal |-> "ValueError"]
clean_with_rules == [checks |-> <<"array", "rules">>, releases |-> TRUE, refusal |-> "none"]
check_equivalence == hash_rows
drop_duplicates == hash_rows
join == hash_rows
join_null_safe == hash_rows
aggregate == hash_rows

(* What a failed check raises: an array of another type makes the typed    *)
(* array panic.                                                            *)
Exception == [object |-> "TypeError", name |-> "ValueError",
              array |-> "PanicException", rules |-> "ValueError"]
Exceptions == {"TypeError", "ValueError", "RuntimeError"}
Verdicts == Exceptions \cup {"value", "PanicException"}

(* Objects that are no Arrow data are found first of all. *)
Steps(b) == <<"object">> \o b.checks

(* The kernel looks at its data before the names are parsed. *)
FailingLate(b, f) ==
    {k \in 1..Len(Steps(b)) : "data" \notin f /\ Steps(b)[k] \in f}

(* The steps before the kernel that find something wrong; the first is the *)
(* only one that is reached.                                               *)
Failing(b, f) == {k \in 1..Len(Steps(b)) : Steps(b)[k] \in f}

KernelVerdict(b, f) ==
    CASE "bug" \in f -> "PanicException"
      [] "bug" \notin f /\ "data" \in f /\ b.refusal # "none" -> b.refusal
      [] OTHER -> "value"

NativeTypeOK ==
    /\ gil \in Call \cup {NoOwner}
    /\ \A c \in Call : binding[c] \in BindingsOf[c]
    /\ faults \in [Call -> Faults]
    /\ native \in [Call -> {"python", "kernel", "finished"} \cup Verdicts]

-----------------------------------------------------------------------------
NativeInit ==
    /\ Init
    /\ gil = NoOwner
    /\ binding \in {b \in [Call -> UNION {BindingsOf[c] : c \in Call}] :
                       \A c \in Call : b[c] \in BindingsOf[c]}
    /\ faults = [c \in Call |-> {}]
    /\ native = [c \in Call |-> "python"]

(* A step of Python code, on whichever thread. *)
Python(step) == step /\ gil = NoOwner /\ UNCHANGED nativeVars

(* A stream may go on with the next batch after a binding has returned. *)
InBlock(c) ==
    pc[c] = "body" /\ (native[c] = "python" \/ (c \in Stream /\ native[c] = "value"))

(* Every kernel keeps the GIL it was called with. *)
InvokeHolding(c) ==
    /\ InBlock(c) /\ gil = NoOwner
    /\ \E f \in Faults :
          LET failing == Failing(binding[c], f)
          IN  /\ faults' = [faults EXCEPT ![c] = f]
              /\ \/ /\ failing = {}
                    /\ native' = [native EXCEPT ![c] = "kernel"]
                    /\ gil' = c
                 \/ \E k \in failing :
                       /\ \A j \in failing : k <= j
                       /\ native' = [native EXCEPT ![c] = Exception[Steps(binding[c])[k]]]
                       /\ UNCHANGED gil
    /\ UNCHANGED <<vars, binding>>

(* The binding up to its kernel, which starts with the GIL given away or   *)
(* not, or up to the first check that fails.                               *)
Invoke(c) ==
    /\ InBlock(c) /\ gil = NoOwner
    /\ \E f \in Faults :
          LET failing == Failing(binding[c], f)
          IN  /\ faults' = [faults EXCEPT ![c] = f]
              /\ \/ /\ failing = {}
                    /\ native' = [native EXCEPT ![c] = "kernel"]
                    /\ gil' = IF binding[c].releases THEN NoOwner ELSE c
                 \/ \E k \in failing :
                       /\ \A j \in failing : k <= j
                       /\ native' = [native EXCEPT ![c] = Exception[Steps(binding[c])[k]]]
                       /\ UNCHANGED gil
    /\ UNCHANGED <<vars, binding>>

(* The kernel has returned or panicked; it needs no GIL for that. *)
KernelEnds(c) ==
    /\ native[c] = "kernel"
    /\ native' = [native EXCEPT ![c] = "finished"]
    /\ UNCHANGED <<vars, gil, binding, faults>>

(* With the GIL back, the result is built or the error raised. *)
Reacquire(c) ==
    /\ native[c] = "finished"
    /\ gil \in {c, NoOwner}
    /\ gil' = NoOwner
    /\ native' = [native EXCEPT ![c] = KernelVerdict(binding[c], faults[c])]
    /\ UNCHANGED <<vars, binding, faults>>

(* The except clause names the exceptions of bad arguments, no others. *)
EndBlockNarrow(c) ==
    \/ native[c] = "value" /\ Return(c)
    \/ native[c] \in {"TypeError", "ValueError"} /\ Raise(c)
    \/ native[c] \in {"RuntimeError", "PanicException"} /\ Interrupt(c)
    \/ InBlock(c) /\ c \in Stream /\ (Return(c) \/ Raise(c) \/ CloseStream(c))

(* The block ends the way its last binding did.  A stream may also be at   *)
(* its end, be closed between two batches, or raise an error of its own.   *)
EndBlock(c) ==
    \/ native[c] = "value" /\ Return(c)
    \/ native[c] \in Exceptions /\ Raise(c)
    \/ native[c] = "PanicException" /\ Interrupt(c)
    \/ InBlock(c) /\ c \in Stream /\ (Return(c) \/ Raise(c) \/ CloseStream(c))

NativeNext ==
    \/ \E t \in Thread :
          Python((\E s \in Sink : EnableSink(t, s)) \/ EnableFlag(t) \/ Disable(t))
    \/ \E c \in Call :
          \/ Python(Check(c)) \/ Python(Enter(c)) \/ Python(EndBlock(c))
          \/ Python(ReadSink(c)) \/ Python(Emit(c)) \/ Python(SinkRaises(c))
          \/ Invoke(c) \/ KernelEnds(c) \/ Reacquire(c)

(* Threads that can run do, and get the GIL when it is free.  A kernel     *)
(* over row data may take forever; the two that only walk over the fields  *)
(* of a schema end.                                                        *)
SchemaOnly == {schema_fingerprint, validate_schema}
Fairness ==
    \A c \in Call :
        /\ WF_allVars(Reacquire(c))
        /\ WF_allVars(Python(EndBlock(c)))
        /\ WF_allVars(Python(ReadSink(c)))
        /\ WF_allVars(Python(Emit(c) \/ SinkRaises(c)))
        /\ WF_allVars(KernelEnds(c) /\ binding[c] \in SchemaOnly)

NativeSpec == NativeInit /\ [][NativeNext]_allVars /\ Fairness

-----------------------------------------------------------------------------
(* A call whose kernel has ended gets to its end, whatever kernels of      *)
(* other threads are still in flight (python.rs, lines 10 to 20: "lets     *)
(* other Python threads run while a CPU-bound kernel is in flight instead  *)
(* of blocking on it").                                                    *)
KernelsBlockNobody ==
    \A c \in Call \ Stream : native[c] = "finished" ~> pc[c] = "over"

(* The exception that leaves a call names what was wrong with it, even if  *)
(* several things were: a ValueError a name or a rule, before the kernel   *)
(* has run, or a preset; a RuntimeError data that the kernel refused, and  *)
(* then all names were known; and only a call with nothing wrong that its  *)
(* binding would look at returns (docs/api.md, lines 150 to 155).          *)
ExceptionNamesFault ==
    \A c \in Call \ Stream : pc[c] = "over" =>
        LET looked == faults[c] \cap ToSet(binding[c].checks)
        IN  /\ native[c] = "ValueError" =>
                  looked \cap {"name", "rules"} # {} \/ binding[c].refusal = "ValueError"
            /\ native[c] = "RuntimeError" => "data" \in faults[c] /\ looked = {}
            /\ native[c] = "value" => looked = {} /\ {"object", "bug"} \cap faults[c] = {}
            /\ outcome[c] # "sink_error" =>
                  (outcome[c] = "value" <=> native[c] = "value")

(* The event of a call that did not panic says "error" exactly if its      *)
(* binding raised one of the documented exceptions, whatever it found      *)
(* wrong and whichever thread ran in between (metrics.py, lines 119 and    *)
(* 120); PanicIsRecorded is about the panics.                              *)
EventTellsException ==
    \A c \in Call \ Stream : native[c] # "PanicException" =>
        \A k \in 1..Len(delivered[c]) :
            delivered[c][k].status = "error" <=> native[c] \in Exceptions

(* "The PyO3 boundary releases the GIL for the duration of every kernel    *)
(* call" (docs/architecture.md, lines 636 and 637).                        *)
EveryKernelReleasesGil == \A c \in Call : native[c] = "kernel" => gil # c
=============================================================================
