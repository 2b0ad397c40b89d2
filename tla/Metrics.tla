------------------------------ MODULE Metrics ------------------------------
(***************************************************************************)
(* Metric logging (python/witchhat/metrics.py) around the wrapped calls of *)
(* __init__.py and the partition streams of spark.py.  Two module globals, *)
(* a flag and a sink, are written by enable and disable and read by every  *)
(* call, without a lock, on whichever Python thread the call runs: the     *)
(* kernels release the GIL, and a stream is suspended between batches.  A  *)
(* call reads the flag twice and the sink once, at its very end.           *)
(***************************************************************************)
EXTENDS Integers, Sequences

CONSTANTS
    Call,       \* calls of wrapped functions and of partition streams
    Stream,     \* those that are streams, which their consumer may close
    Sink,       \* what events can be sent to
    NoSink,     \* _sink = None, before any enable
    Faulty,     \* the sinks that may raise: a full disk, a caller's callable
    Thread      \* the threads that call enable and disable

ASSUME MetricsAssumption ==
    /\ Stream \subseteq Call
    /\ Faulty \subseteq Sink
    /\ NoSink \notin Sink

VARIABLES
    enabled,    \* _enabled
    sink,       \* _sink
    enabling,   \* the threads between the two assignments of enable
    pc,         \* call -> "call", "enter", "body", "finally", "emit" or "over"
    event,      \* call -> the events it has built, at most one
    lit,        \* call -> whether the flag has been up at some time in the call
    target,     \* call -> the sink it has read
    result,     \* call -> how the wrapped block ended
    outcome,    \* call -> what its caller sees
    delivered   \* call -> the events it has delivered

vars == <<enabled, sink, enabling, pc, event, lit, target, result, outcome, delivered>>

Ends == {"none", "value", "error", "panic", "closed"}
Events == [status : {"ok", "error"}, counters : BOOLEAN]

TypeOK ==
    /\ enabled \in BOOLEAN
    /\ sink \in Sink \cup {NoSink}
    /\ enabling \subseteq Thread
    /\ pc \in [Call -> {"call", "enter", "body", "finally", "emit", "over"}]
    /\ event \in [Call -> {<<>>} \cup {<<e>> : e \in Events}]
    /\ lit \in [Call -> BOOLEAN]
    /\ target \in [Call -> Sink \cup {NoSink}]
    /\ result \in [Call -> Ends]
    /\ outcome \in [Call -> Ends \cup {"sink_error"}]
    /\ delivered \in [Call -> Seq(Events)]

-----------------------------------------------------------------------------
Init ==
    /\ enabled = FALSE
    /\ sink = NoSink
    /\ enabling = {}
    /\ pc = [c \in Call |-> "call"]
    /\ event = [c \in Call |-> <<>>]
    /\ lit = [c \in Call |-> FALSE]
    /\ target = [c \in Call |-> NoSink]
    /\ result = [c \in Call |-> "none"]
    /\ outcome = [c \in Call |-> "none"]
    /\ delivered = [c \in Call |-> <<>>]

calls == <<pc, event, target, result, outcome, delivered>>

(* The sink tells whether there is anything to do. *)
SinkInstalled == sink # NoSink

(* is_enabled, and the flag as measure reads it. *)
IsEnabled == enabled

(* The flag goes up before there is a sink. *)
EnableFlagFirst(t, s) ==
    /\ t \notin enabling
    /\ enabling' = enabling \cup {t}
    /\ enabled' = TRUE
    /\ lit' = [c \in Call |-> lit[c] \/ pc[c] \notin {"call", "over"}]
    /\ UNCHANGED <<sink, calls>>

(* enable: first the sink, then the flag. *)
EnableSink(t, s) ==
    /\ t \notin enabling
    /\ enabling' = enabling \cup {t}
    /\ sink' = s
    /\ UNCHANGED <<enabled, lit, calls>>

EnableFlag(t) ==
    /\ t \in enabling
    /\ enabling' = enabling \ {t}
    /\ enabled' = TRUE
    /\ lit' = [c \in Call |-> lit[c] \/ pc[c] \notin {"call", "over"}]
    /\ UNCHANGED <<sink, calls>>

(* disable leaves the sink where it is. *)
Disable(t) ==
    /\ t \notin enabling
    /\ enabled' = FALSE
    /\ UNCHANGED <<sink, enabling, lit, calls>>

(* A wrapper, or a stream asked for its first batch, looks at the flag and *)
(* takes the uninstrumented path if it is down.                            *)
Check(c) ==
    /\ pc[c] = "call"
    /\ pc' = [pc EXCEPT ![c] = IF IsEnabled THEN "enter" ELSE "body"]
    /\ lit' = [lit EXCEPT ![c] = enabled]
    /\ UNCHANGED <<enabled, sink, enabling, event, target, result, outcome, delivered>>

(* measure looks again; an event starts out as a success. *)
Enter(c) ==
    /\ pc[c] = "enter"
    /\ pc' = [pc EXCEPT ![c] = "body"]
    /\ event' = [event EXCEPT ![c] =
          IF IsEnabled THEN <<[status |-> "ok", counters |-> FALSE]>> ELSE <<>>]
    /\ UNCHANGED <<enabled, sink, enabling, lit, target, result, outcome, delivered>>

(* The block has ended one way or the other: on to the finally clause, or, *)
(* with nothing to report, back to the caller.                             *)
Leave(c, end) ==
    /\ pc[c] = "body"
    /\ result' = [result EXCEPT ![c] = end]
    /\ IF event[c] = <<>>
       THEN /\ pc' = [pc EXCEPT ![c] = "over"]
            /\ outcome' = [outcome EXCEPT ![c] = end]
       ELSE /\ pc' = [pc EXCEPT ![c] = "finally"]
            /\ UNCHANGED outcome
    /\ UNCHANGED <<enabled, sink, enabling, lit, target, delivered>>

(* The event of a stream is given its counters after the last batch, that  *)
(* of a function before the call returns.                                  *)
Return(c) ==
    /\ Leave(c, "value")
    /\ event' = [event EXCEPT ![c] =
          IF @ = <<>> THEN @ ELSE <<[@[1] EXCEPT !.counters = TRUE]>>]

(* The exception is not recorded. *)
RaiseUnrecorded(c) == Leave(c, "error") /\ UNCHANGED event

(* The kernel, the stream or a batch upstream raises an Exception. *)
Raise(c) ==
    /\ Leave(c, "error")
    /\ event' = [event EXCEPT ![c] =
          IF @ = <<>> THEN @ ELSE <<[@[1] EXCEPT !.status = "error"]>>]

(* What is no Exception passes the except clause by: a PanicException of   *)
(* the kernel, a KeyboardInterrupt.                                        *)
Interrupt(c) == Leave(c, "panic") /\ UNCHANGED event

(* The consumer drops a suspended stream: GeneratorExit is thrown into the *)
(* block, which is not an Exception.                                       *)
CloseStream(c) ==
    /\ c \in Stream
    /\ Leave(c, "closed")
    /\ UNCHANGED event

(* The event goes wherever the sink points now. *)
ReadSink(c) ==
    /\ pc[c] = "finally"
    /\ target' = [target EXCEPT ![c] = sink]
    /\ IF sink = NoSink
       THEN /\ pc' = [pc EXCEPT ![c] = "over"]
            /\ outcome' = [outcome EXCEPT ![c] = result[c]]
       ELSE /\ pc' = [pc EXCEPT ![c] = "emit"]
            /\ UNCHANGED outcome
    /\ UNCHANGED <<enabled, sink, enabling, event, lit, result, delivered>>

Emit(c) ==
    /\ pc[c] = "emit"
    /\ delivered' = [delivered EXCEPT ![c] = @ \o event[c]]
    /\ pc' = [pc EXCEPT ![c] = "over"]
    /\ outcome' = [outcome EXCEPT ![c] = result[c]]
    /\ UNCHANGED <<enabled, sink, enabling, event, lit, target, result>>

(* The sink raises inside the finally clause: its exception is what leaves. *)
SinkRaises(c) ==
    /\ pc[c] = "emit"
    /\ target[c] \in Faulty
    /\ pc' = [pc EXCEPT ![c] = "over"]
    /\ outcome' = [outcome EXCEPT ![c] = "sink_error"]
    /\ UNCHANGED <<enabled, sink, enabling, event, lit, target, result, delivered>>

Next ==
    \/ \E t \in Thread :
          (\E s \in Sink : EnableSink(t, s)) \/ EnableFlag(t) \/ Disable(t)
    \/ \E c \in Call :
          \/ Check(c) \/ Enter(c) \/ Return(c) \/ Raise(c) \/ Interrupt(c)
          \/ CloseStream(c) \/ ReadSink(c) \/ Emit(c) \/ SinkRaises(c)

Spec == Init /\ [][Next]_vars

-----------------------------------------------------------------------------
(* No event is lost and none is sent twice: a call that started to measure *)
(* itself has, when it is over, delivered its one event, unless the sink   *)
(* raised; the reads of the flag and of the sink are far apart, and any    *)
(* number of enables and disables may fall between them.                   *)
OneEventPerMeasuredCall ==
    \A c \in Call : pc[c] = "over" =>
        delivered[c] = IF outcome[c] = "sink_error" THEN <<>> ELSE event[c]

(* A call during which the flag was down all the time emits nothing, even  *)
(* while threads are half way through enable.                              *)
SilentWhileDisabled == \A c \in Call : delivered[c] # <<>> => lit[c]

(* What the caller sees is what the wrapped block did, and the event says  *)
(* "error" exactly if that was an Exception, as long as the sink does not  *)
(* raise.                                                                  *)
EventTellsOutcome ==
    \A c \in Call : pc[c] = "over" /\ outcome[c] # "sink_error" =>
        /\ outcome[c] = result[c]
        /\ \A k \in 1..Len(delivered[c]) :
              delivered[c][k].status = "error" <=> outcome[c] = "error"

(* "this function only ever observes, never swallows or changes what the   *)
(* wrapped call does" (metrics.py, lines 122 and 123).                     *)
OnlyObserves == \A c \in Call : pc[c] = "over" => outcome[c] = result[c]

(* "An exception raised inside the block is recorded (status: "error")"    *)
(* (metrics.py, lines 119 and 120): a panic of the kernel is one.          *)
PanicIsRecorded ==
    \A c \in Call : \A k \in 1..Len(delivered[c]) :
        result[c] = "panic" => delivered[c][k].status = "error"

(* "one event is emitted per partition, with distinct_keys and batches_in  *)
(* added alongside the usual rows_in/rows_out" (spark.py, lines 309 to     *)
(* 311): an event that reports success carries the counters.               *)
SuccessCarriesCounters ==
    \A c \in Stream : \A k \in 1..Len(delivered[c]) :
        delivered[c][k].status = "ok" => delivered[c][k].counters
=============================================================================
