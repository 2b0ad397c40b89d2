--------------------------- MODULE BindingsProofs ---------------------------
(***************************************************************************)
(* Metrics and the bindings it watches, for any number of calls, threads,  *)
(* sinks, bindings and faults.  First metrics alone.  Below a measured     *)
(* call nothing touches the variables of Metrics, so all of that holds of  *)
(* bindings too; what the event of a call and its exception say follows    *)
(* from where the binding is when its block ends.                          *)
(***************************************************************************)
EXTENDS Bindings, TLAPS

(***************************************************************************)
(* Metric logging.  The events reach a sink although the flag and the sink *)
(* are read apart, because enable sets the sink first and disable never    *)
(* takes it away: wherever the flag is up, or a thread is about to raise   *)
(* it, there is a sink, and there will be one for every call that has seen *)
(* the flag.                                                               *)
(***************************************************************************)
(* A sink is there before anybody can see the flag up. *)
SinkBeforeFlag == enabled \/ enabling # {} => sink # NoSink

(* The life of one call, by where it is. *)
CallInv(c) ==
    /\ pc[c] \in {"enter", "body"} /\ enabled => lit[c]
    /\ event[c] # <<>> => sink # NoSink /\ lit[c]
    /\ pc[c] \in {"call", "enter"} => event[c] = <<>>
    /\ pc[c] = "enter" => lit[c]
    /\ pc[c] # "over" => delivered[c] = <<>>
    /\ pc[c] = "body" /\ event[c] # <<>> => event[c][1].status = "ok"
    /\ pc[c] \in {"finally", "emit"} => event[c] # <<>>
    /\ pc[c] \in {"finally", "emit", "over"} /\ event[c] # <<>> =>
          (event[c][1].status = "error" <=> result[c] = "error")
    /\ pc[c] = "over" => outcome[c] \in {result[c], "sink_error"}
    /\ pc[c] = "over" =>
          delivered[c] = IF outcome[c] = "sink_error" THEN <<>> ELSE event[c]

IInv == TypeOK /\ SinkBeforeFlag /\ \A c \in Call : CallInv(c)

-----------------------------------------------------------------------------
(* What a step of one call leaves alone: the switches, and other calls. *)
Untouched(d) ==
    /\ UNCHANGED <<enabled, sink, enabling>>
    /\ lit'[d] = lit[d] /\ pc'[d] = pc[d] /\ event'[d] = event[d]
    /\ result'[d] = result[d] /\ outcome'[d] = outcome[d]
    /\ delivered'[d] = delivered[d]

(* A call that does not take the step keeps its part of the invariant, so  *)
(* it is enough that the one that takes it finds its own.                  *)
LEMMA Bystander ==
    ASSUME NEW d \in Call, CallInv(d), Untouched(d)
    PROVE  CallInv(d)'
BY DEF CallInv, Untouched

LEMMA OwnStep ==
    ASSUME IInv, NEW c \in Call, TypeOK', CallInv(c)',
           UNCHANGED <<enabled, sink, enabling>>,
           \A d \in Call \ {c} : Untouched(d)
    PROVE  IInv'
<1>1. SinkBeforeFlag'  BY DEF IInv, SinkBeforeFlag
<1>2. ASSUME NEW d \in Call PROVE CallInv(d)'
    <2>1. CASE d = c  BY <2>1
    <2>2. CASE d # c
        <3>1. CallInv(d)  BY DEF IInv
        <3> QED  BY <2>2, <3>1, Bystander
    <2> QED  BY <2>1, <2>2
<1> QED  BY <1>1, <1>2 DEF IInv

(* Every call's part of the invariant survives enable and disable. *)
LEMMA Switching ==
    ASSUME IInv, NEW t \in Thread,
           (\E s \in Sink : EnableSink(t, s)) \/ EnableFlag(t) \/ Disable(t)
    PROVE  IInv'
<1> USE MetricsAssumption
<1>1. CASE \E s \in Sink : EnableSink(t, s)
    <2> PICK s \in Sink : EnableSink(t, s)  BY <1>1
    <2>1. TypeOK'  BY DEF IInv, TypeOK, EnableSink, calls
    <2>2. SinkBeforeFlag'  BY DEF EnableSink, SinkBeforeFlag
    <2>3. ASSUME NEW d \in Call PROVE CallInv(d)'
        BY DEF IInv, CallInv, EnableSink, calls
    <2> QED  BY <2>1, <2>2, <2>3 DEF IInv
<1>2. CASE EnableFlag(t)
    <2>1. TypeOK'
        <3>1. lit' \in [Call -> BOOLEAN]
            BY <1>2 DEF IInv, TypeOK, EnableFlag
        <3> QED  BY <1>2, <3>1 DEF IInv, TypeOK, EnableFlag, calls
    <2>2. SinkBeforeFlag'  BY <1>2 DEF IInv, EnableFlag, SinkBeforeFlag
    <2>3. ASSUME NEW d \in Call PROVE CallInv(d)'
        <3>1. lit'[d] = (lit[d] \/ pc[d] \notin {"call", "over"})
            BY <1>2 DEF EnableFlag
        <3>2. CallInv(d)  BY DEF IInv
        <3>3. UNCHANGED <<sink, calls>>  BY <1>2 DEF EnableFlag
        <3> QED  BY <3>1, <3>2, <3>3 DEF CallInv, calls
    <2> QED  BY <2>1, <2>2, <2>3 DEF IInv
<1>3. CASE Disable(t)
    <2>1. TypeOK'  BY <1>3 DEF IInv, TypeOK, Disable, calls
    <2>2. SinkBeforeFlag'  BY <1>3 DEF IInv, Disable, SinkBeforeFlag
    <2>3. ASSUME NEW d \in Call PROVE CallInv(d)'
        BY <1>3 DEF IInv, CallInv, Disable, calls
    <2> QED  BY <2>1, <2>2, <2>3 DEF IInv
<1> QED  BY <1>1, <1>2, <1>3

(* Every call's part of the invariant survives the steps of one call: its  *)
(* own part follows it to where it goes, the others are bystanders.        *)
LEMMA Calling ==
    ASSUME IInv, NEW c \in Call,
           \/ Check(c) \/ Enter(c) \/ Return(c) \/ Raise(c) \/ Interrupt(c)
           \/ CloseStream(c) \/ ReadSink(c) \/ Emit(c) \/ SinkRaises(c)
    PROVE  IInv'
<1> USE MetricsAssumption
<1>0. TypeOK /\ SinkBeforeFlag /\ CallInv(c)  BY DEF IInv
<1>1. CASE Check(c)
    <2>1. TypeOK'  BY <1>0, <1>1 DEF TypeOK, Check
    <2>2. CallInv(c)'  BY <1>0, <1>1 DEF TypeOK, CallInv, Check, IsEnabled
    <2>3. /\ UNCHANGED <<enabled, sink, enabling>>
         /\ \A d \in Call \ {c} : Untouched(d)
        BY <1>0, <1>1 DEF TypeOK, Untouched, Check
    <2> QED  BY <2>1, <2>2, <2>3, OwnStep
<1>2. CASE Enter(c)
    <2>1. TypeOK'  BY <1>0, <1>2 DEF TypeOK, Enter, Events
    <2>2. CallInv(c)'
        BY <1>0, <1>2 DEF TypeOK, SinkBeforeFlag, CallInv, Enter, IsEnabled
    <2>3. /\ UNCHANGED <<enabled, sink, enabling>>
         /\ \A d \in Call \ {c} : Untouched(d)
        BY <1>0, <1>2 DEF TypeOK, Untouched, Enter
    <2> QED  BY <2>1, <2>2, <2>3, OwnStep
<1>3. CASE Return(c)
    <2>1. event[c] = <<>> \/ \E e \in Events : event[c] = <<e>>
        BY <1>0 DEF TypeOK
    <2>2. TypeOK'
        <3> DEFINE new == IF event[c] = <<>> THEN event[c]
                          ELSE <<[event[c][1] EXCEPT !.counters = TRUE]>>
        <3>1. ASSUME NEW e \in Events PROVE [e EXCEPT !.counters = TRUE] \in Events
            BY DEF Events
        <3>2. new \in {<<>>} \cup {<<e>> : e \in Events}
            <4>1. CASE event[c] = <<>>  BY <4>1
            <4>2. CASE event[c] # <<>>
                <5>1. PICK e \in Events : event[c] = <<e>>  BY <4>2, <2>1
                <5>2. new = <<[e EXCEPT !.counters = TRUE]>>
                    BY <4>2, <5>1
                <5> QED  BY <3>1, <5>2
            <4> QED  BY <4>1, <4>2
        <3>3. event' = [event EXCEPT ![c] = new]  BY <1>3 DEF Return
        <3>4. event' \in [Call -> {<<>>} \cup {<<e>> : e \in Events}]
            <4> HIDE DEF new
            <4> QED  BY <1>0, <3>2, <3>3 DEF TypeOK
        <3> QED  BY <1>0, <1>3, <3>4 DEF TypeOK, Return, Leave, Ends
    <2>3. CallInv(c)'  BY <1>0, <1>3, <2>1 DEF TypeOK, CallInv, Return, Leave, Events
    <2>4. /\ UNCHANGED <<enabled, sink, enabling>>
         /\ \A d \in Call \ {c} : Untouched(d)
        BY <1>0, <1>3 DEF TypeOK, Untouched, Return, Leave
    <2> QED  BY <2>2, <2>3, <2>4, OwnStep
<1>4. CASE Raise(c)
    <2>1. event[c] = <<>> \/ \E e \in Events : event[c] = <<e>>
        BY <1>0 DEF TypeOK
    <2>2. TypeOK'
        <3> DEFINE new == IF event[c] = <<>> THEN event[c]
                          ELSE <<[event[c][1] EXCEPT !.status = "error"]>>
        <3>1. ASSUME NEW e \in Events PROVE [e EXCEPT !.status = "error"] \in Events
            BY DEF Events
        <3>2. new \in {<<>>} \cup {<<e>> : e \in Events}
            <4>1. CASE event[c] = <<>>  BY <4>1
            <4>2. CASE event[c] # <<>>
                <5>1. PICK e \in Events : event[c] = <<e>>  BY <4>2, <2>1
                <5>2. new = <<[e EXCEPT !.status = "error"]>>
                    BY <4>2, <5>1
                <5> QED  BY <3>1, <5>2
            <4> QED  BY <4>1, <4>2
        <3>3. event' = [event EXCEPT ![c] = new]  BY <1>4 DEF Raise
        <3>4. event' \in [Call -> {<<>>} \cup {<<e>> : e \in Events}]
            <4> HIDE DEF new
            <4> QED  BY <1>0, <3>2, <3>3 DEF TypeOK
        <3> QED  BY <1>0, <1>4, <3>4 DEF TypeOK, Raise, Leave, Ends
    <2>3. CallInv(c)'  BY <1>0, <1>4, <2>1 DEF TypeOK, CallInv, Raise, Leave, Events
    <2>4. /\ UNCHANGED <<enabled, sink, enabling>>
         /\ \A d \in Call \ {c} : Untouched(d)
        BY <1>0, <1>4 DEF TypeOK, Untouched, Raise, Leave
    <2> QED  BY <2>2, <2>3, <2>4, OwnStep
<1>5. CASE CloseStream(c)
    <2>1. TypeOK'  BY <1>0, <1>5 DEF TypeOK, CloseStream, Leave, Ends
    <2>2. CallInv(c)'  BY <1>0, <1>5 DEF TypeOK, CallInv, CloseStream, Leave
    <2>3. /\ UNCHANGED <<enabled, sink, enabling>>
         /\ \A d \in Call \ {c} : Untouched(d)
        BY <1>0, <1>5 DEF TypeOK, Untouched, CloseStream, Leave
    <2> QED  BY <2>1, <2>2, <2>3, OwnStep
<1>6. CASE ReadSink(c)
    <2>1. TypeOK'  BY <1>0, <1>6 DEF TypeOK, ReadSink
    <2>2. CallInv(c)'  BY <1>0, <1>6 DEF TypeOK, CallInv, ReadSink
    <2>3. /\ UNCHANGED <<enabled, sink, enabling>>
         /\ \A d \in Call \ {c} : Untouched(d)
        BY <1>0, <1>6 DEF TypeOK, Untouched, ReadSink
    <2> QED  BY <2>1, <2>2, <2>3, OwnStep
<1>7. CASE Emit(c)
    <2>1. delivered[c] = <<>> /\ event[c] \in Seq(Events)
        <3>1. event[c] = <<>> \/ \E e \in Events : event[c] = <<e>>
            BY <1>0 DEF TypeOK
        <3>2. delivered[c] = <<>>  BY <1>0, <1>7 DEF CallInv, Emit
        <3>3. \A e \in Events : <<e>> \in Seq(Events)  OBVIOUS
        <3>4. <<>> \in Seq(Events)  OBVIOUS
        <3> QED  BY <3>1, <3>2, <3>3, <3>4
    <2>2. <<>> \o event[c] = event[c]  BY <2>1
    <2>3. delivered' = [delivered EXCEPT ![c] = event[c]]
        BY <1>7, <2>1, <2>2 DEF Emit
    <2>4. TypeOK'  BY <1>0, <1>7, <2>1, <2>3 DEF TypeOK, Emit
    <2>5. CallInv(c)'  BY <1>0, <1>7, <2>3 DEF TypeOK, CallInv, Emit, Ends
    <2>6. /\ UNCHANGED <<enabled, sink, enabling>>
         /\ \A d \in Call \ {c} : Untouched(d)
        BY <1>0, <1>7 DEF TypeOK, Untouched, Emit
    <2> QED  BY <2>4, <2>5, <2>6, OwnStep
<1>8. CASE SinkRaises(c)
    <2>1. TypeOK'  BY <1>0, <1>8 DEF TypeOK, SinkRaises
    <2>2. CallInv(c)'  BY <1>0, <1>8 DEF TypeOK, CallInv, SinkRaises
    <2>3. /\ UNCHANGED <<enabled, sink, enabling>>
         /\ \A d \in Call \ {c} : Untouched(d)
        BY <1>0, <1>8 DEF TypeOK, Untouched, SinkRaises
    <2> QED  BY <2>1, <2>2, <2>3, OwnStep
<1>9. CASE Interrupt(c)
    <2>1. TypeOK'  BY <1>0, <1>9 DEF TypeOK, Interrupt, Leave, Ends
    <2>2. CallInv(c)'  BY <1>0, <1>9 DEF TypeOK, CallInv, Interrupt, Leave
    <2>3. /\ UNCHANGED <<enabled, sink, enabling>>
         /\ \A d \in Call \ {c} : Untouched(d)
        BY <1>0, <1>9 DEF TypeOK, Untouched, Interrupt, Leave
    <2> QED  BY <2>1, <2>2, <2>3, OwnStep
<1> QED  BY <1>1, <1>2, <1>3, <1>4, <1>5, <1>6, <1>7, <1>8, <1>9

(* The invariant holds of every reachable state. *)
THEOREM SpecIInv == Spec => []IInv
<1>1. Init => IInv
    <2> SUFFICES ASSUME Init PROVE IInv  OBVIOUS
    <2>1. TypeOK
        <3>1. delivered \in [Call -> Seq(Events)]
            <4>1. <<>> \in Seq(Events)  OBVIOUS
            <4> QED  BY <4>1 DEF Init
        <3>2. event \in [Call -> {<<>>} \cup {<<e>> : e \in Events}]  BY DEF Init
        <3> QED  BY <3>1, <3>2 DEF Init, TypeOK, Ends
    <2>2. SinkBeforeFlag  BY DEF Init, SinkBeforeFlag
    <2>3. \A c \in Call : CallInv(c)  BY DEF Init, CallInv
    <2> QED  BY <2>1, <2>2, <2>3 DEF IInv
<1>2. IInv /\ [Next]_vars => IInv'
    <2> SUFFICES ASSUME IInv, [Next]_vars PROVE IInv'  OBVIOUS
    <2>1. CASE Next  BY <2>1, Switching, Calling DEF Next
    <2>2. CASE UNCHANGED vars
        BY <2>2 DEF vars, IInv, TypeOK, SinkBeforeFlag, CallInv
    <2> QED  BY <2>1, <2>2
<1> QED  BY <1>1, <1>2, PTL DEF Spec

(* The variables keep their types: in particular no call ever builds, or   *)
(* delivers, an event of a shape enable's sinks do not expect.             *)
THEOREM MetricsTypeOK == Spec => []TypeOK
BY SpecIInv, PTL DEF IInv

(* However enables and disables fall between a call's reads of the flag    *)
(* and of the sink, its event is delivered exactly once.                   *)
THEOREM NoEventLost == Spec => []OneEventPerMeasuredCall
<1>1. IInv => OneEventPerMeasuredCall  BY DEF IInv, CallInv, OneEventPerMeasuredCall
<1> QED  BY <1>1, SpecIInv, PTL

(* A call that never overlaps a raised flag emits nothing. *)
THEOREM NothingWhileDisabled == Spec => []SilentWhileDisabled
<1>1. IInv => SilentWhileDisabled
    <2> SUFFICES ASSUME IInv, NEW c \in Call, delivered[c] # <<>> PROVE lit[c]
        BY DEF SilentWhileDisabled
    <2> QED  BY DEF IInv, CallInv
<1> QED  BY <1>1, SpecIInv, PTL

(* Unless the sink raised, the caller gets what the wrapped block did, and *)
(* an event says "error" exactly if that was an Exception: a panic, an     *)
(* interrupt and an early close leave it at "ok".                          *)
THEOREM FaithfulEvents == Spec => []EventTellsOutcome
<1>1. IInv => EventTellsOutcome
    <2> SUFFICES ASSUME IInv, NEW c \in Call, pc[c] = "over",
                        outcome[c] # "sink_error"
                 PROVE  /\ outcome[c] = result[c]
                        /\ \A k \in 1..Len(delivered[c]) :
                              delivered[c][k].status = "error" <=> outcome[c] = "error"
        BY DEF EventTellsOutcome
    <2>1. CallInv(c) /\ TypeOK  BY DEF IInv
    <2>2. outcome[c] = result[c] /\ delivered[c] = event[c]
        BY <2>1 DEF CallInv
    <2>3. event[c] = <<>> \/ \E e \in Events : event[c] = <<e>>
        BY <2>1 DEF TypeOK
    <2> QED  BY <2>1, <2>2, <2>3 DEF CallInv
<1> QED  BY <1>1, SpecIInv, PTL

-----------------------------------------------------------------------------
(***************************************************************************)
(* Calls of the bindings, inside the measured calls above.                 *)
(***************************************************************************)
(* What the binding would look at, and is wrong. *)
Looked(c) == faults[c] \cap ToSet(binding[c].checks)

(* A kernel runs on arguments in which nothing was found wrong, and only   *)
(* native code of a kernel holds the GIL for itself.                       *)
InKernel(c) ==
    /\ gil = c => native[c] \in {"kernel", "finished"}
    /\ native[c] \in {"kernel", "finished"} =>
          pc[c] = "body" /\ Failing(binding[c], faults[c]) = {}

(* What a verdict says of the arguments. *)
VerdictInv(c) ==
    /\ native[c] = "ValueError" =>
          Looked(c) \cap {"name", "rules"} # {} \/ binding[c].refusal = "ValueError"
    /\ native[c] = "RuntimeError" => "data" \in faults[c] /\ Looked(c) = {}
    /\ native[c] = "value" => Looked(c) = {} /\ {"object", "bug"} \cap faults[c] = {}

(* The block of a function call ends the way its binding did. *)
EndInv(c) ==
    c \notin Stream /\ pc[c] \in {"finally", "emit", "over"} =>
        /\ result[c] = "value" <=> native[c] = "value"
        /\ result[c] = "error" <=> native[c] \in Exceptions

CallNative(c) == InKernel(c) /\ VerdictInv(c) /\ EndInv(c)
NInv == NativeTypeOK /\ \A c \in Call : CallNative(c)

-----------------------------------------------------------------------------
(* A binding is a client of Metrics that adds no step of its own to it. *)
THEOREM NativeImplementsMetrics == NativeSpec => Spec
<1>1. NativeInit => Init  BY DEF NativeInit
<1>2. [NativeNext]_allVars => [Next]_vars
    <2>1. ASSUME NEW c \in Call, EndBlock(c)
          PROVE  Return(c) \/ Raise(c) \/ Interrupt(c) \/ CloseStream(c)
        BY <2>1 DEF EndBlock
    <2>2. NativeNext => Next \/ UNCHANGED vars
        <3> SUFFICES ASSUME NativeNext PROVE Next \/ UNCHANGED vars  OBVIOUS
        <3>1. CASE \E t \in Thread :
                     Python((\E s \in Sink : EnableSink(t, s)) \/ EnableFlag(t) \/ Disable(t))
            BY <3>1 DEF Python, Next
        <3>2. ASSUME NEW c \in Call,
                     \/ Python(Check(c)) \/ Python(Enter(c)) \/ Python(EndBlock(c))
                     \/ Python(ReadSink(c)) \/ Python(Emit(c)) \/ Python(SinkRaises(c))
              PROVE  Next
            BY <3>2, <2>1 DEF Python, Next
        <3>3. ASSUME NEW c \in Call, Invoke(c) \/ KernelEnds(c) \/ Reacquire(c)
              PROVE  UNCHANGED vars
            BY <3>3 DEF Invoke, KernelEnds, Reacquire
        <3> QED  BY <3>1, <3>2, <3>3 DEF NativeNext
    <2> QED  BY <2>2 DEF allVars
<1> QED  BY <1>1, <1>2, PTL DEF NativeSpec, Spec

(* Where no step finds anything, nothing the binding looks at is wrong. *)
LEMMA NothingFails ==
    ASSUME NEW b, b.checks \in Seq({"name", "array", "rules"}), NEW f,
           Failing(b, f) = {}
    PROVE  "object" \notin f /\ f \cap ToSet(b.checks) = {}
<1>1. /\ Len(Steps(b)) = 1 + Len(b.checks)
      /\ Steps(b)[1] = "object"
      /\ \A i \in 1..Len(b.checks) : Steps(b)[i + 1] = b.checks[i]
    BY DEF Steps
<1>2. Len(b.checks) \in Nat /\ DOMAIN b.checks = 1..Len(b.checks)  OBVIOUS
<1>3. "object" \notin f
    <2>1. 1 \in 1..Len(Steps(b))  BY <1>1, <1>2
    <2> QED  BY <2>1, <1>1 DEF Failing
<1>4. ASSUME NEW i \in 1..Len(b.checks) PROVE b.checks[i] \notin f
    <2>1. i + 1 \in 1..Len(Steps(b))  BY <1>1, <1>2
    <2> QED  BY <2>1, <1>1 DEF Failing
<1> QED  BY <1>2, <1>3, <1>4 DEF ToSet

(* A step that finds something wrong finds an object that is none, or what *)
(* the binding checks.                                                     *)
LEMMA SomethingFails ==
    ASSUME NEW b, b.checks \in Seq({"name", "array", "rules"}), NEW f,
           NEW k \in Failing(b, f)
    PROVE  \/ Steps(b)[k] = "object"
           \/ Steps(b)[k] \in {"name", "array", "rules"} \cap f \cap ToSet(b.checks)
<1>1. /\ Len(Steps(b)) = 1 + Len(b.checks)
      /\ Steps(b)[1] = "object"
      /\ \A i \in 1..Len(b.checks) : Steps(b)[i + 1] = b.checks[i]
    BY DEF Steps
<1>2. Len(b.checks) \in Nat /\ DOMAIN b.checks = 1..Len(b.checks)  OBVIOUS
<1>3. k \in 1..(1 + Len(b.checks)) /\ Steps(b)[k] \in f  BY <1>1 DEF Failing
<1>4. CASE k = 1  BY <1>4, <1>1
<1>5. CASE k # 1
    <2>1. k - 1 \in 1..Len(b.checks) /\ (k - 1) + 1 = k  BY <1>2, <1>3, <1>5
    <2>2. Steps(b)[k] = b.checks[k - 1]  BY <2>1, <1>1
    <2>3. b.checks[k - 1] \in {"name", "array", "rules"}  BY <2>1
    <2> QED  BY <1>2, <1>3, <2>1, <2>2, <2>3 DEF ToSet
<1> QED  BY <1>4, <1>5

-----------------------------------------------------------------------------
(* What a step of one call leaves alone of another. *)
Aside(d) ==
    /\ binding'[d] = binding[d] /\ faults'[d] = faults[d] /\ native'[d] = native[d]
    /\ pc'[d] = pc[d] /\ result'[d] = result[d]
    /\ gil' = d => gil = d

LEMMA Onlooker ==
    ASSUME NEW d \in Call, CallNative(d), Aside(d)
    PROVE  CallNative(d)'
BY DEF CallNative, InKernel, VerdictInv, EndInv, Looked, Aside

LEMMA OneCall ==
    ASSUME NInv, NEW c \in Call, NativeTypeOK', CallNative(c)',
           \A d \in Call \ {c} : Aside(d)
    PROVE  NInv'
<1>1. ASSUME NEW d \in Call PROVE CallNative(d)'
    <2>1. CASE d = c  BY <2>1
    <2>2. CASE d # c
        <3>1. CallNative(d)  BY DEF NInv
        <3> QED  BY <2>2, <3>1, Onlooker
    <2> QED  BY <2>1, <2>2
<1> QED  BY <1>1 DEF NInv

(* Python code moves a call along, and ends its block the way the binding  *)
(* ended.                                                                  *)
LEMMA PythonStep ==
    ASSUME IInv, NInv, NEW c \in Call,
           \/ Check(c) \/ Enter(c) \/ EndBlock(c)
           \/ ReadSink(c) \/ Emit(c) \/ SinkRaises(c),
           gil = NoOwner, UNCHANGED nativeVars
    PROVE  NInv'
<1> USE BindingsAssumption, MetricsAssumption
<1>0. TypeOK /\ NativeTypeOK /\ CallNative(c)  BY DEF IInv, NInv
<1>1. NativeTypeOK'  BY <1>0 DEF NativeTypeOK, nativeVars
<1>2. \A d \in Call \ {c} : Aside(d)
    BY <1>0 DEF TypeOK, Aside, nativeVars, Check, Enter, EndBlock, Return, Raise,
           Interrupt, CloseStream, Leave, ReadSink, Emit, SinkRaises
<1>3. CASE Check(c) \/ Enter(c)
    <2>1. CallNative(c)'
        BY <1>0, <1>3 DEF TypeOK, CallNative, InKernel, VerdictInv, EndInv, Looked,
               nativeVars, Check, Enter
    <2> QED  BY <1>1, <1>2, <2>1, OneCall
<1>4. CASE EndBlock(c)
    <2>1. native[c] \notin {"kernel", "finished"}
        BY <1>4 DEF EndBlock, InBlock, Exceptions
    <2>2. InKernel(c)' /\ VerdictInv(c)'
        BY <1>0, <2>1 DEF CallNative, InKernel, VerdictInv, Looked, nativeVars
    <2>3. EndInv(c)'
        <3>1. CASE c \in Stream  BY <3>1 DEF EndInv
        <3>2. CASE c \notin Stream
            BY <1>0, <1>4, <3>2 DEF TypeOK, EndInv, EndBlock, Return, Raise, Interrupt,
                   Leave, nativeVars, Exceptions
        <3> QED  BY <3>1, <3>2
    <2> QED  BY <1>1, <1>2, <2>2, <2>3, OneCall DEF CallNative
<1>5. CASE ReadSink(c) \/ Emit(c) \/ SinkRaises(c)
    <2>1. CallNative(c)'
        BY <1>0, <1>5 DEF TypeOK, CallNative, InKernel, VerdictInv, EndInv, Looked,
               nativeVars, ReadSink, Emit, SinkRaises
    <2> QED  BY <1>1, <1>2, <2>1, OneCall
<1> QED  BY <1>3, <1>4, <1>5

(* A binding goes wrong before its kernel in the way its first failing     *)
(* step says, or comes to its kernel with nothing wrong.                   *)
LEMMA InvokeStep ==
    ASSUME IInv, NInv, NEW c \in Call, Invoke(c)
    PROVE  NInv'
<1> USE BindingsAssumption
<1>0. TypeOK /\ NativeTypeOK /\ CallNative(c) /\ pc[c] = "body" /\ gil = NoOwner
    BY DEF IInv, NInv, Invoke, InBlock
<1>1. PICK f \in Faults :
        /\ faults' = [faults EXCEPT ![c] = f]
        /\ \/ /\ Failing(binding[c], f) = {}
              /\ native' = [native EXCEPT ![c] = "kernel"]
              /\ gil' = IF binding[c].releases THEN NoOwner ELSE c
           \/ \E k \in Failing(binding[c], f) :
                 /\ \A j \in Failing(binding[c], f) : k <= j
                 /\ native' = [native EXCEPT ![c] = Exception[Steps(binding[c])[k]]]
                 /\ UNCHANGED gil
    BY DEF Invoke
<1>2. UNCHANGED <<vars, binding>>  BY DEF Invoke
<1>3. binding[c] \in BindingsOf[c] /\ binding[c].checks \in Seq({"name", "array", "rules"})
    BY <1>0 DEF NativeTypeOK
<1>4. faults' \in [Call -> Faults] /\ faults'[c] = f
    BY <1>0, <1>1 DEF NativeTypeOK
<1>5. CASE /\ Failing(binding[c], f) = {}
           /\ native' = [native EXCEPT ![c] = "kernel"]
           /\ gil' = IF binding[c].releases THEN NoOwner ELSE c
    <2>1. NativeTypeOK'  BY <1>0, <1>2, <1>4, <1>5 DEF NativeTypeOK
    <2>2. native'[c] = "kernel"  BY <1>0, <1>5 DEF NativeTypeOK
    <2>3. CallNative(c)'
        BY <1>0, <1>2, <1>4, <1>5, <2>2
           DEF CallNative, InKernel, VerdictInv, EndInv, vars
    <2>4. \A d \in Call \ {c} : Aside(d)
        BY <1>0, <1>1, <1>2, <1>5 DEF NativeTypeOK, Aside, vars
    <2> QED  BY <2>1, <2>3, <2>4, OneCall
<1>6. ASSUME NEW k \in Failing(binding[c], f),
             native' = [native EXCEPT ![c] = Exception[Steps(binding[c])[k]]],
             UNCHANGED gil
      PROVE  NInv'
    <2> DEFINE step == Steps(binding[c])[k]
    <2>1. \/ step = "object"
          \/ step \in {"name", "array", "rules"} \cap f \cap ToSet(binding[c].checks)
        BY <1>3, SomethingFails
    <2>2. Exception[step] \in {"TypeError", "ValueError", "PanicException"}
        BY <2>1 DEF Exception
    <2>3. Exception[step] = "ValueError" =>
             step \in {"name", "rules"} \cap f \cap ToSet(binding[c].checks)
        BY <2>1 DEF Exception
    <2>4. native'[c] = Exception[step]  BY <1>0, <1>6 DEF NativeTypeOK
    <2> HIDE DEF step
    <2>5. NativeTypeOK'
        BY <1>0, <1>2, <1>4, <1>6, <2>2 DEF NativeTypeOK, Verdicts, Exceptions, step
    <2>6. InKernel(c)' /\ EndInv(c)'
        BY <1>0, <1>2, <1>6, <2>2, <2>4 DEF InKernel, EndInv, vars
    <2>7. VerdictInv(c)'
        BY <1>2, <1>4, <2>2, <2>3, <2>4 DEF VerdictInv, Looked
    <2>8. \A d \in Call \ {c} : Aside(d)
        BY <1>0, <1>1, <1>2, <1>6 DEF NativeTypeOK, Aside, vars
    <2> QED  BY <2>5, <2>6, <2>7, <2>8, OneCall DEF CallNative
<1> QED  BY <1>1, <1>5, <1>6

(* The kernel ends, and its verdict is about the data alone. *)
LEMMA KernelStep ==
    ASSUME IInv, NInv, NEW c \in Call, KernelEnds(c) \/ Reacquire(c)
    PROVE  NInv'
<1> USE BindingsAssumption
<1>0. TypeOK /\ NativeTypeOK /\ CallNative(c)  BY DEF IInv, NInv
<1>1. CASE KernelEnds(c)
    <2>1. NativeTypeOK'  BY <1>0, <1>1 DEF NativeTypeOK, KernelEnds
    <2>2. CallNative(c)'
        BY <1>0, <1>1 DEF NativeTypeOK, CallNative, InKernel, VerdictInv, EndInv, KernelEnds, vars
    <2>3. \A d \in Call \ {c} : Aside(d)
        BY <1>0, <1>1 DEF NativeTypeOK, Aside, KernelEnds, vars
    <2> QED  BY <2>1, <2>2, <2>3, OneCall
<1>2. CASE Reacquire(c)
    <2> DEFINE verdict == KernelVerdict(binding[c], faults[c])
    <2>1. /\ pc[c] = "body" /\ Failing(binding[c], faults[c]) = {}
          /\ binding[c] \in BindingsOf[c]
        BY <1>0, <1>2 DEF CallNative, InKernel, Reacquire, NativeTypeOK
    <2>2. "object" \notin faults[c] /\ Looked(c) = {}
        BY <2>1, NothingFails DEF Looked
    <2>3. /\ verdict \in {"value", "ValueError", "RuntimeError", "PanicException"}
          /\ verdict = "ValueError" => binding[c].refusal = "ValueError"
          /\ verdict = "RuntimeError" => "data" \in faults[c]
          /\ verdict = "value" => "bug" \notin faults[c]
        BY <2>1 DEF KernelVerdict
    <2>4. /\ gil' = NoOwner /\ UNCHANGED <<vars, binding, faults>>
          /\ native' = [native EXCEPT ![c] = verdict]
        BY <1>2 DEF Reacquire
    <2> HIDE DEF verdict
    <2>5. native'[c] = verdict  BY <1>0, <2>4 DEF NativeTypeOK
    <2>6. NativeTypeOK'  BY <1>0, <2>3, <2>4 DEF NativeTypeOK, Verdicts, Exceptions
    <2>7. InKernel(c)' /\ EndInv(c)'
        BY <2>1, <2>3, <2>4, <2>5 DEF InKernel, EndInv, vars
    <2>8. VerdictInv(c)'
        BY <2>2, <2>3, <2>4, <2>5 DEF VerdictInv, Looked
    <2>9. \A d \in Call \ {c} : Aside(d)
        BY <1>0, <2>4 DEF NativeTypeOK, Aside, vars
    <2> QED  BY <2>6, <2>7, <2>8, <2>9, OneCall DEF CallNative
<1> QED  BY <1>1, <1>2

(* The invariant holds of every reachable state. *)
THEOREM NativeInvariant == NativeSpec => [](IInv /\ NInv)
<1> USE BindingsAssumption
<1>1. NativeSpec => []IInv  BY NativeImplementsMetrics, SpecIInv, PTL
<1>2. NativeInit => NInv
    <2> SUFFICES ASSUME NativeInit PROVE NInv  OBVIOUS
    <2>1. NativeTypeOK  BY DEF NativeInit, NativeTypeOK
    <2>2. \A c \in Call : CallNative(c)
        BY DEF NativeInit, Init, CallNative, InKernel, VerdictInv, EndInv
    <2> QED  BY <2>1, <2>2 DEF NInv
<1>3. IInv /\ NInv /\ [NativeNext]_allVars => NInv'
    <2> SUFFICES ASSUME IInv, NInv, [NativeNext]_allVars PROVE NInv'  OBVIOUS
    <2>1. ASSUME NEW t \in Thread,
                 Python((\E s \in Sink : EnableSink(t, s)) \/ EnableFlag(t) \/ Disable(t))
          PROVE  NInv'
        <3>1. UNCHANGED <<nativeVars, pc, result>>
            BY <2>1 DEF Python, EnableSink, EnableFlag, Disable, calls
        <3> QED
            BY <3>1 DEF NInv, NativeTypeOK, CallNative, InKernel, VerdictInv, EndInv,
                   Looked, nativeVars
    <2>2. ASSUME NEW c \in Call,
                 \/ Python(Check(c)) \/ Python(Enter(c)) \/ Python(EndBlock(c))
                 \/ Python(ReadSink(c)) \/ Python(Emit(c)) \/ Python(SinkRaises(c))
          PROVE  NInv'
        BY <2>2, PythonStep DEF Python
    <2>3. CASE UNCHANGED allVars
        BY <2>3 DEF allVars, vars, nativeVars, NInv, NativeTypeOK, CallNative, InKernel,
               VerdictInv, EndInv, Looked
    <2> QED  BY <2>1, <2>2, <2>3, InvokeStep, KernelStep DEF NativeNext
<1> QED  BY <1>1, <1>2, <1>3, PTL DEF NativeSpec

(* The GIL is Python's, or held by a call; a verdict is one of those a     *)
(* binding can give.                                                       *)
THEOREM BindingsTypeOK == NativeSpec => []NativeTypeOK
BY NativeInvariant, PTL DEF NInv

(* One event per measured call, whatever its kernel does meanwhile. *)
THEOREM NoEventLostInKernels == NativeSpec => []OneEventPerMeasuredCall
BY NativeImplementsMetrics, NoEventLost, PTL

(* Of several faults the exception names one that is there, whichever      *)
(* binding it is and however its checks are ordered.                       *)
THEOREM ExceptionsAreExact == NativeSpec => []ExceptionNamesFault
<1>1. IInv /\ NInv => ExceptionNamesFault
    <2> SUFFICES ASSUME IInv, NInv, NEW c \in Call \ Stream, pc[c] = "over"
                 PROVE  /\ VerdictInv(c)
                        /\ outcome[c] # "sink_error" =>
                              (outcome[c] = "value" <=> native[c] = "value")
        BY DEF ExceptionNamesFault, VerdictInv, Looked
    <2>1. CallInv(c) /\ CallNative(c)  BY DEF IInv, NInv
    <2> QED  BY <2>1 DEF CallInv, CallNative, EndInv
<1> QED  BY <1>1, NativeInvariant, PTL

(* The event of a call that did not panic says "error" exactly if its      *)
(* binding raised one of the documented exceptions.                        *)
THEOREM EventsAreExact == NativeSpec => []EventTellsException
<1>1. IInv /\ NInv => EventTellsException
    <2> SUFFICES ASSUME IInv, NInv, NEW c \in Call \ Stream,
                        native[c] # "PanicException", NEW k \in 1..Len(delivered[c])
                 PROVE  delivered[c][k].status = "error" <=> native[c] \in Exceptions
        BY DEF EventTellsException
    <2>1. TypeOK /\ CallInv(c) /\ CallNative(c)  BY DEF IInv, NInv
    <2>2. delivered[c] # <<>>  BY <2>1 DEF TypeOK
    <2>3. pc[c] = "over" /\ delivered[c] = event[c]  BY <2>1, <2>2 DEF CallInv
    <2>4. event[c] # <<>> /\ k = 1
        <3>1. event[c] = <<>> \/ \E e \in Events : event[c] = <<e>>
            BY <2>1 DEF TypeOK
        <3>2. PICK e \in Events : event[c] = <<e>>  BY <2>2, <2>3, <3>1
        <3>3. Len(delivered[c]) = 1  BY <2>3, <3>2
        <3> QED  BY <3>2, <3>3
    <2>5. delivered[c][k].status = "error" <=> result[c] = "error"
        BY <2>1, <2>3, <2>4 DEF CallInv
    <2> QED  BY <2>1, <2>3, <2>5 DEF CallNative, EndInv
<1> QED  BY <1>1, NativeInvariant, PTL
=============================================================================
