SPECIFICATION NativeSpec
CONSTANTS
    c1 = c1
    s1 = s1
    Call = {c1, s1}
    Stream = {s1}
    Sink = {good, bad}
    NoSink = NoSink
    Faulty = {bad}
    Thread = {t1}
    NoOwner = NoOwner
    BindingsOf <- MCBindingsOf
    Faults <- MCFaults
INVARIANTS
    OneEventPerMeasuredCall
    SilentWhileDisabled
    EventTellsOutcome
    ExceptionNamesFault
    EventTellsException
PROPERTY
    KernelsBlockNobody
