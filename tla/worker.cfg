\* A script and a store read with a fallback, two loads of the Health page.
CONSTANTS
    c1 = c1
    c2 = c2
    p1 = p1
    p2 = p2
    ToolCalls = {c1, c2}
    Pages = {p1, p2}
    Boot = Boot
    NoThread = NoThread
    Kind <- ScriptAndRead
    Reads = 2
    SignalAnywhere = FALSE
SPECIFICATION WorkerSpec
INVARIANTS
    ThreadsStayBounded
PROPERTIES
    EveryWaitEnds
    EndsWhenTold
CHECK_DEADLOCK FALSE
