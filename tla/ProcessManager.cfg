SPECIFICATION PMSpec
CONSTANTS
    Process = {p1, p2}
    Dummy = Dummy
    Awaker = Awaker
    Collector = Collector
    Deleter = Deleter
    Root = Root
    SystemTask = {Dummy, Awaker, Collector, Deleter, Root}
    Scheduler = Scheduler
    AwakerQueue = AwakerQueue
    CollectorQueue = CollectorQueue
    DeleterQueue = DeleterQueue
    WaitQueues = {AwakerQueue, CollectorQueue, DeleterQueue, object}
    ObjectQueues = {object}
    IrqQueues = {object}
    Sleeps = {}
    Timeouts = {}
    MaxTime = 1
    MaxToken = 2
    MaxWakes = 3
    None = None
SYMMETRY Symmetry
INVARIANTS
    FamilyTree
    NoMissedExit
    
PROPERTIES
    ImplementsLife
CHECK_DEADLOCK FALSE
