SPECIFICATION FairPMSpec
CONSTANTS
    Process = {p1, p2}
    Dummy = Dummy
    Awaker = Awaker
    Collector = Collector
    Deleter = Deleter
    Root = Root
    SystemTask = {Dummy, Awaker, Collector, Deleter, Root}
    Scheduler = Scheduler
    AwakerQueue = AwakerQueue
    CollectorQueue = CollectorQueue
    DeleterQueue = DeleterQueue
    WaitQueues = {AwakerQueue, CollectorQueue, DeleterQueue, object}
    ObjectQueues = {}
    IrqQueues = {}
    Sleeps = {}
    Timeouts = {}
    MaxTime = 0
    MaxToken = 2
    MaxWakes = 2
    None = None
PROPERTIES
    SlotGivenBack
CHECK_DEADLOCK FALSE
