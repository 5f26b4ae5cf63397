SPECIFICATION FairSpec
CONSTANTS
    Process = {p1, p2}
    Dummy = Dummy
    Awaker = Awaker
    SystemTask = {Dummy, Awaker}
    Scheduler = Scheduler
    AwakerQueue = AwakerQueue
    WaitQueues = {AwakerQueue, object}
    ObjectQueues = {object}
    IrqQueues = {object}
    Sleeps = {0, 1}
    Timeouts = {1}
    MaxTime = 2
    MaxToken = 2
    None = None
PROPERTIES
    SleepEnds
