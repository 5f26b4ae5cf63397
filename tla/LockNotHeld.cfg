SPECIFICATION MCSpec
CONSTANTS
    Process = {p1, p2}
    Dummy = Dummy
    Awaker = Awaker
    SystemTask = {Dummy, Awaker}
    Scheduler = Scheduler
    AwakerQueue = AwakerQueue
    WaitQueues = {AwakerQueue, mutex, semaphore, event}
    ObjectQueues = {mutex}
    Mutexes = {mutex}
    Semaphores = {}
    Events = {}
    IrqQueues = {}
    Sleeps = {}
    Timeouts = {}
    MaxTime = 0
    MaxToken = 3
    Initial = 0
    Limits = {1}
    MaxSignals = 3
    None = None
PROPERTIES
    LockMeansHeld
