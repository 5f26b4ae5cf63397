SPECIFICATION MCSpec
CONSTANTS
    Process = {p1, p2}
    Dummy = Dummy
    Awaker = Awaker
    SystemTask = {Dummy, Awaker}
    Scheduler = Scheduler
    AwakerQueue = AwakerQueue
    WaitQueues = {AwakerQueue, mutex, semaphore, event}
    ObjectQueues = {mutex, semaphore, event}
    Mutexes = {mutex}
    Semaphores = {semaphore}
    Events = {event}
    IrqQueues = {}
    Sleeps = {}
    Timeouts = {1}
    MaxTime = 1
    MaxToken = 3
    Initial = 1
    Limits = {0, 1, 2}
    MaxSignals = 2
    None = None
INVARIANTS
    GrantedIsOwned
    NoMissedSignal
    PermitsConserved
PROPERTIES
    GivesUpInTime
    ComesBack
