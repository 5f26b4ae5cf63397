SPECIFICATION StorageSpec
CONSTANTS
    Process = {p1, p2}
    First = p1
    Object = {o1, o2}
    Volume = {v1, v2}
    PipeManager = PipeManager
    RootFilesystem = RootFilesystem
    Path = {a, b}
    BootVolume = v1
    BootPath = a
    NumFds = 2
    NumTTY = 1
    NumRegions = 1
    MaxRefs = 3
    MaxFileops = 2
    MaxMounts = 2
    None = None
    NumSectors = 3
    CacheSize = 2
    Data = {0, 1}
    NoData = NoData
    MaxIO = 3
    Reader = {r0, r1, r2}
    InitReader = r0
    RingSize = 3
    QueueSize = 3
    MaxBytes = 5
    MaxForeground = 2
    Letter = {"a", "b"}
    BufSize = 4
    MaxRead = 3
    MaxKeys = 6
    FontHeight = 2
    FontWidth = 2
    Height = 6
    Width = 8
    NumInputs = 2
    MaxInput = 12
SYMMETRY Objects
INVARIANTS
    ReferencesCounted
    FilesystemsCounted
    CacheCoherent
    KeysInOrder
    NoMissedInput
    InputAsTyped
    CursorOnScreen
CHECK_DEADLOCK FALSE
