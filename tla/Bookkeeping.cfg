SPECIFICATION BookSpec
CONSTANTS
    Process = {p1, p2}
    Contender = {q1, q2, q3}
    None = None
    MaxQuantum = 3
    Width = 5
    NumProcesses = 6
    NumSystem = 2
    Nobody = Nobody
    Slot = {c1, c2, c3, c4}
    System = {s1, s2}
    Orphanage = s1
    NoParent = NoParent
    Dummy = Dummy
    NoWinner = NoWinner
    MaxTickets = 3
    Slots = 3
    Periods = {0, 1, 3}
INVARIANTS
    SliceBounded
    IndicesOwned
    SlotsFound
    
    OddsFollowTickets
PROPERTIES
    
    Preempted
CHECK_DEADLOCK FALSE
