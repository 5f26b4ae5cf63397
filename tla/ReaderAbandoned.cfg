SPECIFICATION ChannelsSpec
CONSTANTS
    Process = {p1, p2, p3}
    Item = {a, b}
    Size = 2
    None = None
    Holder = {p1, p2, p3}
    NoCall = NoCall
    Reading = Reading
    MaxLeaks = 1
    Creator = p1
    Wanted = {1}
    Lengths = {2}
CHECK_DEADLOCK FALSE
INVARIANTS
    ReaderNotAbandoned
