SPECIFICATION Spec
CONSTANTS
    c1 = c1
    c2 = c2
    c3 = c3
    r1 = r1
    r2 = r2
    Calls = {c1, c2, c3}
    Offered <- EachMode
    Runtimes = {r1, r2}
    RuntimeOf <- TwoAndOne
    Notified = {r1}
    Ids = {i1, i2, i3}
    StoreFaults = {"rejected", "lost_reply"}
SYMMETRY AnyId
INVARIANTS
    OwnTransaction
    EventTellsStore
    AnnouncedOnce
