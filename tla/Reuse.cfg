SPECIFICATION ReuseSpec
CONSTANTS
    DataLen = 1
    MaxAttempts = 2
    Users = {u1, u2, u3}
    Writers = {w1, w2, w3}
    Readers = {r1, r2, r3}
    MaxUses = 2
INVARIANTS
    ReusedIsUnread
    RetrySendsAll
    OutputIsOwn
PROPERTY
    SendReturns
