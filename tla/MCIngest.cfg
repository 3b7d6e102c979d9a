SPECIFICATION Spec
CONSTANTS
    EventIds = {"said", "resent", "marked", "asUser", "false"}
    Messages = {"m1"}
    Keys = {"k1", "k2", "k3", "k4", "k5", "k6"}
    Sessions = {s1, s2}
    None = None
    Input <- MCInput
    SoftCap = 1
INVARIANTS
    TypeOK
    IngestIsAtomic
    PairedIsProved
    ReplayHeals
