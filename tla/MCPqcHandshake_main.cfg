CONSTANTS
    Tries = 2
    CacheSlots = 4
    QueueSize = 2
    MaxFault = 1
    MaxReset = 1
    Resets <- InitiatorResets
    MaxRekey = 1
    RekeyBy = {"I"}
SPECIFICATION FairSpec
INVARIANTS CutoverWindow
PROPERTIES CommitAgrees OldKeyForgotten Converges
