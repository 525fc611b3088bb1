CONSTANTS
    Tries = 2
    CacheSlots = 4
    QueueSize = 2
    MaxFault = 0
    MaxReset = 1
    Resets <- ResponderReboot
    MaxRekey = 0
    RekeyBy = {}
SPECIFICATION FairSpec
PROPERTIES RebootRecovers
