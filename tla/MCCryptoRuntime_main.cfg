CONSTANTS
    Policy <- MCPolicy
    First <- MCFirst
    Configs <- MCConfigs
    MaxLoad = 1
    MaxKey = 2
    MaxEvent = 2
    Worker = {w1}
SPECIFICATION Spec
INVARIANTS WorkerHasBoundIdentity KeptIsRestartable ExpiryIsPursued
PROPERTIES ContextOfItsPolicy DiscardedUnused
CHECK_DEADLOCK FALSE
