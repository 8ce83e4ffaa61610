SPECIFICATION Spec
SYMMETRY Symmetry
CONSTANTS
    NoConfig = NoConfig
    NoFd = NoFd
    NoInst = NoInst
    Configs = {p}
    AetherConfigs = {}
    TorConfigs = {}
    Fd = {f1, f2, f3}
    Inst = {i1}
    Job = {j1, j2}
    MaxIntents = 2
    MaxBroadcasts = 1
INVARIANTS TypeOK FdOwnership DetachedFdHasOneOwner
PROPERTIES BlockHolds KillSwitchKeepsService
