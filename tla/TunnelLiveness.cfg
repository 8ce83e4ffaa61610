SPECIFICATION FairSpec
CONSTANTS
    NoConfig = NoConfig
    NoFd = NoFd
    NoInst = NoInst
    Configs = {x}
    AetherConfigs = {x}
    TorConfigs = {x}
    Fd = {f1}
    Inst = {i1, i2}
    Job = {j1}
    MaxIntents = 1
    MaxBroadcasts = 1
PROPERTIES StopEndsProcess StartEnds
