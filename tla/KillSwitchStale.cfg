SPECIFICATION Spec
CONSTANTS
    NoConfig = NoConfig
    NoFd = NoFd
    NoInst = NoInst
    Configs = {x}
    AetherConfigs = {x}
    TorConfigs = {x}
    Fd = {f1, f2}
    Inst = {i1}
    Job = {j1}
    MaxIntents = 1
    MaxBroadcasts = 1
PROPERTIES ErrorEntersKillSwitch
