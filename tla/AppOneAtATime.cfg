SPECIFICATION AppSpec
SYMMETRY Symmetry
CONSTANTS
    NoConfig = NoConfig
    NoFd = NoFd
    NoInst = NoInst
    Configs = {p, q}
    AetherConfigs = {}
    TorConfigs = {}
    PinConfigs = {q}
    Switcher = {k1}
    Fd = {f1, f2}
    Inst = {i1, i2}
    Job = {j1}
    MaxIntents = 2
    MaxBroadcasts = 1
    Anytime = {"revoke"}
INVARIANTS AppTypeOK UiTellsTruth
