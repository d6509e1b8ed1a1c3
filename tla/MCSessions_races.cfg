CONSTANTS
    Browsers = {b}
    Agents = {}
    Handlers = {h1, h2}
    UserIdle = 0
    UserTtl = 1
    DeviceIdle = 0
    DeviceTtl = 1
    MaxDay = 2
    MaxTokens = 3
    MaxFaults = 1
    MaxLosses = 1
SPECIFICATION Spec
SYMMETRY HandlerSymmetry
INVARIANTS TypeOK ReplacedTokenDead
PROPERTY NoRevival
CHECK_DEADLOCK FALSE
