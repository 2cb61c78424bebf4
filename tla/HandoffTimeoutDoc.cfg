SPECIFICATION Spec
CONSTANTS
    ConnectionTimeout = 50
    ConfigPeriod = 25
    LoopGroups = {"motorcontrol"}
    ConfigGroups = {}
    OtherGroups = {}
    MaxInFlight = 1
INVARIANT
    GivenUpAfter500ms
