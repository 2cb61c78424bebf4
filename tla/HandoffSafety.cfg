SPECIFICATION Spec
CONSTANTS
    ConnectionTimeout = 2
    ConfigPeriod = 2
    LoopGroups = {"motorcontrol"}
    ConfigGroups = {"motorconfig"}
    OtherGroups = {"imuconfig"}
    MaxInFlight = 1
INVARIANTS
    TypeOK
    FailoverConsistent
    AtMostTwoStaleCommands
    ConnectedExactly
