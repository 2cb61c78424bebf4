SPECIFICATION FairSpec
CONSTANTS
    ConnectionTimeout = 2
    ConfigPeriod = 1
    LoopGroups = {"motorcontrol"}
    ConfigGroups = {}
    OtherGroups = {"imuconfig"}
    MaxInFlight = 1
PROPERTIES
    SilenceLeadsToFailover
    ConnectionLeadsToHandBack
    DisabledStopsMotors
