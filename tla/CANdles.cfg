SPECIFICATION Spec
CONSTANTS
    a = a
    b = b
    CANdleIds = {a, b}
    RegistrableIds = {a, b}
    Channels = {red}
    red = red
    NoColor = NoColor
    fire = fire
    Slots = {fire}
    DefaultMode = "Static"
    MaxHeartbeatTicks = 2
INVARIANTS
    TypeOK
    AnimationsRecorded
    ShowsWhatIsRecorded
PROPERTY
    ImplementsHeartbeatLease
