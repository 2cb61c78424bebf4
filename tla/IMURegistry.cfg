SPECIFICATION FairSpec
CONSTANTS
    IMUIds = {0, 1}
    Poses = {"XForward", "YForward"}
    DefaultPose = "XForward"
    kPhoenixRetryCount = 3
    MaxHeartbeatTicks = 2
INVARIANTS
    TypeOK
    PoseAsRecorded
PROPERTY
    PoseRetried
