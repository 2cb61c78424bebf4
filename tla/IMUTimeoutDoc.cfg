SPECIFICATION Spec
CONSTANTS
    IMUIds = {1}
    Poses = {"XForward", "YForward"}
    DefaultPose = "XForward"
    kPhoenixRetryCount = 3
    MaxHeartbeatTicks = 250
INVARIANT
    DeletedAfterTimeout
