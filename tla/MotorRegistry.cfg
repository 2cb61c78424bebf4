SPECIFICATION FairSpec
CONSTANTS
    MotorIds = {m, f}
    m = m
    f = f
    Followers = {f}
    MasterOf <- MCMasterOf
    Settings = {0, 1}
    DefaultSetting = 0
    MaxHeartbeatTicks = 3
INVARIANTS
    TypeOK
    RegistriesAgree
    ConfigurationKnown
    HardwareAsConfigured
    FollowersFollow
PROPERTIES
    DeletedOnTime
    ImplementsHeartbeatLease
    SilentMotorDeleted
    FollowerGoesWithMaster
    ConfiguredEventually
