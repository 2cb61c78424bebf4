SPECIFICATION FairSpec
CONSTANTS
    SolenoidIds = {3, 65544}
    ModuleType <- MCModuleType
    Commands <- MCCommands
    Messages <- MCMessages
    MaxHeartbeatTicks = 4
    MandatoryTicks = 1
    MaxLag = 1
INVARIANTS
    TypeOK
    RegistriesAgree
    ValvesAsCommanded
PROPERTIES
    DeletedOnlyWhenSilent
    CommandedComesBack
    CompressorStops
