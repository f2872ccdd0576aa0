SPECIFICATION FairSpec
CONSTANTS
    FIFO_DEPTH = 4
    ResetValue <- PowerUpValue
    PowerUp <- MCPowerUp
    MaxFaults = 2
    Script <- Setup
    Retries = 2
INVARIANTS TypeOK ReadsOneRegister HangsForAReason
PROPERTIES RegistersSpec SetupEnds
CHECK_DEADLOCK FALSE
