SPECIFICATION Spec
CONSTANTS
    FIFO_DEPTH = 4
    ResetValue <- PowerUpValue
    PowerUp <- MCPowerUp
    MaxFaults = 2
    Script <- Setup
    Retries = 2
INVARIANT ReadsTheRegisterAsked
CHECK_DEADLOCK FALSE
