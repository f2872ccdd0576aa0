SPECIFICATION FairSpec
CONSTANTS
    Word = 26
    TicksPerSec = 3
    NAK_LIMIT = 3
    RETRY_LIMIT = 2
    XFER_TIMEOUT = 3
    Results <- MCResults
    ClockWraps = FALSE
INVARIANTS TypeOK LaunchesBounded SoundUntilTimeout
PROPERTIES RetrySpec CallsReturn
