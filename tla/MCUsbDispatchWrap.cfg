SPECIFICATION FairSpec
CONSTANTS
    Word = 26
    TicksPerSec = 3
    NAK_LIMIT = 3
    RETRY_LIMIT = 2
    XFER_TIMEOUT = 3
    Results <- MCResults
    ClockWraps = TRUE

PROPERTY CallsReturn
