SPECIFICATION FairSpec
CONSTANTS
    USB_NUMDEVICES = 3
    Speed <- MCSpeed
INVARIANTS TypeOK PollsTheNewest DriverMatches BusSeen RunningIsAttached LedTellsRunning
PROPERTIES EnumerationEnds
