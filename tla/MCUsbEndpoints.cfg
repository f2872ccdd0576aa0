SPECIFICATION EndpointsFairSpec
CONSTANTS
    Kind = "interrupt"
    nbytes = 8
    MaxPktSize = 8
    TransferSize = 8
    MaxPackets = 3
    AnswerAsked = 18
    MaxPktSize0 = 8
    AnswerSize = 16
INVARIANTS TypeOK TogglesTellRepeats WholeAnswers
PROPERTIES StreamSpec ReportsArrive
