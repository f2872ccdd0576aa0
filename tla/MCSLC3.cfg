SPECIFICATION FairSpec
CONSTANTS
    Size = 32
    Last = 15
    Image <- MCImage
    Inputs <- MCInputs
INVARIANTS TypeOK InstructionFetched
PROPERTIES IsaSpec InstructionsEnd
