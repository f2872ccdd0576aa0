SPECIFICATION Spec
CONSTANTS
    W = 3
    Switches <- MCSwitches
INVARIANT PartialResult
PROPERTY UnitSpec
