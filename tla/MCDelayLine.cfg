SPECIFICATION DelaySpec
CONSTANTS
    N = 4
    T = 8
    Samples <- MCSamples
    Delays <- MCDelays
    Tap <- MCTap
INVARIANTS
    DelayTypeOK
    Pipeline
PROPERTY EchoSpec
