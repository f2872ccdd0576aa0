SPECIFICATION Spec
CONSTANTS
    W = 4
    Pow2 <- MCPow2
INVARIANTS TypeOK ProductIsRight PartialProduct
PROPERTIES OnePerPress
