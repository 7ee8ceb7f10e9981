CONSTANTS
    c1 = c1
    c2 = c2
    c3 = c3
    NCircles <- MCNCircles
    Palette <- MCPalette
SPECIFICATION Spec
INVARIANTS
    TypeOK
    LoneCollisionSharesColour
PROPERTIES
    RecolourOnlyOnEnter
