CONSTANTS
    c1 = c1
    c2 = c2
    NCircles <- MCNCircles
    NRects <- MCNRects
    Palette <- MCPalette
SYMMETRY MCSymmetry
SPECIFICATION Spec
INVARIANTS
    TypeOK
    LoneCollisionSharesColour
PROPERTIES
    RecolourOnlyOnEnter
