CONSTANTS
    NCircles <- MCNCircles
    NRects <- MCNRects
SPECIFICATION Spec
INVARIANTS
    TypeOK
    CounterMatchesOverlaps
    ColourLagsOneFrame
PROPERTIES
    ImplementsListener
