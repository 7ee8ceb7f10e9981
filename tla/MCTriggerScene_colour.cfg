CONSTANTS
    NCircles <- MCNCircles
    NRects <- MCNRects
SPECIFICATION Spec
INVARIANTS
    ColourShowsOverlap
