CONSTANTS
    NCircles <- MCNCircles
    NRects <- MCNRects
SPECIFICATION Spec
INVARIANTS
    TypeOK
    OnlyLaunchedSceneLive
    SetUpOnEmptyWorld
