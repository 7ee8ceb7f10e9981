CONSTANTS
    NCircles <- MCNCircles
    NRects <- MCNRects
SPECIFICATION FairSpec
PROPERTIES
    QuitLeadsToExit
