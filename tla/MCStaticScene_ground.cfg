CONSTANTS
    NCircles <- MCNCircles
SPECIFICATION Spec
INVARIANTS
    GroundStaysPut
