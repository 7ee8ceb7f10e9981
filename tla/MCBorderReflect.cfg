CONSTANTS
    Width <- MCWidth
    Height <- MCHeight
    Border <- MCBorder
    Margin <- MCMargin
    VMax <- MCVMax
    DtMin <- MCDtMin
    DtMax <- MCDtMax
    MaxCoord <- MCMaxCoord
SPECIFICATION Spec
INVARIANTS
    ExcursionBounded
