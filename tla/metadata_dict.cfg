CONSTANTS
    IntMax = 3
    Mantissa = 4
    NaReal = 99
    RValues <- MCRValues
    Anys <- MCAnys
    Depth <- MCDepth
    Lists <- MCLists
    Values <- MCValues
    Keys <- MCKeys
    Loaded <- MCLoaded
SPECIFICATION Spec
PROPERTIES EditTouchesOneKey CopyRestores AllOrNothing ActsAsAList
