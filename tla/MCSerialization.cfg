SPECIFICATION Spec
CONSTANTS
    Scripts <- AllScripts
    MaxString = 64
    Fill = 205
INVARIANTS
    TypeOK
    ReadAsWritten
    VectorsClose
    WireIsBigEndian
CHECK_DEADLOCK FALSE
