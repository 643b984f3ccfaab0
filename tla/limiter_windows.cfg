\* Two groups in one file, a lost write.
SPECIFICATION Spec
CONSTANTS
    Groups = {g1, g2}
    Limit = 2
    Window = 3
    Unknown = Unknown
    MaxLost = 1
SYMMETRY Symmetry
INVARIANTS
    TypeOK
    AtMostTwoWindows
