\* README.md:67
SPECIFICATION Spec
CONSTANTS
    Groups = {g1, g2}
    Limit = 2
    Window = 3
    Unknown = Unknown
    MaxLost = 0
SYMMETRY Symmetry
INVARIANTS
    RollingWindow
