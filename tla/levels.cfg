SPECIFICATION Spec
CONSTANTS
    a = a
    b = b
    c = c
    x = x
    Names = {a, b, c, x}
    Templates <- AllTemplates
INVARIANTS
    TypeOK
    LevelsExact
    CycleRefused
