SPECIFICATION Spec
CONSTANTS
    Process = {p1, p2}
    NoProcess = NoProcess
    CoreRun = {c1, c2}
    MaxEdits = 1
    MaxTouches = 1
    MaxUndone = 1
    Elsewhere <- MCElsewhere
SYMMETRY Symmetry
INVARIANTS
    BuildIsFrozen
    
