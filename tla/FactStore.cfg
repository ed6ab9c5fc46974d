SPECIFICATION Spec
CONSTANTS
    Facts = {f1, f2}
    Hours = {0, 1, 2}
    Start = 0
    KeepHours = 2
    CompactHours = 1
    Faults = {"rename", "open", "append", "save", "remove", "back"}
    MaxHurt = 1
    MaxStarts = 2
    None = None
    Torn = Torn
CHECK_DEADLOCK FALSE
SYMMETRY FactSymmetry
INVARIANTS TypeOK FactsSurvive FilesAreListed
