SPECIFICATION Spec
CONSTANTS
    VecCount = 4
    GprCount = 3
    Mapped <- MCMapped
    Cases <- MCCases
    Menu <- MCMenu
    MaxSteps = 3
INVARIANTS TypeOK ManualFollowed InversesRestore
\* programs end
CHECK_DEADLOCK FALSE
