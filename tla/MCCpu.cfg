CONSTANT
    Programs <- MCPrograms
SPECIFICATION Spec
INVARIANTS
    AccessesFitCycles
PROPERTIES
    ArithmeticIsExact
    CombinedInstructions
    HandlersReturn
\* A program ends when its steps are used up.
CHECK_DEADLOCK FALSE
