SPECIFICATION Spec
CONSTANTS
    Step1 = 6
    Step2 = 11
    Step3 = 16
    IrqStart = 21
    Step5 = 28
INVARIANTS
    FourStepClocks
