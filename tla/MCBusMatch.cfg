CONSTANTS
    Circuits <- McCircuits
    Modulus = 65536
SPECIFICATION Spec
INVARIANTS
    OnlyFeasible
    OneRecorded
