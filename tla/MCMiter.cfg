CONSTANTS
    Problems <- McAllProblems
    PNUM = 2
    SampleRounds = 2
SPECIFICATION Spec
INVARIANTS
    VerdictExact
    VerdictOneSided
