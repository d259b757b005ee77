CONSTANTS
    Cases <- McCases
    NULL = NULL
    CONST = CONST
SPECIFICATION Spec
INVARIANTS
    PartnersKept
