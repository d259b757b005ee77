CONSTANTS
    Files <- McFiles
SPECIFICATION Spec
INVARIANTS
    FunctionPreserved
    EdgesMirrored
PROPERTIES
    ParserEnds
