CONSTANTS
    None = None
    CONST = CONST
    C1In <- McC1In
    C2In <- McC2In
    C1Out <- McC1Out
    C2Out <- McC2Out
    Bus1 <- McBus
    Bus2 <- McBus
    BusIdx1 <- McBusIdx1
    BusIdx2 <- McBusIdx2
    BusIndices1 <- McBusIndices1
    BusIndices2 <- McBusIndices2
    Supp1 <- McSupp1
    Supp2 <- McSupp2
    OutOrder <- McOutOrder
    OutCand <- McOutCand
    InCand <- McInCand
    InitIn <- McInitIn
    InitNe <- McInitNe
    Priority <- McPriority
    Unpaired = {}
    Netlists <- McNetlists
    ExhaustiveLimit = 18
SPECIFICATION Spec
INVARIANT AnswerEquivalent
