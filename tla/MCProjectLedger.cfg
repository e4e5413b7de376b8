SPECIFICATION Spec
CONSTANTS
    WorkItems = {"b", "w", "w2", "u", "m", "v", "q"}
    Runs = {r1, r2, r3, r4}
    Decisions = {"dq", "dm"}
    Operation <- MCOperation
    DependsOn <- MCDependsOn
    DecisionIds <- MCDecisionIds
    Predecessor <- MCPredecessor
    Additive <- MCAdditive
    MaxRevision = 3
    None = None
INVARIANTS
    TypeOK
    OneActiveRun
    RunsAreAuthorised
    ThreadIsLinear
    SingleWriterPerBasis
    QuarantineHolds
    ReconciliationHasAuthority
    FinishedWorkHasEvidence
PROPERTIES
    HistoryIsKept
SYMMETRY RunSymmetry
CONSTRAINT OnePortfolio
CHECK_DEADLOCK FALSE
