SPECIFICATION Spec
CONSTANTS
    WorkItems = {"b"}
    Runs = {r1, r2}
    Decisions = {}
    Operation <- MCOperation
    DependsOn <- MCDependsOn
    DecisionIds <- MCDecisionIds
    Predecessor <- MCPredecessor
    Additive <- MCAdditive
    MaxRevision = 1
    None = None
INVARIANTS
    BaselineRetryCompletes
SYMMETRY RunSymmetry
CHECK_DEADLOCK FALSE
