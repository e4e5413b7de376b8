SPECIFICATION Spec
CONSTANTS
    WorkItems = {"b", "w", "q"}
    Runs = {r1, r2, r3, r4}
    Decisions = {"dq"}
    Operation <- MCOperation
    DependsOn <- MCDependsOn
    DecisionIds <- MCDecisionIds
    Predecessor <- MCPredecessor
    Additive <- MCAdditive
    MaxRevision = 2
    None = None
INVARIANTS
    QueuedRunCancels
SYMMETRY RunSymmetry
CHECK_DEADLOCK FALSE
