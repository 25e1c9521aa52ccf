SPECIFICATION Spec
CONSTANTS
    Timeout = 8
    Deadlines <- MCDeadlines
    Policies <- MCPolicies
INVARIANTS
    TimeoutIsLongestFit
    OperationsEndInTime
