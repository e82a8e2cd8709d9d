SPECIFICATION SSpec
CONSTANTS
    Requests = {r1}
    Workspaces = {"main", "wt"}
    MainRoot <- MCMainRoot
    mcp_index_wait = 2
    TriggerCapacity = 1
    sub_query_budget = 1
    MaxRuns = 1
INVARIANTS
    NoFalseEmpty
    WaitBudget
PROPERTIES
    RequestAnswered
CHECK_DEADLOCK FALSE
