SPECIFICATION Spec
CONSTANTS
    None = None
    Inf = 100
    Reach = 2
    Models <- MCModels
    Gap = 1
    MaxFaults = 2
    PolicyTasks <- MCPolicyTasks
    RepairTasks <- MCRepairTasks
    PlanTasks <- MCPlanTasks
    MaxCompilations = 4
INVARIANTS
    TrustedBackendIsBase
    FailuresHaveACause
    StagesLexicographic
    DeadlineShared
    RepairExact
    HonestRepairReported
    PlanExact
