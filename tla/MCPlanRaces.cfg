SPECIFICATION Spec
CONSTANTS
    Input = {reqs}
    Unreadable = {}
    Planner = {w1, w2}
    PlanPopBatch = 1
    PlanPoolSize = 1
    Faults = TRUE
    UsersAct = TRUE
    EnqueueBound = 2
    PlanBound = 2
SYMMETRY Symmetry
INVARIANTS
    TypeOK
    PlannedAtMostOnce
