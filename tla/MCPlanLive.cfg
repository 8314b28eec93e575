SPECIFICATION FairSpec
CONSTANTS
    Input = {reqs, wheel}
    Unreadable = {wheel}
    Planner = {w1}
    PlanPopBatch = 2
    PlanPoolSize = 1
    Faults = TRUE
    UsersAct = FALSE
    EnqueueBound = 2
    PlanBound = 2
PROPERTIES
    ListServed
    QueuedIsPlanned
