------------------------------ MODULE PlanQueue ------------------------------
(***************************************************************************)
(* From an uploaded file to a saved plan: the pending_inputs, plans and    *)
(* plan_metadata tables, the Redis list of input ids waiting to be planned *)
(* (queue/planqueue.go), the handlers of api/handlers.go that use them and *)
(* the planner loop of the workers (service/planner.go).                   *)
(*                                                                         *)
(* None of the handlers is a transaction.  An action is one statement on   *)
(* one store: a handler that pushes an id and then updates a row is two    *)
(* actions, and anything may happen between them.                          *)
(*                                                                         *)
(* Inputs are abstracted to their status and deleted_at, plans to the      *)
(* input they were computed from, build_status to the plans whose builds   *)
(* were enqueued (module BuildQueue has the rest).                         *)
(***************************************************************************)
EXTENDS Integers, Sequences, FiniteSets, SequencesExt

CONSTANTS
    Input,          \* ids of pending inputs
    Unreadable,     \* inputs inputSetFromPending makes nothing of
    Planner,        \* planner loops, one per worker
    PlanPopBatch,   \* PLAN_POP_BATCH
    PlanPoolSize,   \* PLAN_POOL_SIZE
    Faults,         \* requests and statements may fail, planners may die
    UsersAct,       \* users clear, delete, restore and enqueue the builds of a plan
    EnqueueBound,   \* bound: how often an input is enqueued
    PlanBound       \* bound: how many plans are saved

ASSUME PlanQueueAssumption ==
    /\ Unreadable \subseteq Input
    /\ PlanPopBatch \in Nat \ {0}
    /\ PlanPoolSize \in Nat \ {0}
    /\ Faults \in BOOLEAN
    /\ UsersAct \in BOOLEAN
    /\ EnqueueBound \in Nat
    /\ PlanBound \in Nat

VARIABLES
    status,     \* pending_inputs.status of each input; "none": no row yet
    deleted,    \* inputs with deleted_at set: hidden from every list
    planQ,      \* the Redis list
    marking,    \* input -> handlers that enqueued it and owe it "planning"
    pc,         \* where each planner is: pop, mark, list, run
    batch,      \* the ids a planner popped, each with how far its goroutine is
    planOf,     \* plans ever saved: plan id -> the input it was computed from
    plans,      \* ids in the plans table
    links,      \* plan_metadata: <<input, plan id>>
    builds,     \* plans whose builds were enqueued
    clearing,   \* the planQueueClear handler: its step and the ids it listed
    deleting,   \* the DELETE /api/plans handler: its step and its plan (0: all)
    owes,       \* enqueue-builds handlers: the status they owe a plan's inputs
    enqueued,   \* how often each input was pushed on the list
    faulty      \* whether anything fails in this behaviour

inputVars == <<status, deleted, planQ, marking, enqueued>>
plannerVars == <<pc, batch>>
planVars == <<planOf, plans, links, builds>>
userVars == <<clearing, deleting, owes>>
vars == <<inputVars, plannerVars, planVars, userVars, faulty>>

InputStatus == {"none", "pending", "planning", "planned", "failed", "queued",
                "build_queued", "deleted"}

(* How far one id of a batch is: popped from the list, marked as planning
   by the pop handler, known to the planner, its plan computed or failed,
   and through the statements of POST /api/plan to done.                   *)
Stage == {"popped", "marked", "listed", "computed", "failed", "post", "saved",
          "linked", "autobuild", "queued", "done"}
Entry == [id : Input, stage : Stage, plan : 0..PlanBound]

Visible(i) == status[i] # "none" /\ i \notin deleted

(* UpdatePendingInputStatus: no condition on the row, not even on
   deleted_at; nothing happens when there is no row.                       *)
SetStatus(i, s) ==
    status' = IF status[i] = "none" THEN status ELSE [status EXCEPT ![i] = s]

(* A request or a statement whose failure the code ignores or only logs.   *)
MayFail(effect, v) == effect \/ (faulty /\ UNCHANGED v)

-----------------------------------------------------------------------------
(* Uploads and enqueues.                                                   *)

(* requirementsUpload, wheelsUpload: AddPendingInput.  With AUTO_PLAN the
   handler goes on with Enqueue.                                           *)
Upload(i) ==
    /\ status[i] = "none"
    /\ status' = [status EXCEPT ![i] = "pending"]
    /\ UNCHANGED <<deleted, planQ, marking, enqueued, plannerVars, planVars, userVars, faulty>>

(* The end of an upload and POST .../enqueue-plan: push the id, whatever
   its row says; the status follows in MarkEnqueued.                       *)
Enqueue(i) ==
    /\ status[i] # "none"
    /\ enqueued[i] < EnqueueBound
    /\ planQ' = Append(planQ, i)
    /\ enqueued' = [enqueued EXCEPT ![i] = @ + 1]
    /\ marking' = [marking EXCEPT ![i] = @ + 1]
    /\ UNCHANGED <<status, deleted, plannerVars, planVars, userVars, faulty>>

(* An upload ignores that the push failed; enqueue-plan answers 500.       *)
EnqueueFails(i) ==
    /\ faulty
    /\ status[i] = "pending" /\ marking[i] = 0 /\ enqueued[i] = 0
    /\ marking' = [marking EXCEPT ![i] = @ + 1]
    /\ UNCHANGED <<status, deleted, planQ, enqueued, plannerVars, planVars, userVars, faulty>>

MarkEnqueued(i) ==
    /\ marking[i] > 0
    /\ marking' = [marking EXCEPT ![i] = @ - 1]
    /\ MayFail(SetStatus(i, "planning"), status)
    /\ UNCHANGED <<deleted, planQ, enqueued, plannerVars, planVars, userVars, faulty>>

-----------------------------------------------------------------------------
(* The planner.                                                            *)

SetStage(p, n, s) == batch' = [batch EXCEPT ![p][n].stage = s]

At(p, n, s) == n \in DOMAIN batch[p] /\ batch[p][n].stage = s

(* Mutant of LPop: the head is read but not removed.                       *)
LPop_Peek(p) ==
    /\ pc[p] = "pop" /\ planQ # <<>> /\ Len(batch[p]) < PlanPopBatch
    /\ batch' = [batch EXCEPT ![p] = Append(@, [id |-> Head(planQ), stage |-> "popped", plan |-> 0])]
    /\ UNCHANGED <<inputVars, pc, planVars, userVars, faulty>>

(* One LPOP of PlanQueue.Pop.                                              *)
LPop(p) ==
    /\ pc[p] = "pop"
    /\ planQ # <<>>
    /\ Len(batch[p]) < PlanPopBatch
    /\ planQ' = Tail(planQ)
    /\ batch' = [batch EXCEPT ![p] = Append(@, [id |-> Head(planQ), stage |-> "popped", plan |-> 0])]
    /\ UNCHANGED <<status, deleted, marking, enqueued, pc, planVars, userVars, faulty>>

(* The list is empty or the batch full: the pop handler turns to the rows. *)
PopEnds(p) ==
    /\ pc[p] = "pop"
    /\ batch[p] # <<>>
    /\ planQ = <<>> \/ Len(batch[p]) = PlanPopBatch
    /\ pc' = [pc EXCEPT ![p] = "mark"]
    /\ UNCHANGED <<inputVars, batch, planVars, userVars, faulty>>

(* An empty list: the planner sleeps and asks again.                       *)
PopNothing(p) ==
    /\ pc[p] = "pop"
    /\ batch[p] = <<>> /\ planQ = <<>>
    /\ UNCHANGED vars

(* pendingInputPop: "planning" for each id, in the order of the batch.     *)
MarkPopped(p, n) ==
    /\ pc[p] = "mark"
    /\ At(p, n, "popped") /\ \A m \in 1..(n-1) : ~At(p, m, "popped")
    /\ MayFail(SetStatus(batch[p][n].id, "planning"), status)
    /\ SetStage(p, n, "marked")
    /\ UNCHANGED <<deleted, planQ, marking, enqueued, pc, planVars, userVars, faulty>>

(* The ids arrive at the planner.                                          *)
PopReturns(p) ==
    /\ pc[p] = "mark"
    /\ \A n \in DOMAIN batch[p] : At(p, n, "marked")
    /\ pc' = [pc EXCEPT ![p] = "list"]
    /\ UNCHANGED <<inputVars, batch, planVars, userVars, faulty>>

(* Mutant of Listed: only inputs still in "pending" are listed.            *)
Listed_Pending(e) == [e EXCEPT !.stage = IF Visible(e.id) /\ status[e.id] = "pending"
                                         THEN "listed" ELSE "done"]

(* An id the planner finds in the list, or does not find and only logs.    *)
Listed(e) == [e EXCEPT !.stage = IF Visible(e.id) THEN "listed" ELSE "done"]

Dropped(e) == [e EXCEPT !.stage = "done"]

(* fetchPendingMap.  When the request fails the map is empty and the whole
   batch is dropped.                                                       *)
FetchPendingMap(p) ==
    /\ pc[p] = "list"
    /\ \/ batch' = [batch EXCEPT ![p] = [n \in DOMAIN @ |-> Listed(@[n])]]
       \/ faulty /\ batch' = [batch EXCEPT ![p] = [n \in DOMAIN @ |-> Dropped(@[n])]]
    /\ pc' = [pc EXCEPT ![p] = "run"]
    /\ UNCHANGED <<inputVars, planVars, userVars, faulty>>

Busy(p) == {n \in DOMAIN batch[p] : batch[p][n].stage \notin {"listed", "done"}}

(* Mutant of PlanOne: an input that cannot be read waits for another try.  *)
PlanOne_Waits(p, n) ==
    /\ pc[p] = "run"
    /\ At(p, n, "listed") /\ \A m \in 1..(n-1) : ~At(p, m, "listed")
    /\ Cardinality(Busy(p)) < PlanPoolSize
    /\ batch[p][n].id \notin Unreadable
    /\ \E s \in {"computed", "failed"} : SetStage(p, n, s)
    /\ UNCHANGED <<inputVars, pc, planVars, userVars, faulty>>

(* planOne in a slot of the errgroup: an input that cannot be read (or
   fetched) ends the goroutine with a log line and no status; otherwise
   GenerateFromInputs succeeds or fails.                                   *)
PlanOne(p, n) ==
    /\ pc[p] = "run"
    /\ At(p, n, "listed") /\ \A m \in 1..(n-1) : ~At(p, m, "listed")
    /\ Cardinality(Busy(p)) < PlanPoolSize
    /\ \E s \in {"computed", "failed", "done"} :
          /\ batch[p][n].id \in Unreadable => s = "done"
          /\ s = "done" => batch[p][n].id \in Unreadable \/ faulty
          /\ SetStage(p, n, s)
    /\ UNCHANGED <<inputVars, pc, planVars, userVars, faulty>>

(* updatePendingStatus: "planned" before the plan is posted, or "failed".  *)
ReportPlanned(p, n) ==
    /\ At(p, n, "computed")
    /\ MayFail(SetStatus(batch[p][n].id, "planned"), status)
    /\ SetStage(p, n, "post")
    /\ UNCHANGED <<deleted, planQ, marking, enqueued, pc, planVars, userVars, faulty>>

ReportFailed(p, n) ==
    /\ At(p, n, "failed")
    /\ MayFail(SetStatus(batch[p][n].id, "failed"), status)
    /\ SetStage(p, n, "done")
    /\ UNCHANGED <<deleted, planQ, marking, enqueued, pc, planVars, userVars, faulty>>

(* POST /api/plan, statement by statement.                                 *)
SavePlan(p, n) ==
    /\ At(p, n, "post")
    /\ Len(planOf) < PlanBound
    /\ planOf' = Append(planOf, batch[p][n].id)
    /\ plans' = plans \cup {Len(planOf) + 1}
    /\ batch' = [batch EXCEPT ![p][n] = [@ EXCEPT !.stage = "saved", !.plan = Len(planOf) + 1]]
    /\ UNCHANGED <<inputVars, pc, links, builds, userVars, faulty>>

(* LinkPlanToPendingInput: the foreign key refuses a plan that was deleted
   meanwhile, and the handler answers 500.                                 *)
LinkPlanToPendingInput(p, n) ==
    LET e == batch[p][n] IN
    /\ At(p, n, "saved")
    /\ \/ /\ e.plan \in plans
          /\ links' = links \cup {<<e.id, e.plan>>}
          /\ SetStage(p, n, "linked")
       \/ /\ e.plan \notin plans
          /\ SetStage(p, n, "done")
          /\ UNCHANGED links
    /\ UNCHANGED <<inputVars, pc, planOf, plans, builds, userVars, faulty>>

(* The status again, and with AUTO_BUILD (a setting that can change at any
   time) on to the builds.                                                 *)
MarkPlanned(p, n) ==
    /\ At(p, n, "linked")
    /\ MayFail(SetStatus(batch[p][n].id, "planned"), status)
    /\ \E auto \in BOOLEAN : SetStage(p, n, IF auto THEN "autobuild" ELSE "done")
    /\ UNCHANGED <<deleted, planQ, marking, enqueued, pc, planVars, userVars, faulty>>

(* QueueBuildsFromPlan, its error ignored.                                 *)
AutoBuild(p, n) ==
    /\ At(p, n, "autobuild")
    /\ MayFail(builds' = builds \cup {batch[p][n].plan}, builds)
    /\ SetStage(p, n, "queued")
    /\ UNCHANGED <<inputVars, pc, planOf, plans, links, userVars, faulty>>

MarkQueued(p, n) ==
    /\ At(p, n, "queued")
    /\ MayFail(SetStatus(batch[p][n].id, "queued"), status)
    /\ SetStage(p, n, "done")
    /\ UNCHANGED <<deleted, planQ, marking, enqueued, pc, planVars, userVars, faulty>>

(* POST /api/plan fails or its connection breaks: what is left of it does
   not happen, and planOne only logs the error.                            *)
PostFails(p, n) ==
    /\ faulty
    /\ n \in DOMAIN batch[p]
    /\ batch[p][n].stage \in {"post", "saved", "linked", "autobuild", "queued"}
    /\ SetStage(p, n, "done")
    /\ UNCHANGED <<inputVars, pc, planVars, userVars, faulty>>

Done(p) == \A n \in DOMAIN batch[p] : At(p, n, "done")

(* g.Wait returns and the loop pops again.                                 *)
BatchDone(p) ==
    /\ pc[p] = "run"
    /\ Done(p)
    /\ pc' = [pc EXCEPT ![p] = "pop"]
    /\ batch' = [batch EXCEPT ![p] = <<>>]
    /\ UNCHANGED <<inputVars, planVars, userVars, faulty>>

(* A Redis error in the middle of a pop, an answer that does not arrive, or
   the worker dies: the ids it had popped are gone from the list.          *)
LoseBatch(p) ==
    /\ faulty
    /\ batch[p] # <<>>
    /\ pc' = [pc EXCEPT ![p] = "pop"]
    /\ batch' = [batch EXCEPT ![p] = <<>>]
    /\ UNCHANGED <<inputVars, planVars, userVars, faulty>>

-----------------------------------------------------------------------------
(* What users do to inputs, plans and the queue.                           *)

(* planQueueClear: LRANGE, then DEL, then "pending" for each id listed.    *)
ClearList ==
    /\ UsersAct
    /\ clearing.step = "idle" /\ planQ # <<>>
    /\ clearing' = [step |-> "listed", ids |-> ToSet(planQ)]
    /\ UNCHANGED <<inputVars, plannerVars, planVars, deleting, owes, faulty>>

ClearDel ==
    /\ clearing.step = "listed"
    /\ planQ' = <<>>
    /\ clearing' = [clearing EXCEPT !.step = "reset"]
    /\ UNCHANGED <<status, deleted, marking, enqueued, plannerVars, planVars, deleting, owes, faulty>>

ClearReset(i) ==
    /\ clearing.step = "reset" /\ i \in clearing.ids
    /\ SetStatus(i, "pending")
    /\ clearing' = [step |-> IF clearing.ids = {i} THEN "idle" ELSE "reset",
                    ids  |-> clearing.ids \ {i}]
    /\ UNCHANGED <<deleted, planQ, marking, enqueued, plannerVars, planVars, deleting, owes, faulty>>

(* DELETE of one input, or of each that pendingInputsClear listed.         *)
DeletePendingInput(i) ==
    /\ UsersAct
    /\ status[i] # "none" /\ i \notin deleted
    /\ status' = [status EXCEPT ![i] = "deleted"]
    /\ deleted' = deleted \cup {i}
    /\ UNCHANGED <<planQ, marking, enqueued, plannerVars, planVars, userVars, faulty>>

(* POST .../restore, of any row: back to pending, even while it is queued
   or being planned.                                                       *)
RestorePendingInput(i) ==
    /\ UsersAct
    /\ status[i] # "none"
    /\ status' = [status EXCEPT ![i] = "pending"]
    /\ deleted' = deleted \ {i}
    /\ UNCHANGED <<planQ, marking, enqueued, plannerVars, planVars, userVars, faulty>>

(* UpdatePendingInputsForPlan, for plan x or, with 0, for every plan.      *)
LinkedTo(x) == {i \in Input \ deleted : \E l \in links : l[1] = i /\ x \in {0, l[2]}}

SetStatusForPlan(x, s) ==
    status' = [i \in Input |-> IF i \in LinkedTo(x) THEN s ELSE status[i]]

(* POST /api/plan/{id}/enqueue-builds and enqueue-build: the builds, then
   "queued" for the inputs linked to the plan and, when there was none,
   another try with "build_queued".                                        *)
EnqueueBuilds(x) ==
    /\ UsersAct
    /\ x \in plans
    /\ owes[x] = "nothing"
    /\ builds' = builds \cup {x}
    /\ owes' = [owes EXCEPT ![x] = "queued"]
    /\ UNCHANGED <<inputVars, plannerVars, planOf, plans, links, clearing, deleting, faulty>>

MarkBuildsQueued(x) ==
    /\ owes[x] # "nothing"
    /\ \/ /\ SetStatusForPlan(x, owes[x])
          /\ owes' = [owes EXCEPT ![x] = IF @ = "queued" /\ LinkedTo(x) = {}
                                         THEN "build_queued" ELSE "nothing"]
       \/ /\ faulty
          /\ owes' = [owes EXCEPT ![x] = "nothing"]
          /\ UNCHANGED status
    /\ UNCHANGED <<deleted, planQ, marking, enqueued, plannerVars, planVars, clearing, deleting, faulty>>

(* DELETE /api/plans of plan x, or of all: reset the inputs, unlink, delete. *)
ResetInputs(x) ==
    /\ UsersAct
    /\ deleting.step = "idle"
    /\ plans # {}
    /\ x \in plans \cup {0}
    /\ SetStatusForPlan(x, "pending")
    /\ deleting' = [step |-> "unlink", plan |-> x]
    /\ UNCHANGED <<deleted, planQ, marking, enqueued, plannerVars, planVars, clearing, owes, faulty>>

DeleteMetadata ==
    /\ deleting.step = "unlink"
    /\ links' = {l \in links : deleting.plan \notin {0, l[2]}}
    /\ deleting' = [deleting EXCEPT !.step = "delete"]
    /\ UNCHANGED <<inputVars, plannerVars, planOf, plans, builds, clearing, owes, faulty>>

(* Mutant of DeletePlans: no foreign key on plan_metadata.                 *)
DeletePlans_NoForeignKey ==
    LET doomed == IF deleting.plan = 0 THEN plans ELSE {deleting.plan} IN
    /\ deleting.step = "delete"
    /\ plans' = plans \ doomed
    /\ deleting' = [step |-> "idle", plan |-> 0]
    /\ UNCHANGED <<inputVars, plannerVars, planOf, links, builds, clearing, owes, faulty>>

(* The foreign key refuses to delete a plan that was linked meanwhile.     *)
DeletePlans ==
    LET doomed == IF deleting.plan = 0 THEN plans ELSE {deleting.plan} IN
    /\ deleting.step = "delete"
    /\ plans' = IF \E l \in links : l[2] \in doomed THEN plans ELSE plans \ doomed
    /\ deleting' = [step |-> "idle", plan |-> 0]
    /\ UNCHANGED <<inputVars, plannerVars, planOf, links, builds, clearing, owes, faulty>>

-----------------------------------------------------------------------------
Init ==
    /\ status = [i \in Input |-> "none"]
    /\ deleted = {}
    /\ planQ = <<>>
    /\ marking = [i \in Input |-> 0]
    /\ pc = [p \in Planner |-> "pop"]
    /\ batch = [p \in Planner |-> <<>>]
    /\ planOf = <<>>
    /\ plans = {}
    /\ links = {}
    /\ builds = {}
    /\ clearing = [step |-> "idle", ids |-> {}]
    /\ deleting = [step |-> "idle", plan |-> 0]
    /\ owes = [x \in 1..PlanBound |-> "nothing"]
    /\ enqueued = [i \in Input |-> 0]
    /\ faulty \in {FALSE, Faults}

(* Steps a handler or a planner takes once it has begun.                   *)
HandlerStep ==
    \/ \E i \in Input : MarkEnqueued(i) \/ ClearReset(i)
    \/ \E x \in 1..PlanBound : MarkBuildsQueued(x)
    \/ ClearDel \/ DeleteMetadata \/ DeletePlans

GoroutineStep(p, n) ==
    \/ PlanOne(p, n) \/ ReportPlanned(p, n) \/ ReportFailed(p, n)
    \/ SavePlan(p, n) \/ LinkPlanToPendingInput(p, n) \/ MarkPlanned(p, n)
    \/ AutoBuild(p, n) \/ MarkQueued(p, n)

PlannerStep(p) ==
    \/ LPop(p) \/ PopEnds(p) \/ PopNothing(p) \/ PopReturns(p) \/ FetchPendingMap(p) \/ BatchDone(p)
    \/ \E n \in 1..PlanPopBatch : MarkPopped(p, n) \/ GoroutineStep(p, n)

UserStep ==
    \/ \E i \in Input : \/ Upload(i) \/ Enqueue(i) \/ EnqueueFails(i)
                        \/ DeletePendingInput(i) \/ RestorePendingInput(i)
    \/ ClearList
    \/ \E x \in 1..PlanBound : EnqueueBuilds(x)
    \/ \E x \in 0..PlanBound : ResetInputs(x)

Failure ==
    \E p \in Planner : LoseBatch(p) \/ \E n \in 1..PlanPopBatch : PostFails(p, n)

Next == UserStep \/ HandlerStep \/ Failure \/ \E p \in Planner : PlannerStep(p)

Spec == Init /\ [][Next]_vars

(***************************************************************************)
(* Handlers run to their end, and so do planners: the requests of          *)
(* planner.go go through http.Clients with timeouts, and the loop only     *)
(* sleeps between pops.  Users owe nothing.                                *)
(***************************************************************************)
FairSpec ==
    /\ Spec
    /\ WF_vars(HandlerStep)
    /\ \A p \in Planner : WF_vars(PlannerStep(p))

-----------------------------------------------------------------------------
(* Properties.                                                             *)

(* Type invariant of the tables, the list and the planners; plan_metadata
   links only plans that exist.                                            *)
TypeOK ==
    /\ status \in [Input -> InputStatus]
    /\ deleted \subseteq Input
    /\ planQ \in Seq(Input)
    /\ marking \in [Input -> Nat]
    /\ pc \in [Planner -> {"pop", "mark", "list", "run"}]
    /\ \A p \in Planner : batch[p] \in Seq(Entry) /\ Len(batch[p]) <= PlanPopBatch
    /\ planOf \in Seq(Input)
    /\ plans \subseteq DOMAIN planOf /\ builds \subseteq DOMAIN planOf
    /\ links \subseteq Input \X plans
    /\ clearing \in [step : {"idle", "listed", "reset"}, ids : SUBSET Input]
    /\ deleting \in [step : {"idle", "unlink", "delete"}, plan : 0..PlanBound]
    /\ owes \in [1..PlanBound -> {"nothing", "queued", "build_queued"}]
    /\ enqueued \in [Input -> Nat]
    /\ faulty \in BOOLEAN

(* Entries on the list, and entries in a batch that can still save a plan. *)
Waiting(i) == {n \in DOMAIN planQ : planQ[n] = i}

UnderWay(i) ==
    {x \in Planner \X (1..PlanPopBatch) :
        /\ x[2] \in DOMAIN batch[x[1]]
        /\ LET e == batch[x[1]][x[2]] IN e.id = i /\ e.plan = 0 /\ e.stage # "done"}

Saved(i) == {x \in DOMAIN planOf : planOf[x] = i}

(* An enqueue is planned at most once: over all planners, and with clears,
   lost answers and restarts in between, the plans saved from an input and
   the entries that can still become one are never more than its enqueues. *)
PlannedAtMostOnce ==
    \A i \in Input :
        Cardinality(Waiting(i)) + Cardinality(UnderWay(i)) + Cardinality(Saved(i))
            <= enqueued[i]

(* The list is served: an input that cannot be read, a failed request or a
   dead planner never keeps the entries behind it from being popped.       *)
ListServed == planQ # <<>> ~> planQ = <<>>

(* Where nothing fails or is cleared, an input on the list that is not
   deleted ends with a plan linked to it or as failed, if it can be read at
   all; the planner's list request cannot miss it and no duplicate entry or
   late status update gets in the way.                                     *)
QueuedIsPlanned ==
    \A i \in Input \ Unreadable :
        (~faulty /\ Waiting(i) # {} /\ Visible(i))
            ~> (status[i] = "failed" \/ \E x \in plans : <<i, x>> \in links)
=============================================================================
