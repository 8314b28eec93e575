--------------------------- MODULE PlanQueueProofs ---------------------------
(***************************************************************************)
(* For any number of inputs and planners and any sizes of batch and pool:  *)
(* the tables, the list and the planners keep their types, plan_metadata   *)
(* links only plans that exist, and an enqueue is planned at most once.    *)
(*                                                                         *)
(* PlannedAtMostOnce counts entries that can still save a plan by their    *)
(* plan being 0; what makes it inductive is that an entry has no plan      *)
(* before SavePlan and has one after it (GoodEntry), and that a batch is   *)
(* only listed when all of it is marked: no stage is ever taken twice.     *)
(***************************************************************************)
EXTENDS PlanQueue, FiniteSetTheorems, SequenceTheorems, TLAPS

Before == {"popped", "marked", "listed", "computed", "failed", "post"}
After == {"saved", "linked", "autobuild", "queued"}

GoodEntry(e, k) ==
    /\ e \in Entry /\ e.plan \in 0..k
    /\ e.stage \in Before => e.plan = 0
    /\ e.stage \in After => e.plan # 0

GoodBatch(b, k) ==
    /\ b \in Seq(Entry) /\ Len(b) <= PlanPopBatch
    /\ \A n \in 1..Len(b) : GoodEntry(b[n], k)

InputInv ==
    /\ status \in [Input -> InputStatus]
    /\ deleted \in SUBSET Input
    /\ planQ \in Seq(Input)
    /\ marking \in [Input -> Nat]
    /\ enqueued \in [Input -> Nat]

PlannerInv ==
    /\ pc \in [Planner -> {"pop", "mark", "list", "run"}]
    /\ batch = [p \in Planner |-> batch[p]]
    /\ \A p \in Planner : GoodBatch(batch[p], Len(planOf))
    /\ \A p \in Planner : pc[p] = "list" => \A n \in DOMAIN batch[p] : batch[p][n].stage = "marked"

TablesInv ==
    /\ planOf \in Seq(Input) /\ Len(planOf) <= PlanBound
    /\ plans \in SUBSET (1..Len(planOf)) /\ builds \in SUBSET (1..Len(planOf))
    /\ links \in SUBSET (Input \X plans)

HandlerInv ==
    /\ clearing \in [step : {"idle", "listed", "reset"}, ids : SUBSET Input]
    /\ deleting \in [step : {"idle", "unlink", "delete"}, plan : 0..PlanBound]
    /\ owes \in [1..PlanBound -> {"nothing", "queued", "build_queued"}]

CountInv ==
    \A i \in Input :
        /\ IsFiniteSet(Waiting(i)) /\ IsFiniteSet(UnderWay(i)) /\ IsFiniteSet(Saved(i))
        /\ Cardinality(Waiting(i)) + Cardinality(UnderWay(i)) + Cardinality(Saved(i)) <= enqueued[i]

PlanInv == InputInv /\ PlannerInv /\ TablesInv /\ HandlerInv /\ CountInv

-----------------------------------------------------------------------------
(* Lemmas.                                                                 *)

(* UpdatePendingInputStatus leaves a table of statuses.                    *)
LEMMA SetStatusType ==
    ASSUME status \in [Input -> InputStatus], NEW i \in Input, NEW s \in InputStatus,
           MayFail(SetStatus(i, s), status)
    PROVE  status' \in [Input -> InputStatus]
BY DEF MayFail, SetStatus

(* So does UpdatePendingInputsForPlan.                                     *)
LEMMA SetStatusForPlanType ==
    ASSUME status \in [Input -> InputStatus], NEW x, NEW s \in InputStatus,
           SetStatusForPlan(x, s)
    PROVE  status' \in [Input -> InputStatus]
BY DEF SetStatusForPlan

(* An entry moved to another stage on the same side of SavePlan, or to
   done, is a good one.                                                    *)
LEMMA RestageEntry ==
    ASSUME NEW k \in Nat, NEW e, GoodEntry(e, k), NEW s \in Stage,
           s \in Before => e.stage \in Before,
           s \in After => e.stage \in After
    PROVE  /\ GoodEntry([e EXCEPT !.stage = s], k)
           /\ [e EXCEPT !.stage = s].id = e.id
           /\ [e EXCEPT !.stage = s].plan = e.plan
           /\ [e EXCEPT !.stage = s].stage = s
<1>1. e \in Entry
  BY DEF GoodEntry
<1>2. /\ [e EXCEPT !.stage = s] \in Entry
      /\ [e EXCEPT !.stage = s].id = e.id
      /\ [e EXCEPT !.stage = s].plan = e.plan
      /\ [e EXCEPT !.stage = s].stage = s
  BY <1>1 DEF Entry
<1> QED
  BY <1>1, <1>2 DEF GoodEntry

LEMMA RestageBatch ==
    ASSUME NEW k \in Nat, NEW b, GoodBatch(b, k), NEW n \in DOMAIN b, NEW s \in Stage,
           s \in Before => b[n].stage \in Before,
           s \in After => b[n].stage \in After,
           NEW c, c = [b EXCEPT ![n].stage = s]
    PROVE  /\ GoodBatch(c, k) /\ DOMAIN c = DOMAIN b
           /\ \A m \in DOMAIN b : c[m].id = b[m].id /\ c[m].plan = b[m].plan
           /\ \A m \in DOMAIN b : m # n => c[m] = b[m]
           /\ c[n].stage = s
<1> DEFINE e == [b[n] EXCEPT !.stage = s]
<1>1. b \in Seq(Entry) /\ n \in 1..Len(b) /\ DOMAIN b = 1..Len(b) /\ GoodEntry(b[n], k)
  BY DEF GoodBatch
<1>2. c = [b EXCEPT ![n] = e]
  OBVIOUS
<1>3. GoodEntry(e, k) /\ e.id = b[n].id /\ e.plan = b[n].plan /\ e.stage = s
  BY <1>1, RestageEntry
<1>4. e \in Entry
  BY <1>3 DEF GoodEntry
<1> HIDE DEF e
<1>5. c \in Seq(Entry) /\ Len(c) = Len(b)
      /\ \A m \in 1..Len(b) : c[m] = IF m = n THEN e ELSE b[m]
  BY <1>1, <1>2, <1>4, ExceptSeq
<1>6. GoodBatch(c, k)
  BY <1>1, <1>3, <1>5 DEF GoodBatch
<1> QED
  BY <1>1, <1>3, <1>5, <1>6

(* More plans do not spoil a batch.                                        *)
LEMMA GoodBatchGrows ==
    ASSUME NEW k \in Nat, NEW l \in Nat, k <= l, NEW b, GoodBatch(b, k)
    PROVE  GoodBatch(b, l)
BY DEF GoodBatch, GoodEntry

(* Entries may go from the list and from the batches at any time.          *)
LEMMA FewerEntries ==
    ASSUME CountInv, InputInv, enqueued' = enqueued, planOf' = planOf,
           \A i \in Input : Waiting(i)' \subseteq Waiting(i),
           \A i \in Input : UnderWay(i)' \subseteq UnderWay(i)
    PROVE  CountInv'
<1> SUFFICES ASSUME NEW i \in Input
             PROVE  /\ IsFiniteSet(Waiting(i)') /\ IsFiniteSet(UnderWay(i)')
                    /\ IsFiniteSet(Saved(i)')
                    /\ Cardinality(Waiting(i)') + Cardinality(UnderWay(i)')
                         + Cardinality(Saved(i)') <= enqueued'[i]
  BY DEF CountInv
<1>1. Saved(i)' = Saved(i)
  BY DEF Saved
<1>2. /\ IsFiniteSet(Waiting(i)) /\ IsFiniteSet(UnderWay(i)) /\ IsFiniteSet(Saved(i))
      /\ Cardinality(Waiting(i)) + Cardinality(UnderWay(i)) + Cardinality(Saved(i)) <= enqueued[i]
      /\ enqueued[i] \in Nat
  BY DEF CountInv, InputInv
<1>3. IsFiniteSet(Waiting(i)') /\ Cardinality(Waiting(i)') <= Cardinality(Waiting(i))
  BY <1>2, FS_Subset
<1>4. IsFiniteSet(UnderWay(i)') /\ Cardinality(UnderWay(i)') <= Cardinality(UnderWay(i))
  BY <1>2, FS_Subset
<1>5. /\ Cardinality(Waiting(i)) \in Nat /\ Cardinality(UnderWay(i)) \in Nat
      /\ Cardinality(Saved(i)) \in Nat
      /\ Cardinality(Waiting(i)') \in Nat /\ Cardinality(UnderWay(i)') \in Nat
  BY <1>2, <1>3, <1>4, FS_CardinalityType
<1> QED
  BY <1>1, <1>2, <1>3, <1>4, <1>5

(* What is counted depends on the list, the batches, the plans and the
   enqueues only.                                                          *)
LEMMA SameEntries ==
    ASSUME CountInv, InputInv, UNCHANGED <<enqueued, planOf, planQ, batch>>
    PROVE  CountInv'
BY FewerEntries DEF Waiting, UnderWay

(* A step of one goroutine that saves no plan: it leaves the planners in
   order and no entry counts that did not count before.                    *)
LEMMA RestageStep ==
    ASSUME InputInv, PlannerInv, TablesInv, CountInv,
           NEW p \in Planner, NEW n, NEW s \in Stage, n \in DOMAIN batch[p],
           batch[p][n].stage \notin {"marked", "done"},
           s \in Before => batch[p][n].stage \in Before,
           s \in After => batch[p][n].stage \in After,
           SetStage(p, n, s),
           UNCHANGED <<pc, planQ, enqueued, planOf>>
    PROVE  PlannerInv' /\ CountInv'
<1> DEFINE b == batch[p]
           c == [b EXCEPT ![n].stage = s]
<1>1. GoodBatch(b, Len(planOf)) /\ Len(planOf) \in Nat
  BY DEF PlannerInv, TablesInv
<1>2. /\ GoodBatch(c, Len(planOf)) /\ DOMAIN c = DOMAIN b
      /\ \A m \in DOMAIN b : c[m].id = b[m].id /\ c[m].plan = b[m].plan
      /\ \A m \in DOMAIN b : m # n => c[m] = b[m]
  BY <1>1, RestageBatch
<1>3. batch' = [q \in Planner |-> IF q = p THEN c ELSE batch[q]]
  BY DEF SetStage, PlannerInv
<1> HIDE DEF c
<1>4. pc[p] # "list"
  BY DEF PlannerInv
<1>5. PlannerInv'
  BY <1>2, <1>3, <1>4 DEF PlannerInv
<1>6. \A i \in Input : UnderWay(i)' \subseteq UnderWay(i)
  <2> SUFFICES ASSUME NEW i \in Input, NEW x \in UnderWay(i)'
               PROVE  x \in UnderWay(i)
    OBVIOUS
  <2>1. /\ x \in Planner \X (1..PlanPopBatch) /\ x[1] \in Planner
        /\ x[2] \in DOMAIN batch'[x[1]]
        /\ batch'[x[1]][x[2]].id = i /\ batch'[x[1]][x[2]].plan = 0
        /\ batch'[x[1]][x[2]].stage # "done"
    BY DEF UnderWay
  <2>2. CASE x[1] = p
    BY <1>2, <1>3, <2>1, <2>2 DEF UnderWay
  <2>3. CASE x[1] # p
    BY <1>3, <2>1, <2>3 DEF UnderWay
  <2> QED
    BY <2>2, <2>3
<1>7. \A i \in Input : Waiting(i)' \subseteq Waiting(i)
  BY DEF Waiting
<1>8. CountInv'
  BY <1>6, <1>7, FewerEntries
<1> QED
  BY <1>5, <1>8

-----------------------------------------------------------------------------
(* The invariant holds at the start.                                       *)
LEMMA PlanInitInv == Init => PlanInv
<1> SUFFICES ASSUME Init PROVE PlanInv
  OBVIOUS
<1> USE PlanQueueAssumption
<1>1. InputInv
  BY DEF Init, InputInv, InputStatus
<1>2. <<>> \in Seq(Entry) /\ Len(<<>>) = 0 /\ <<>> \in Seq(Input)
  OBVIOUS
<1>3. GoodBatch(<<>>, 0)
  BY <1>2 DEF GoodBatch
<1>4. PlannerInv
  BY <1>2, <1>3 DEF Init, PlannerInv
<1>5. TablesInv
  BY <1>2 DEF Init, TablesInv
<1>6. HandlerInv
  BY DEF Init, HandlerInv
<1>7. CountInv
  <2> SUFFICES ASSUME NEW i \in Input
               PROVE  Waiting(i) = {} /\ UnderWay(i) = {} /\ Saved(i) = {} /\ enqueued[i] = 0
    BY FS_EmptySet DEF CountInv
  <2>1. Waiting(i) = {}
    BY DEF Init, Waiting
  <2>2. UnderWay(i) = {}
    BY DEF Init, UnderWay
  <2>3. Saved(i) = {}
    BY DEF Init, Saved
  <2> QED
    BY <2>1, <2>2, <2>3 DEF Init
<1> QED
  BY <1>1, <1>4, <1>5, <1>6, <1>7 DEF PlanInv

(* Uploads, deletes, restores and the second half of an enqueue: the rows
   of the inputs and nothing that is counted.                              *)
LEMMA RowStep ==
    ASSUME PlanInv, NEW i \in Input,
           Upload(i) \/ EnqueueFails(i) \/ MarkEnqueued(i)
             \/ DeletePendingInput(i) \/ RestorePendingInput(i)
    PROVE  PlanInv'
<1> USE DEF plannerVars, planVars, userVars
<1>1. UNCHANGED <<planQ, enqueued, plannerVars, planVars, userVars>>
  BY DEF Upload, EnqueueFails, MarkEnqueued, DeletePendingInput, RestorePendingInput
<1>2. status' \in [Input -> InputStatus]
  <2>1. CASE MarkEnqueued(i)
    <3>1. MayFail(SetStatus(i, "planning"), status) /\ "planning" \in InputStatus
      BY <2>1 DEF MarkEnqueued, InputStatus
    <3> QED
      BY <3>1, SetStatusType DEF PlanInv, InputInv
  <2>2. CASE ~MarkEnqueued(i)
    BY <2>2 DEF Upload, EnqueueFails, DeletePendingInput, RestorePendingInput, PlanInv,
                InputInv, InputStatus
  <2> QED
    BY <2>1, <2>2
<1>3. deleted' \in SUBSET Input /\ marking' \in [Input -> Nat]
  <2>1. deleted \in SUBSET Input /\ marking \in [Input -> Nat]
    BY DEF PlanInv, InputInv
  <2>2. CASE Upload(i) \/ DeletePendingInput(i) \/ RestorePendingInput(i)
    BY <2>1, <2>2 DEF Upload, DeletePendingInput, RestorePendingInput
  <2>3. CASE EnqueueFails(i)
    BY <2>1, <2>3 DEF EnqueueFails
  <2>4. CASE MarkEnqueued(i)
    BY <2>1, <2>4 DEF MarkEnqueued
  <2> QED
    BY <2>2, <2>3, <2>4
<1>4. InputInv'
  BY <1>1, <1>2, <1>3 DEF PlanInv, InputInv
<1>5. CountInv'
  BY <1>1, SameEntries DEF PlanInv
<1> QED
  BY <1>1, <1>4, <1>5 DEF PlanInv, PlannerInv, TablesInv, HandlerInv

(* A push adds one entry to the list and one to the input's enqueues.      *)
LEMMA EnqueueStep ==
    ASSUME PlanInv, NEW i \in Input, Enqueue(i)
    PROVE  PlanInv'
<1> USE DEF plannerVars, planVars, userVars
<1>1. /\ UNCHANGED <<status, deleted, plannerVars, planVars, userVars>>
      /\ planQ' = Append(planQ, i)
      /\ enqueued' = [enqueued EXCEPT ![i] = @ + 1]
      /\ marking' = [marking EXCEPT ![i] = @ + 1]
  BY DEF Enqueue
<1>2. /\ planQ \in Seq(Input) /\ enqueued \in [Input -> Nat]
      /\ marking \in [Input -> Nat]
  BY DEF PlanInv, InputInv
<1>3. /\ planQ' \in Seq(Input) /\ Len(planQ') = Len(planQ) + 1
      /\ \A n \in 1..Len(planQ) : planQ'[n] = planQ[n]
      /\ planQ'[Len(planQ) + 1] = i
  BY <1>1, <1>2, AppendProperties
<1>4. InputInv'
  BY <1>1, <1>2, <1>3 DEF PlanInv, InputInv
<1>5. CountInv'
  <2> SUFFICES ASSUME NEW j \in Input
               PROVE  /\ IsFiniteSet(Waiting(j)') /\ IsFiniteSet(UnderWay(j)')
                      /\ IsFiniteSet(Saved(j)')
                      /\ Cardinality(Waiting(j)') + Cardinality(UnderWay(j)')
                           + Cardinality(Saved(j)') <= enqueued'[j]
    BY DEF CountInv
  <2>1. UnderWay(j)' = UnderWay(j) /\ Saved(j)' = Saved(j)
    BY <1>1 DEF UnderWay, Saved
  <2>2. /\ IsFiniteSet(Waiting(j)) /\ IsFiniteSet(UnderWay(j)) /\ IsFiniteSet(Saved(j))
        /\ Cardinality(Waiting(j)) + Cardinality(UnderWay(j)) + Cardinality(Saved(j)) <= enqueued[j]
    BY DEF CountInv, PlanInv
  <2>3. /\ Cardinality(Waiting(j)) \in Nat /\ Cardinality(UnderWay(j)) \in Nat
        /\ Cardinality(Saved(j)) \in Nat /\ enqueued[j] \in Nat
    BY <1>2, <2>2, FS_CardinalityType
  <2>4. DOMAIN planQ = 1..Len(planQ) /\ DOMAIN planQ' = 1..(Len(planQ) + 1) /\ Len(planQ) \in Nat
    BY <1>2, <1>3
  <2>5. CASE j = i
    <3>1. Waiting(j)' = Waiting(j) \cup {Len(planQ) + 1}
      BY <1>3, <2>4, <2>5 DEF Waiting
    <3>2. Len(planQ) + 1 \notin Waiting(j)
      BY <2>4 DEF Waiting
    <3>3. IsFiniteSet(Waiting(j)') /\ Cardinality(Waiting(j)') = Cardinality(Waiting(j)) + 1
      BY <2>2, <3>1, <3>2, FS_AddElement
    <3>4. enqueued'[j] = enqueued[j] + 1
      BY <1>1, <1>2, <2>5
    <3> QED
      BY <2>1, <2>2, <2>3, <3>3, <3>4
  <2>6. CASE j # i
    <3>1. Waiting(j)' = Waiting(j)
      BY <1>3, <2>4, <2>6 DEF Waiting
    <3>2. enqueued'[j] = enqueued[j]
      BY <1>1, <1>2, <2>6
    <3> QED
      BY <2>1, <2>2, <3>1, <3>2
  <2> QED
    BY <2>5, <2>6
<1> QED
  BY <1>1, <1>4, <1>5 DEF PlanInv, PlannerInv, TablesInv, HandlerInv

(* planQueueClear only takes entries away.                                 *)
LEMMA ClearStep ==
    ASSUME PlanInv, ClearList \/ ClearDel \/ \E i \in Input : ClearReset(i)
    PROVE  PlanInv'
<1> USE DEF plannerVars, planVars, inputVars
<1>0. UNCHANGED <<deleted, marking, enqueued, plannerVars, planVars, deleting, owes>>
  BY DEF ClearList, ClearDel, ClearReset
<1>1. planQ \in Seq(Input)
  BY DEF PlanInv, InputInv
<1>2. planQ' = planQ \/ planQ' = <<>>
  BY DEF ClearList, ClearDel, ClearReset
<1>2a. planQ' \in Seq(Input)
  <2>1. <<>> \in Seq(Input)
    OBVIOUS
  <2> QED
    BY <1>1, <1>2, <2>1
<1>3. status' \in [Input -> InputStatus]
  <2>1. CASE \E i \in Input : ClearReset(i)
    <3>1. PICK i \in Input : SetStatus(i, "pending")
      BY <2>1 DEF ClearReset
    <3>2. "pending" \in InputStatus /\ status \in [Input -> InputStatus]
      BY DEF InputStatus, PlanInv, InputInv
    <3> QED
      BY <3>1, <3>2, SetStatusType DEF MayFail
  <2>2. CASE ClearList \/ ClearDel
    BY <2>2 DEF ClearList, ClearDel, PlanInv, InputInv
  <2> QED
    BY <2>1, <2>2
<1>4. ToSet(planQ) \subseteq Input
  BY <1>1 DEF ToSet
<1>5. HandlerInv'
  BY <1>0, <1>4 DEF ClearList, ClearDel, ClearReset, PlanInv, HandlerInv
<1>6. InputInv'
  BY <1>0, <1>2a, <1>3 DEF PlanInv, InputInv
<1>7. CountInv'
  <2>1. \A i \in Input : Waiting(i)' \subseteq Waiting(i)
    BY <1>2 DEF Waiting
  <2>2. \A i \in Input : UnderWay(i)' \subseteq UnderWay(i)
    BY <1>0 DEF UnderWay
  <2> QED
    BY <1>0, <2>1, <2>2, FewerEntries DEF PlanInv
<1> QED
  BY <1>0, <1>5, <1>6, <1>7 DEF PlanInv, PlannerInv, TablesInv

(* The handlers of plans: enqueue-builds and DELETE /api/plans.            *)
LEMMA PlanHandlerStep ==
    ASSUME PlanInv,
           \/ \E x \in 1..PlanBound : EnqueueBuilds(x) \/ MarkBuildsQueued(x)
           \/ \E x \in 0..PlanBound : ResetInputs(x)
           \/ DeleteMetadata \/ DeletePlans
    PROVE  PlanInv'
<1> USE DEF plannerVars, inputVars, planVars
<1>0. UNCHANGED <<deleted, planQ, marking, enqueued, plannerVars, planOf, clearing>>
  BY DEF EnqueueBuilds, MarkBuildsQueued, ResetInputs, DeleteMetadata, DeletePlans
<1>1. status' \in [Input -> InputStatus]
  <2>1. status \in [Input -> InputStatus] /\ "pending" \in InputStatus
    BY DEF PlanInv, InputInv, InputStatus
  <2>2. CASE \E x \in 1..PlanBound : MarkBuildsQueued(x)
    <3>1. PICK x \in 1..PlanBound : MarkBuildsQueued(x)
      BY <2>2
    <3>2. owes[x] \in InputStatus
      BY <3>1 DEF MarkBuildsQueued, PlanInv, HandlerInv, InputStatus
    <3> QED
      BY <2>1, <3>1, <3>2, SetStatusForPlanType DEF MarkBuildsQueued
  <2>3. CASE \E x \in 0..PlanBound : ResetInputs(x)
    BY <2>1, <2>3, SetStatusForPlanType DEF ResetInputs
  <2>4. CASE (\E x \in 1..PlanBound : EnqueueBuilds(x)) \/ DeleteMetadata \/ DeletePlans
    BY <2>1, <2>4 DEF EnqueueBuilds, DeleteMetadata, DeletePlans
  <2> QED
    BY <2>2, <2>3, <2>4
<1>2. InputInv'
  BY <1>0, <1>1 DEF PlanInv, InputInv
<1>3. HandlerInv'
  <2>1. CASE \E x \in 1..PlanBound : EnqueueBuilds(x) \/ MarkBuildsQueued(x)
    BY <1>0, <2>1 DEF EnqueueBuilds, MarkBuildsQueued, PlanInv, HandlerInv
  <2>2. CASE \E x \in 0..PlanBound : ResetInputs(x)
    BY <1>0, <2>2 DEF ResetInputs, PlanInv, HandlerInv
  <2>3. CASE DeleteMetadata \/ DeletePlans
    BY <1>0, <2>3, PlanQueueAssumption DEF DeleteMetadata, DeletePlans, PlanInv, HandlerInv
  <2> QED
    BY <2>1, <2>2, <2>3
<1>4. TablesInv'
  <2>1. CASE \E x \in 1..PlanBound : EnqueueBuilds(x)
    BY <1>0, <2>1 DEF EnqueueBuilds, PlanInv, TablesInv
  <2>2. CASE \E x \in 1..PlanBound : MarkBuildsQueued(x)
    BY <1>0, <2>2 DEF MarkBuildsQueued, PlanInv, TablesInv
  <2>3. CASE \E x \in 0..PlanBound : ResetInputs(x)
    BY <1>0, <2>3 DEF ResetInputs, PlanInv, TablesInv
  <2>4. CASE DeleteMetadata
    BY <1>0, <2>4 DEF DeleteMetadata, PlanInv, TablesInv
  <2>5. CASE DeletePlans
    <3> DEFINE doomed == IF deleting.plan = 0 THEN plans ELSE {deleting.plan}
    <3>1. UNCHANGED <<planOf, links, builds>>
      BY <2>5 DEF DeletePlans
    <3>2. plans' = plans \/ (plans' = plans \ doomed /\ \A l \in links : l[2] \notin doomed)
      BY <2>5 DEF DeletePlans
    <3>3. links \in SUBSET (Input \X plans')
      BY <3>2 DEF PlanInv, TablesInv
    <3> QED
      BY <3>1, <3>2, <3>3 DEF PlanInv, TablesInv
  <2> QED
    BY <2>1, <2>2, <2>3, <2>4, <2>5
<1>5. CountInv'
  BY <1>0, SameEntries DEF PlanInv
<1>6. PlannerInv'
  BY <1>0 DEF PlanInv, PlannerInv
<1> QED
  BY <1>2, <1>3, <1>4, <1>5, <1>6 DEF PlanInv

-----------------------------------------------------------------------------
(* The planner's steps.                                                    *)

(* An id popped from the list counts in the batch and no longer there: the
   entries behind it move up by one.                                       *)
LEMMA LPopStep ==
    ASSUME PlanInv, NEW p \in Planner, LPop(p)
    PROVE  PlanInv'
<1> USE DEF planVars, userVars
<1> DEFINE h == Head(planQ)
           e == [id |-> h, stage |-> "popped", plan |-> 0]
           b == batch[p]
           c == Append(b, e)
<1>1. /\ UNCHANGED <<status, deleted, marking, enqueued, pc, planVars, userVars>>
      /\ pc[p] = "pop" /\ planQ # <<>> /\ Len(b) < PlanPopBatch
      /\ planQ' = Tail(planQ)
      /\ batch' = [batch EXCEPT ![p] = c]
  BY DEF LPop
<1>2. /\ planQ \in Seq(Input) /\ batch = [q \in Planner |-> batch[q]]
      /\ GoodBatch(b, Len(planOf)) /\ b \in Seq(Entry) /\ Len(planOf) \in Nat
      /\ Len(b) \in Nat /\ DOMAIN b = 1..Len(b)
  BY DEF PlanInv, InputInv, PlannerInv, TablesInv, GoodBatch
<1>3. /\ h \in Input /\ h = planQ[1] /\ planQ' \in Seq(Input)
      /\ Len(planQ) \in Nat /\ Len(planQ') = Len(planQ) - 1 /\ Len(planQ) > 0
      /\ \A n \in 1..Len(planQ') : planQ'[n] = planQ[n + 1]
      /\ DOMAIN planQ = 1..Len(planQ) /\ DOMAIN planQ' = 1..Len(planQ')
  BY <1>1, <1>2, HeadTailProperties
<1>4. InputInv'
  BY <1>1, <1>3 DEF PlanInv, InputInv
<1> HIDE DEF h
<1>5. /\ e \in Entry /\ GoodEntry(e, Len(planOf))
      /\ e.id = h /\ e.plan = 0 /\ e.stage = "popped"
  BY <1>2, <1>3, PlanQueueAssumption DEF Entry, GoodEntry, Stage, Before, After
<1> HIDE DEF e
<1>6. /\ c \in Seq(Entry) /\ Len(c) = Len(b) + 1 /\ DOMAIN c = 1..(Len(b) + 1)
      /\ \A n \in 1..Len(b) : c[n] = b[n]
      /\ c[Len(b) + 1] = e
  BY <1>2, <1>5, AppendProperties
<1>7. GoodBatch(c, Len(planOf))
  BY <1>1, <1>2, <1>5, <1>6, PlanQueueAssumption DEF GoodBatch
<1> HIDE DEF c
<1>8. batch' = [q \in Planner |-> IF q = p THEN c ELSE batch[q]]
  BY <1>1, <1>2
<1>9. PlannerInv'
  BY <1>1, <1>7, <1>8 DEF PlanInv, PlannerInv
<1>10. CountInv'
  <2> SUFFICES ASSUME NEW i \in Input
               PROVE  /\ IsFiniteSet(Waiting(i)') /\ IsFiniteSet(UnderWay(i)')
                      /\ IsFiniteSet(Saved(i)')
                      /\ Cardinality(Waiting(i)') + Cardinality(UnderWay(i)')
                           + Cardinality(Saved(i)') <= enqueued'[i]
    BY DEF CountInv
  <2>1. Saved(i)' = Saved(i) /\ enqueued' = enqueued
    BY <1>1 DEF Saved
  <2>2. /\ IsFiniteSet(Waiting(i)) /\ IsFiniteSet(UnderWay(i)) /\ IsFiniteSet(Saved(i))
        /\ Cardinality(Waiting(i)) + Cardinality(UnderWay(i)) + Cardinality(Saved(i)) <= enqueued[i]
        /\ enqueued[i] \in Nat
    BY DEF CountInv, PlanInv, InputInv
  <2>3. /\ Cardinality(Waiting(i)) \in Nat /\ Cardinality(UnderWay(i)) \in Nat
        /\ Cardinality(Saved(i)) \in Nat
    BY <2>2, FS_CardinalityType
  <2>4. /\ IsFiniteSet(Waiting(i)')
        /\ Cardinality(Waiting(i)') = Cardinality(Waiting(i) \ {1})
    <3> DEFINE W == Waiting(i) \ {1}
               f == [n \in W |-> n - 1]
    <3>1. IsFiniteSet(W)
      BY <2>2, FS_Subset
    <3>2. W = {n \in 2..Len(planQ) : planQ[n] = i}
      BY <1>3 DEF Waiting
    <3>3. Waiting(i)' = {n \in 1..(Len(planQ) - 1) : planQ[n + 1] = i}
      BY <1>3 DEF Waiting
    <3> HIDE DEF W
    <3>4. \A n \in W : n \in Int /\ n - 1 \in Waiting(i)'
      BY <1>3, <3>2, <3>3
    <3>5. \A m \in Waiting(i)' : m + 1 \in W /\ f[m + 1] = m
      BY <1>3, <3>2, <3>3
    <3>6. f \in Bijection(W, Waiting(i)')
      BY <3>4, <3>5 DEF Bijection, Injection, Surjection, IsInjective
    <3>7. ExistsBijection(W, Waiting(i)')
      BY <3>6 DEF ExistsBijection
    <3> QED
      BY <3>1, <3>7, FS_Bijection DEF W
  <2>5. CASE i = h
    <3>1. 1 \in Waiting(i)
      BY <1>3, <2>5 DEF Waiting
    <3>2. Cardinality(Waiting(i)') = Cardinality(Waiting(i)) - 1
      BY <2>2, <2>4, <3>1, FS_RemoveElement
    <3>3. UnderWay(i)' \subseteq UnderWay(i) \cup {<<p, Len(b) + 1>>}
      <4> SUFFICES ASSUME NEW x \in UnderWay(i)', x # <<p, Len(b) + 1>>
                   PROVE  x \in UnderWay(i)
        OBVIOUS
      <4>1. /\ x \in Planner \X (1..PlanPopBatch) /\ x[1] \in Planner /\ x = <<x[1], x[2]>>
            /\ x[2] \in DOMAIN batch'[x[1]]
            /\ batch'[x[1]][x[2]].id = i /\ batch'[x[1]][x[2]].plan = 0
            /\ batch'[x[1]][x[2]].stage # "done"
        BY DEF UnderWay
      <4>2. CASE x[1] = p
        <5>1. x[2] \in DOMAIN b /\ c[x[2]] = b[x[2]]
          BY <1>2, <1>6, <1>8, <4>1, <4>2
        <5> QED
          BY <1>8, <4>1, <4>2, <5>1 DEF UnderWay
      <4>3. CASE x[1] # p
        BY <1>8, <4>1, <4>3 DEF UnderWay
      <4> QED
        BY <4>2, <4>3
    <3>4. /\ IsFiniteSet(UnderWay(i) \cup {<<p, Len(b) + 1>>})
          /\ Cardinality(UnderWay(i) \cup {<<p, Len(b) + 1>>}) \in
                {Cardinality(UnderWay(i)), Cardinality(UnderWay(i)) + 1}
      BY <2>2, FS_AddElement
    <3>5. /\ IsFiniteSet(UnderWay(i)') /\ Cardinality(UnderWay(i)') \in Nat
          /\ Cardinality(UnderWay(i)') <= Cardinality(UnderWay(i) \cup {<<p, Len(b) + 1>>})
      BY <3>3, <3>4, FS_Subset, FS_CardinalityType
    <3> QED
      BY <2>1, <2>2, <2>3, <2>4, <3>2, <3>4, <3>5
  <2>6. CASE i # h
    <3>1. Waiting(i) \ {1} = Waiting(i)
      BY <1>3, <2>6 DEF Waiting
    <3>2. UnderWay(i)' \subseteq UnderWay(i)
      <4> SUFFICES ASSUME NEW x \in UnderWay(i)'
                   PROVE  x \in UnderWay(i)
        OBVIOUS
      <4>1. /\ x \in Planner \X (1..PlanPopBatch) /\ x[1] \in Planner
            /\ x[2] \in DOMAIN batch'[x[1]]
            /\ batch'[x[1]][x[2]].id = i /\ batch'[x[1]][x[2]].plan = 0
            /\ batch'[x[1]][x[2]].stage # "done"
        BY DEF UnderWay
      <4>2. CASE x[1] = p
        <5>1. x[2] \in DOMAIN b /\ c[x[2]] = b[x[2]]
          BY <1>2, <1>5, <1>6, <1>8, <2>6, <4>1, <4>2
        <5> QED
          BY <1>8, <4>1, <4>2, <5>1 DEF UnderWay
      <4>3. CASE x[1] # p
        BY <1>8, <4>1, <4>3 DEF UnderWay
      <4> QED
        BY <4>2, <4>3
    <3>3. /\ IsFiniteSet(UnderWay(i)') /\ Cardinality(UnderWay(i)') \in Nat
          /\ Cardinality(UnderWay(i)') <= Cardinality(UnderWay(i))
      BY <2>2, <3>2, FS_Subset, FS_CardinalityType
    <3>4. Cardinality(Waiting(i)') = Cardinality(Waiting(i))
      BY <2>4, <3>1
    <3> QED
      BY <2>1, <2>2, <2>3, <2>4, <3>3, <3>4
  <2> QED
    BY <2>5, <2>6
<1> QED
  BY <1>1, <1>4, <1>9, <1>10 DEF PlanInv, TablesInv, HandlerInv

(* A plan saved: the entry becomes a plan, and cannot become another.      *)
LEMMA SavePlanStep ==
    ASSUME PlanInv, NEW p \in Planner, NEW n \in 1..PlanPopBatch, SavePlan(p, n)
    PROVE  PlanInv'
<1> USE DEF inputVars, userVars
<1> DEFINE b == batch[p]
           k == Len(planOf)
           e == [b[n] EXCEPT !.stage = "saved", !.plan = k + 1]
           c == [b EXCEPT ![n] = e]
           h == b[n].id
<1>1. /\ UNCHANGED <<inputVars, pc, links, builds, userVars>>
      /\ n \in DOMAIN b /\ b[n].stage = "post"
      /\ k < PlanBound
      /\ planOf' = Append(planOf, h)
      /\ plans' = plans \cup {k + 1}
      /\ batch' = [batch EXCEPT ![p] = c]
  BY DEF SavePlan, At
<1>2. /\ batch = [q \in Planner |-> batch[q]] /\ GoodBatch(b, k) /\ k \in Nat
      /\ planOf \in Seq(Input) /\ DOMAIN planOf = 1..k
  BY DEF PlanInv, PlannerInv, TablesInv
<1>3. /\ b \in Seq(Entry) /\ Len(b) \in Nat /\ DOMAIN b = 1..Len(b) /\ n \in 1..Len(b)
      /\ Len(b) <= PlanPopBatch
      /\ GoodEntry(b[n], k) /\ b[n] \in Entry /\ b[n].plan = 0 /\ h \in Input
  BY <1>1, <1>2 DEF GoodBatch, GoodEntry, Before, Entry
<1>4. /\ planOf' \in Seq(Input) /\ Len(planOf') = k + 1 /\ DOMAIN planOf' = 1..(k + 1)
      /\ \A m \in 1..k : planOf'[m] = planOf[m]
      /\ planOf'[k + 1] = h
  BY <1>1, <1>2, <1>3, AppendProperties
<1>5. e \in Entry /\ e.stage = "saved" /\ e.plan = k + 1
  <2>1. k + 1 \in 0..PlanBound /\ "saved" \in Stage
    BY <1>1, <1>2, PlanQueueAssumption DEF Stage
  <2> HIDE DEF k
  <2> QED
    BY <1>3, <2>1 DEF Entry
<1>6. GoodEntry(e, k + 1)
  BY <1>2, <1>5 DEF GoodEntry, Before, After
<1> HIDE DEF e, h
<1>7. /\ c \in Seq(Entry) /\ Len(c) = Len(b) /\ DOMAIN c = DOMAIN b
      /\ \A m \in 1..Len(b) : c[m] = IF m = n THEN e ELSE b[m]
  BY <1>3, <1>5, ExceptSeq
<1>8. GoodBatch(b, k + 1) /\ \A q \in Planner : GoodBatch(batch[q], k + 1)
  <2>1. k \in Nat /\ k + 1 \in Nat /\ k <= k + 1 /\ \A q \in Planner : GoodBatch(batch[q], k)
    BY <1>2 DEF PlanInv, PlannerInv
  <2> HIDE DEF k
  <2> QED
    BY <2>1, GoodBatchGrows
<1>9. GoodBatch(c, k + 1)
  BY <1>3, <1>6, <1>7, <1>8 DEF GoodBatch
<1> HIDE DEF c
<1>10. batch' = [q \in Planner |-> IF q = p THEN c ELSE batch[q]]
  BY <1>1, <1>2
<1>11. pc[p] # "list"
  BY <1>1 DEF PlanInv, PlannerInv
<1>12. PlannerInv'
  BY <1>1, <1>4, <1>8, <1>9, <1>10, <1>11 DEF PlanInv, PlannerInv
<1>13. TablesInv'
  BY <1>1, <1>2, <1>4, PlanQueueAssumption DEF PlanInv, TablesInv
<1>14. CountInv'
  <2> SUFFICES ASSUME NEW i \in Input
               PROVE  /\ IsFiniteSet(Waiting(i)') /\ IsFiniteSet(UnderWay(i)')
                      /\ IsFiniteSet(Saved(i)')
                      /\ Cardinality(Waiting(i)') + Cardinality(UnderWay(i)')
                           + Cardinality(Saved(i)') <= enqueued'[i]
    BY DEF CountInv
  <2>1. Waiting(i)' = Waiting(i) /\ enqueued' = enqueued
    BY <1>1 DEF Waiting
  <2>2. /\ IsFiniteSet(Waiting(i)) /\ IsFiniteSet(UnderWay(i)) /\ IsFiniteSet(Saved(i))
        /\ Cardinality(Waiting(i)) + Cardinality(UnderWay(i)) + Cardinality(Saved(i)) <= enqueued[i]
        /\ enqueued[i] \in Nat
    BY DEF CountInv, PlanInv, InputInv
  <2>3. /\ Cardinality(Waiting(i)) \in Nat /\ Cardinality(UnderWay(i)) \in Nat
        /\ Cardinality(Saved(i)) \in Nat
    BY <2>2, FS_CardinalityType
  <2>4. UnderWay(i)' \subseteq UnderWay(i) \ {<<p, n>>}
    <3> SUFFICES ASSUME NEW x \in UnderWay(i)'
                 PROVE  x \in UnderWay(i) /\ x # <<p, n>>
      OBVIOUS
    <3>1. /\ x \in Planner \X (1..PlanPopBatch) /\ x[1] \in Planner
          /\ x[2] \in DOMAIN batch'[x[1]]
          /\ batch'[x[1]][x[2]].id = i /\ batch'[x[1]][x[2]].plan = 0
          /\ batch'[x[1]][x[2]].stage # "done"
      BY DEF UnderWay
    <3>2. CASE x[1] = p
      <4>1. x[2] \in DOMAIN b /\ c[x[2]].plan = 0
        BY <1>7, <1>10, <3>1, <3>2
      <4>2. x[2] # n /\ c[x[2]] = b[x[2]]
        BY <1>2, <1>3, <1>5, <1>7, <4>1
      <4> QED
        BY <1>10, <3>1, <3>2, <4>1, <4>2 DEF UnderWay
    <3>3. CASE x[1] # p
      BY <1>10, <3>1, <3>3 DEF UnderWay
    <3> QED
      BY <3>2, <3>3
  <2>5. CASE i = h
    <3>1. <<p, n>> \in UnderWay(i)
      <4>1. b[n].id = i /\ b[n].plan = 0 /\ b[n].stage # "done"
        BY <1>1, <1>3, <2>5 DEF h
      <4> QED
        BY <1>1, <4>1 DEF UnderWay
    <3>2. /\ IsFiniteSet(UnderWay(i) \ {<<p, n>>})
          /\ Cardinality(UnderWay(i) \ {<<p, n>>}) = Cardinality(UnderWay(i)) - 1
      BY <2>2, <3>1, FS_RemoveElement
    <3>3. /\ IsFiniteSet(UnderWay(i)') /\ Cardinality(UnderWay(i)') \in Nat
          /\ Cardinality(UnderWay(i)') <= Cardinality(UnderWay(i)) - 1
      BY <2>4, <3>2, FS_Subset, FS_CardinalityType
    <3>4. Saved(i)' = Saved(i) \cup {k + 1} /\ k + 1 \notin Saved(i)
      BY <1>2, <1>4, <2>5 DEF Saved
    <3>5. IsFiniteSet(Saved(i)') /\ Cardinality(Saved(i)') = Cardinality(Saved(i)) + 1
      BY <2>2, <3>4, FS_AddElement
    <3> QED
      BY <2>1, <2>2, <2>3, <3>3, <3>5
  <2>6. CASE i # h
    <3>1. Saved(i)' = Saved(i)
      BY <1>2, <1>4, <2>6 DEF Saved
    <3>2. UnderWay(i)' \subseteq UnderWay(i)
      BY <2>4
    <3>3. /\ IsFiniteSet(UnderWay(i)') /\ Cardinality(UnderWay(i)') \in Nat
          /\ Cardinality(UnderWay(i)') <= Cardinality(UnderWay(i))
      BY <2>2, <3>2, FS_Subset, FS_CardinalityType
    <3> QED
      BY <2>1, <2>2, <2>3, <3>1, <3>3
  <2> QED
    BY <2>5, <2>6
<1> QED
  BY <1>1, <1>12, <1>13, <1>14 DEF PlanInv, InputInv, HandlerInv

(* A batch replaced by one in which no entry counts that did not before.   *)
LEMMA NewBatchStep ==
    ASSUME PlanInv, NEW p \in Planner, NEW c, GoodBatch(c, Len(planOf)),
           batch' = [batch EXCEPT ![p] = c],
           NEW t \in {"pop", "mark", "run"}, pc' = [pc EXCEPT ![p] = t],
           \A m \in DOMAIN c : /\ m \in DOMAIN batch[p]
                               /\ c[m].id = batch[p][m].id /\ c[m].plan = batch[p][m].plan
                               /\ batch[p][m].stage # "done",
           UNCHANGED <<inputVars, planVars, userVars>>
    PROVE  PlanInv'
<1> USE DEF inputVars, planVars, userVars
<1>1. batch' = [q \in Planner |-> IF q = p THEN c ELSE batch[q]]
  BY DEF PlanInv, PlannerInv
<1>2. PlannerInv'
  BY <1>1 DEF PlanInv, PlannerInv
<1>3. \A i \in Input : UnderWay(i)' \subseteq UnderWay(i)
  <2> SUFFICES ASSUME NEW i \in Input, NEW x \in UnderWay(i)'
               PROVE  x \in UnderWay(i)
    OBVIOUS
  <2>1. /\ x \in Planner \X (1..PlanPopBatch) /\ x[1] \in Planner
        /\ x[2] \in DOMAIN batch'[x[1]]
        /\ batch'[x[1]][x[2]].id = i /\ batch'[x[1]][x[2]].plan = 0
        /\ batch'[x[1]][x[2]].stage # "done"
    BY DEF UnderWay
  <2>2. CASE x[1] = p
    BY <1>1, <2>1, <2>2 DEF UnderWay
  <2>3. CASE x[1] # p
    BY <1>1, <2>1, <2>3 DEF UnderWay
  <2> QED
    BY <2>2, <2>3
<1>4. \A i \in Input : Waiting(i)' \subseteq Waiting(i)
  BY DEF Waiting
<1>5. CountInv'
  BY <1>3, <1>4, FewerEntries DEF PlanInv
<1> QED
  BY <1>2, <1>5 DEF PlanInv, InputInv, TablesInv, HandlerInv

(* fetchPendingMap: a batch that is all marked becomes listed or done.     *)
LEMMA FetchStep ==
    ASSUME PlanInv, NEW p \in Planner, FetchPendingMap(p)
    PROVE  PlanInv'
<1> DEFINE b == batch[p]
           k == Len(planOf)
           L == [n \in DOMAIN b |-> Listed(b[n])]
           D == [n \in DOMAIN b |-> Dropped(b[n])]
<1>1. /\ UNCHANGED <<inputVars, planVars, userVars>>
      /\ pc[p] = "list" /\ pc' = [pc EXCEPT ![p] = "run"]
      /\ batch' = [batch EXCEPT ![p] = L] \/ batch' = [batch EXCEPT ![p] = D]
  BY DEF FetchPendingMap
<1>2. /\ GoodBatch(b, k) /\ k \in Nat /\ Len(b) \in Nat /\ DOMAIN b = 1..Len(b)
      /\ Len(b) <= PlanPopBatch
      /\ \A n \in DOMAIN b : GoodEntry(b[n], k) /\ b[n].stage = "marked"
  <2>1. GoodBatch(b, k) /\ \A n \in DOMAIN b : b[n].stage = "marked"
    BY <1>1 DEF PlanInv, PlannerInv
  <2>2. k \in Nat
    BY DEF PlanInv, TablesInv
  <2> HIDE DEF b, k
  <2> QED
    BY <2>1, <2>2 DEF GoodBatch
<1>3. \A n \in DOMAIN b : /\ GoodEntry(Listed(b[n]), k) /\ GoodEntry(Dropped(b[n]), k)
                          /\ Listed(b[n]).id = b[n].id /\ Listed(b[n]).plan = b[n].plan
                          /\ Dropped(b[n]).id = b[n].id /\ Dropped(b[n]).plan = b[n].plan
  <2> SUFFICES ASSUME NEW n \in DOMAIN b
               PROVE  /\ GoodEntry(Listed(b[n]), k) /\ GoodEntry(Dropped(b[n]), k)
                      /\ Listed(b[n]).id = b[n].id /\ Listed(b[n]).plan = b[n].plan
                      /\ Dropped(b[n]).id = b[n].id /\ Dropped(b[n]).plan = b[n].plan
    OBVIOUS
  <2> DEFINE e == b[n]
             s == IF Visible(e.id) THEN "listed" ELSE "done"
  <2>1. GoodEntry(e, k) /\ e.stage \in Before /\ k \in Nat
    BY <1>2 DEF Before
  <2>2. /\ s \in Stage /\ "done" \in Stage /\ s \notin After
        /\ "done" \notin After /\ "done" \notin Before
    BY DEF Stage, After, Before
  <2>3. Listed(e) = [e EXCEPT !.stage = s] /\ Dropped(e) = [e EXCEPT !.stage = "done"]
    BY DEF Listed, Dropped
  <2> HIDE DEF e, s, k
  <2>4. /\ GoodEntry(Listed(e), k) /\ Listed(e).id = e.id /\ Listed(e).plan = e.plan
    BY <2>1, <2>2, <2>3, RestageEntry
  <2>5. /\ GoodEntry(Dropped(e), k) /\ Dropped(e).id = e.id /\ Dropped(e).plan = e.plan
    BY <2>1, <2>2, <2>3, RestageEntry
  <2> QED
    BY <2>4, <2>5 DEF e, k
<1>4. \A n \in DOMAIN b : Listed(b[n]) \in Entry /\ Dropped(b[n]) \in Entry
  BY <1>3 DEF GoodEntry
<1>5. L \in Seq(Entry) /\ Len(L) = Len(b) /\ D \in Seq(Entry) /\ Len(D) = Len(b)
  BY <1>2, <1>4
<1>6. GoodBatch(L, k) /\ GoodBatch(D, k)
  BY <1>2, <1>3, <1>5 DEF GoodBatch
<1>7. /\ \A m \in DOMAIN L : /\ m \in DOMAIN b /\ b[m].stage # "done"
                             /\ L[m].id = b[m].id /\ L[m].plan = b[m].plan
      /\ \A m \in DOMAIN D : /\ m \in DOMAIN b /\ b[m].stage # "done"
                             /\ D[m].id = b[m].id /\ D[m].plan = b[m].plan
  BY <1>2, <1>3
<1> HIDE DEF L, D
<1>7a. "run" \in {"pop", "mark", "run"}
  OBVIOUS
<1>8. CASE batch' = [batch EXCEPT ![p] = L]
  <2>1. \A m \in DOMAIN L : /\ m \in DOMAIN batch[p]
                             /\ L[m].id = batch[p][m].id /\ L[m].plan = batch[p][m].plan
                             /\ batch[p][m].stage # "done"
    BY <1>7
  <2>2. pc' = [pc EXCEPT ![p] = "run"] /\ UNCHANGED <<inputVars, planVars, userVars>>
    BY <1>1
  <2>3. GoodBatch(L, Len(planOf))
    BY <1>6
  <2> QED
    BY <1>7a, <1>8, <2>1, <2>2, <2>3, NewBatchStep
<1>9. CASE batch' = [batch EXCEPT ![p] = D]
  <2>1. \A m \in DOMAIN D : /\ m \in DOMAIN batch[p]
                             /\ D[m].id = batch[p][m].id /\ D[m].plan = batch[p][m].plan
                             /\ batch[p][m].stage # "done"
    BY <1>7
  <2>2. pc' = [pc EXCEPT ![p] = "run"] /\ UNCHANGED <<inputVars, planVars, userVars>>
    BY <1>1
  <2>3. GoodBatch(D, Len(planOf))
    BY <1>6
  <2> QED
    BY <1>7a, <1>9, <2>1, <2>2, <2>3, NewBatchStep
<1> QED
  BY <1>1, <1>8, <1>9

(* The other steps of the loop: the pop ends, the ids arrive, the batch is
   done or lost.                                                           *)
LEMMA LoopStep ==
    ASSUME PlanInv, NEW p \in Planner,
           PopEnds(p) \/ PopNothing(p) \/ PopReturns(p) \/ BatchDone(p) \/ LoseBatch(p)
    PROVE  PlanInv'
<1>1. CASE BatchDone(p) \/ LoseBatch(p)
  <2>1. /\ UNCHANGED <<inputVars, planVars, userVars>>
        /\ batch' = [batch EXCEPT ![p] = <<>>] /\ pc' = [pc EXCEPT ![p] = "pop"]
    BY <1>1 DEF BatchDone, LoseBatch
  <2>2. <<>> \in Seq(Entry) /\ Len(<<>>) = 0 /\ DOMAIN <<>> = {}
    OBVIOUS
  <2>3. GoodBatch(<<>>, Len(planOf))
    BY <2>2, PlanQueueAssumption DEF GoodBatch
  <2> QED
    BY <2>1, <2>2, <2>3, NewBatchStep
<1>2. CASE PopNothing(p)
  <2> USE DEF inputVars, plannerVars, planVars, userVars
  <2>1. UNCHANGED <<inputVars, plannerVars, planVars, userVars>>
    BY <1>2 DEF PopNothing, vars
  <2>2. CountInv'
    BY <2>1, SameEntries DEF PlanInv
  <2> QED
    BY <2>1, <2>2 DEF PlanInv, InputInv, PlannerInv, TablesInv, HandlerInv
<1>3. CASE PopEnds(p) \/ PopReturns(p)
  <2> USE DEF inputVars, planVars, userVars
  <2>1. UNCHANGED <<inputVars, batch, planVars, userVars>>
    BY <1>3 DEF PopEnds, PopReturns
  <2>2. CountInv'
    BY <2>1, SameEntries DEF PlanInv
  <2>3. CASE PopEnds(p)
    <3>1. pc' = [pc EXCEPT ![p] = "mark"]
      BY <2>3 DEF PopEnds
    <3>2. PlannerInv'
      BY <2>1, <3>1 DEF PlanInv, PlannerInv
    <3> QED
      BY <2>1, <2>2, <3>2 DEF PlanInv, InputInv, TablesInv, HandlerInv
  <2>4. CASE PopReturns(p)
    <3>1. \A n \in DOMAIN batch[p] : batch[p][n].stage = "marked"
      BY <2>4 DEF PopReturns, At
    <3>2. pc' = [pc EXCEPT ![p] = "list"]
      BY <2>4 DEF PopReturns
    <3>3. PlannerInv'
      BY <2>1, <3>1, <3>2 DEF PlanInv, PlannerInv
    <3> QED
      BY <2>1, <2>2, <3>3 DEF PlanInv, InputInv, TablesInv, HandlerInv
  <2> QED
    BY <1>3, <2>3, <2>4
<1> QED
  BY <1>1, <1>2, <1>3

(* The steps of one goroutine that change a row and no table of plans.     *)
LEMMA ReportStep ==
    ASSUME PlanInv, NEW p \in Planner, NEW n \in 1..PlanPopBatch,
           \/ MarkPopped(p, n) \/ ReportPlanned(p, n) \/ ReportFailed(p, n)
           \/ MarkPlanned(p, n) \/ MarkQueued(p, n)
    PROVE  PlanInv'
<1> USE DEF planVars, userVars, Before, After
<1>1. /\ UNCHANGED <<deleted, planQ, marking, enqueued, pc, planVars, userVars>>
      /\ n \in DOMAIN batch[p]
  BY DEF MarkPopped, ReportPlanned, ReportFailed, MarkPlanned, MarkQueued, At
<1>2. batch[p][n].id \in Input
  BY <1>1 DEF PlanInv, PlannerInv, GoodBatch, GoodEntry, Entry
<1>3. \E s \in InputStatus : MayFail(SetStatus(batch[p][n].id, s), status)
  BY DEF MarkPopped, ReportPlanned, ReportFailed, MarkPlanned, MarkQueued, InputStatus
<1>4. status' \in [Input -> InputStatus]
  BY <1>2, <1>3, SetStatusType DEF PlanInv, InputInv
<1>5. \E s \in Stage : /\ SetStage(p, n, s)
                       /\ batch[p][n].stage \notin {"marked", "done"}
                       /\ s \in Before => batch[p][n].stage \in Before
                       /\ s \in After => batch[p][n].stage \in After
  <2>1. CASE MarkPopped(p, n)
    BY <2>1 DEF MarkPopped, At, Stage
  <2>2. CASE ReportPlanned(p, n)
    BY <2>2 DEF ReportPlanned, At, Stage
  <2>3. CASE ReportFailed(p, n)
    BY <2>3 DEF ReportFailed, At, Stage
  <2>4. CASE MarkPlanned(p, n)
    BY <2>4 DEF MarkPlanned, At, Stage
  <2>5. CASE MarkQueued(p, n)
    BY <2>5 DEF MarkQueued, At, Stage
  <2> QED
    BY <2>1, <2>2, <2>3, <2>4, <2>5
<1>6. PlannerInv' /\ CountInv'
  BY <1>1, <1>5, RestageStep DEF PlanInv
<1> QED
  BY <1>1, <1>4, <1>6 DEF PlanInv, InputInv, TablesInv, HandlerInv

(* The steps of one goroutine that change no row.                          *)
LEMMA GoroutineRestStep ==
    ASSUME PlanInv, NEW p \in Planner, NEW n \in 1..PlanPopBatch,
           \/ PlanOne(p, n) \/ LinkPlanToPendingInput(p, n) \/ AutoBuild(p, n)
           \/ PostFails(p, n)
    PROVE  PlanInv'
<1> USE DEF inputVars, planVars, userVars, Before, After
<1>1. /\ UNCHANGED <<inputVars, pc, planOf, plans, userVars>>
      /\ n \in DOMAIN batch[p]
  BY DEF PlanOne, LinkPlanToPendingInput, AutoBuild, PostFails, At
<1>2. GoodEntry(batch[p][n], Len(planOf))
  BY <1>1 DEF PlanInv, PlannerInv, GoodBatch
<1>3. \E s \in Stage : /\ SetStage(p, n, s)
                       /\ batch[p][n].stage \notin {"marked", "done"}
                       /\ s \in Before => batch[p][n].stage \in Before
                       /\ s \in After => batch[p][n].stage \in After
  <2>1. CASE PlanOne(p, n)
    BY <2>1 DEF PlanOne, At, Stage
  <2>2. CASE LinkPlanToPendingInput(p, n)
    BY <2>2 DEF LinkPlanToPendingInput, At, Stage
  <2>3. CASE AutoBuild(p, n)
    BY <2>3 DEF AutoBuild, At, Stage
  <2>4. CASE PostFails(p, n)
    BY <2>4 DEF PostFails, Stage
  <2> QED
    BY <2>1, <2>2, <2>3, <2>4
<1>4. PlannerInv' /\ CountInv'
  BY <1>1, <1>3, RestageStep DEF PlanInv
<1>5. TablesInv'
  <2>1. CASE PlanOne(p, n) \/ PostFails(p, n)
    BY <1>1, <2>1 DEF PlanOne, PostFails, PlanInv, TablesInv
  <2>2. CASE LinkPlanToPendingInput(p, n)
    <3>1. batch[p][n].id \in Input
      BY <1>2 DEF GoodEntry, Entry
    <3>2. builds' = builds /\ links' \subseteq links \cup (Input \X plans)
      BY <2>2, <3>1 DEF LinkPlanToPendingInput
    <3> QED
      BY <1>1, <3>2 DEF PlanInv, TablesInv
  <2>3. CASE AutoBuild(p, n)
    <3>1. batch[p][n].plan \in 1..Len(planOf)
      BY <1>2, <2>3 DEF AutoBuild, At, GoodEntry, PlanInv, TablesInv
    <3>2. links' = links /\ builds' \subseteq builds \cup {batch[p][n].plan}
      BY <2>3 DEF AutoBuild, MayFail
    <3> QED
      BY <1>1, <3>1, <3>2 DEF PlanInv, TablesInv
  <2> QED
    BY <2>1, <2>2, <2>3
<1> QED
  BY <1>1, <1>4, <1>5 DEF PlanInv, InputInv, HandlerInv

-----------------------------------------------------------------------------
(* Every step keeps the invariant.                                         *)
LEMMA PlanStepInv == PlanInv /\ [Next]_vars => PlanInv'
<1> SUFFICES ASSUME PlanInv, [Next]_vars PROVE PlanInv'
  OBVIOUS
<1>1. CASE UserStep
  BY <1>1, RowStep, EnqueueStep, ClearStep, PlanHandlerStep DEF UserStep
<1>2. CASE HandlerStep
  BY <1>2, RowStep, ClearStep, PlanHandlerStep DEF HandlerStep
<1>3. CASE Failure
  BY <1>3, LoopStep, GoroutineRestStep DEF Failure
<1>4. ASSUME NEW p \in Planner, PlannerStep(p) PROVE PlanInv'
  <2>1. CASE \E n \in 1..PlanPopBatch : MarkPopped(p, n) \/ GoroutineStep(p, n)
    BY <2>1, ReportStep, GoroutineRestStep, SavePlanStep DEF GoroutineStep
  <2> QED
    BY <1>4, <2>1, LPopStep, LoopStep, FetchStep DEF PlannerStep
<1>5. CASE UNCHANGED vars
  <2> USE DEF inputVars, plannerVars, planVars, userVars
  <2>1. UNCHANGED <<inputVars, plannerVars, planVars, userVars>>
    BY <1>5 DEF vars
  <2>2. CountInv'
    BY <2>1, SameEntries DEF PlanInv
  <2> QED
    BY <2>1, <2>2 DEF PlanInv, InputInv, PlannerInv, TablesInv, HandlerInv
<1> QED
  BY <1>1, <1>2, <1>3, <1>4, <1>5 DEF Next

(* Whether anything fails is settled at the beginning.                     *)
LEMMA FaultyStays == [Next]_vars => faulty' = faulty
<1> SUFFICES ASSUME [Next]_vars PROVE faulty' = faulty
  OBVIOUS
<1>1. CASE UserStep
  BY <1>1 DEF UserStep, Upload, Enqueue, EnqueueFails, DeletePendingInput, RestorePendingInput,
              ClearList, EnqueueBuilds, ResetInputs
<1>2. CASE HandlerStep
  BY <1>2 DEF HandlerStep, MarkEnqueued, ClearReset, MarkBuildsQueued, ClearDel, DeleteMetadata,
              DeletePlans
<1>3. CASE Failure
  BY <1>3 DEF Failure, LoseBatch, PostFails
<1>4. ASSUME NEW p \in Planner, PlannerStep(p) PROVE faulty' = faulty
  <2>1. ASSUME NEW n \in 1..PlanPopBatch, MarkPopped(p, n) \/ GoroutineStep(p, n)
        PROVE  faulty' = faulty
    BY <2>1 DEF MarkPopped, GoroutineStep, PlanOne, ReportPlanned, ReportFailed, SavePlan,
                LinkPlanToPendingInput, MarkPlanned, AutoBuild, MarkQueued
  <2>2. CASE PopNothing(p)
    BY <2>2 DEF PopNothing, vars
  <2>3. CASE LPop(p) \/ PopEnds(p) \/ PopReturns(p) \/ FetchPendingMap(p) \/ BatchDone(p)
    BY <2>3 DEF LPop, PopEnds, PopReturns, FetchPendingMap, BatchDone
  <2> QED
    BY <1>4, <2>1, <2>2, <2>3 DEF PlannerStep
<1>5. CASE UNCHANGED vars
  BY <1>5 DEF vars
<1> QED
  BY <1>1, <1>2, <1>3, <1>4, <1>5 DEF Next

LEMMA PlanInvGives == PlanInv /\ faulty \in BOOLEAN => TypeOK /\ PlannedAtMostOnce
<1> SUFFICES ASSUME PlanInv, faulty \in BOOLEAN PROVE TypeOK /\ PlannedAtMostOnce
  OBVIOUS
<1>1. \A p \in Planner : batch[p] \in Seq(Entry) /\ Len(batch[p]) <= PlanPopBatch
  BY DEF PlanInv, PlannerInv, GoodBatch
<1>2. DOMAIN planOf = 1..Len(planOf)
  BY DEF PlanInv, TablesInv
<1>3. TypeOK
  BY <1>1, <1>2 DEF TypeOK, PlanInv, InputInv, PlannerInv, TablesInv, HandlerInv
<1>4. PlannedAtMostOnce
  BY DEF PlannedAtMostOnce, PlanInv, CountInv
<1> QED
  BY <1>3, <1>4

(* The tables, the list and the planners keep their types in every
   behaviour; in particular the foreign key holds under every interleaving
   of POST /api/plan with DELETE /api/plans.                               *)
THEOREM PlanTypeCorrect == Spec => []TypeOK
<1>1. Init => PlanInv /\ faulty \in BOOLEAN
  <2>1. Init => faulty \in BOOLEAN
    BY PlanQueueAssumption DEF Init
  <2> QED
    BY <2>1, PlanInitInv
<1>2. PlanInv /\ faulty \in BOOLEAN /\ [Next]_vars => (PlanInv /\ faulty \in BOOLEAN)'
  <2>1. faulty \in BOOLEAN /\ [Next]_vars => (faulty \in BOOLEAN)'
    BY FaultyStays
  <2> QED
    BY <2>1, PlanStepInv
<1>3. PlanInv /\ faulty \in BOOLEAN => TypeOK
  BY PlanInvGives
<1> QED
  BY <1>1, <1>2, <1>3, PTL DEF Spec

(* An enqueue of an input never becomes two plans, whatever the planners,
   the clears, the failures and the restarts between a pop and a save do.  *)
THEOREM EnqueuePlannedOnce == Spec => []PlannedAtMostOnce
<1>1. Init => PlanInv
  BY PlanInitInv
<1>2. PlanInv /\ [Next]_vars => PlanInv'
  BY PlanStepInv
<1>3. PlanInv => PlannedAtMostOnce
  BY DEF PlanInv, CountInv, PlannedAtMostOnce
<1> QED
  BY <1>1, <1>2, <1>3, PTL DEF Spec
=============================================================================
