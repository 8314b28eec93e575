------------------------- MODULE BuildSystemProofs --------------------------
(***************************************************************************)
(* For every set of builds and plans, every batch size and every bound,    *)
(* and whatever the clients report: the build_status table is type correct *)
(* and the timestamps of its rows fit their status.  For any number of     *)
(* workers and callers besides: the closed system is type correct, keeps   *)
(* the timestamps right, never hands out the same attempt number twice for *)
(* one enqueue of a build, and runs no more containers in a worker than    *)
(* its pool has places.                                                    *)
(*                                                                         *)
(* The queue's own invariant is inductive as it stands: each SQL statement *)
(* is first shown to write a good row; the theorems then only track which  *)
(* rows an action writes.  LeasesAreDistinct is not inductive.  What makes *)
(* it so is LeaseOrder: while a row is still waiting or leased, its        *)
(* attempts is at least every attempt number handed out since it was last  *)
(* enqueued.  A late report may lower attempts, but only together with a   *)
(* status from which the row is not leased again.  That in turn rests on   *)
(* PcFacts: once a drain has waited for its jobs its context is cancelled, *)
(* so no report of a result ("retry" in particular) reaches the queue.     *)
(***************************************************************************)
EXTENDS BuildSystem, FiniteSetTheorems, TLAPS

(* The queue.                                                              *)

GoodRow(r) == r \in Row /\ RowStampsFit(r)

(* A table of good rows, as lemmas about a table need it.                  *)
GoodTable(t) == /\ DOMAIN t \subseteq Key
                /\ t = [k \in DOMAIN t |-> t[k]]
                /\ \A k \in DOMAIN t : GoodRow(t[k])

QueueInv == GoodTable(rows) /\ before \subseteq Present \X Present

(* UpdateBuildStatus writes a good row, over an old one and over none.     *)
LEMMA ReportedRowGood ==
    ASSUME NEW t, GoodTable(t), NEW k \in Key, NEW s \in Status, NEW a \in Nat,
           NEW b \in Backoff
    PROVE  GoodRow(ReportedRow(t, k, s, a, b))
<1>1. CASE k \in DOMAIN t
  <2>1. t[k] \in Row
    BY <1>1 DEF GoodTable, GoodRow
  <2>2. ReportedRow(t, k, s, a, b) = ReportedOldRow(t[k], s, a, b)
    BY <1>1 DEF ReportedRow
  <2>3. ReportedOldRow(t[k], s, a, b) \in Row
    BY <2>1 DEF ReportedOldRow, Row, Status, LeasedAt, Waiting, Active
  <2>4. RowStampsFit(ReportedOldRow(t[k], s, a, b))
    BY <2>1 DEF ReportedOldRow, Row, Status, LeasedAt, Waiting, Active, RowStampsFit
  <2> QED BY <2>2, <2>3, <2>4 DEF GoodRow
<1>2. CASE k \notin DOMAIN t
  <2>1. ReportedRow(t, k, s, a, b) = ReportedNewRow(s, a, b)
    BY <1>2 DEF ReportedRow
  <2>2. (s = "building") \in BOOLEAN /\ (s \in {"built", "failed"}) \in BOOLEAN
    BY SMT
  <2>3. (IF s = "leased" THEN "fresh" ELSE "null") \in LeasedAt
    BY DEF LeasedAt
  <2>4. ReportedNewRow(s, a, b) \in Row
    BY <2>2, <2>3, Zenon DEF ReportedNewRow, Row
  <2>5. RowStampsFit(ReportedNewRow(s, a, b))
    BY DEF ReportedNewRow, RowStampsFit, Status
  <2> QED BY <2>1, <2>4, <2>5 DEF GoodRow
<1> QED BY <1>1, <1>2

(* QueueBuildsFromPlan writes a good row whatever the old row's status.    *)
LEMMA QueuedRowGood ==
    ASSUME NEW t, GoodTable(t), NEW k \in Key, NEW p \in Plan
    PROVE  GoodRow(QueuedRow(t, k, p))
  BY DEF GoodTable, GoodRow, QueuedRow, Row, RowStampsFit, Status, Backoff, LeasedAt

(* The requeue and the lease of a pop keep a table good.                   *)
LEMMA RequeueGood ==
    ASSUME NEW t, GoodTable(t)
    PROVE  GoodTable(Requeued(t)) /\ DOMAIN Requeued(t) = DOMAIN t
<1> DEFINE u == Requeued(t)
<1>1. DOMAIN u = DOMAIN t /\ u = [k \in DOMAIN u |-> u[k]]
  BY DEF Requeued
<1>2. ASSUME NEW k \in DOMAIN t PROVE GoodRow(u[k])
  <2>1. GoodRow(t[k])
    BY DEF GoodTable
  <2>2. u[k] = t[k] \/ u[k] = [t[k] EXCEPT !.status = "pending", !.backoff = "none",
                                 !.leasedAt = "null", !.started = FALSE, !.finished = FALSE]
    BY DEF Requeued
  <2> QED BY <2>1, <2>2 DEF GoodRow, Row, RowStampsFit, Status, Backoff, LeasedAt
<1> QED BY <1>1, <1>2 DEF GoodTable

LEMMA LeaseGood ==
    ASSUME NEW t, GoodTable(t), NEW S
    PROVE  GoodTable(Leased(t, S)) /\ DOMAIN Leased(t, S) = DOMAIN t
<1> DEFINE u == Leased(t, S)
<1>1. DOMAIN u = DOMAIN t /\ u = [k \in DOMAIN u |-> u[k]]
  BY DEF Leased
<1>2. ASSUME NEW k \in DOMAIN t PROVE GoodRow(u[k])
  <2>1. GoodRow(t[k])
    BY DEF GoodTable
  <2>2. u[k] = t[k] \/ u[k] = LeasedRow(t[k])
    BY DEF Leased
  <2>3. LeasedRow(t[k]) \in Row
    <3>1. t[k] \in Row /\ t[k].attempts + 1 \in Nat
      BY <2>1 DEF GoodRow, Row
    <3>2. \A r \in Row, n \in Nat :
             [r EXCEPT !.status = "leased", !.attempts = n, !.leasedAt = "fresh",
                       !.started = FALSE, !.finished = FALSE] \in Row
      BY DEF Row, Status, LeasedAt
    <3> QED BY <3>1, <3>2 DEF LeasedRow
  <2>4. RowStampsFit(LeasedRow(t[k]))
    BY <2>1 DEF GoodRow, LeasedRow, Row, RowStampsFit
  <2> QED BY <2>1, <2>2, <2>3, <2>4 DEF GoodRow
<1> QED BY <1>1, <1>2 DEF GoodTable

-----------------------------------------------------------------------------
LEMMA QueueInitInv == QueueInit => QueueInv
  BY DEF QueueInit, QueueInv, GoodTable, Present

(* Every operation of the queue preserves the invariant.                   *)
LEMMA QueueStepInv == QueueInv /\ [QueueNext]_queueVars => QueueInv'
<1> SUFFICES ASSUME QueueInv, [QueueNext]_queueVars PROVE QueueInv'
  OBVIOUS
<1> USE DEF QueueInv
<1>1. ASSUME NEW p \in Plan, NEW K \in SUBSET Key, QueueBuildsFromPlan(p, K)
      PROVE  QueueInv'
  <2>1. DOMAIN rows' = Present \cup K /\ rows' = [k \in DOMAIN rows' |-> rows'[k]]
    BY <1>1 DEF QueueBuildsFromPlan, Present
  <2>2. \A k \in DOMAIN rows' : GoodRow(rows'[k])
    BY <1>1, <2>1, QueuedRowGood DEF QueueBuildsFromPlan, GoodTable, Present
  <2>3. before' \subseteq Present' \X Present'
    BY <1>1, <2>1 DEF QueueBuildsFromPlan, Inserted, Present
  <2> QED BY <2>1, <2>2, <2>3 DEF GoodTable, Present
<1>2. ASSUME NEW k \in Key, NEW s \in Status, NEW a \in -1..AttemptBound, NEW b \in Backoff,
             UpdateBuildStatus(k, s, a, b)
      PROVE  QueueInv'
  <2>1. NonNegative(a) \in Nat
    BY BuildQueueAssumption DEF NonNegative
  <2>2. DOMAIN rows' = Present \cup {k} /\ rows' = [j \in DOMAIN rows' |-> rows'[j]]
    BY <1>2 DEF UpdateBuildStatus, Put, Present
  <2>3. \A j \in DOMAIN rows' : GoodRow(rows'[j])
    BY <1>2, <2>1, <2>2, ReportedRowGood DEF UpdateBuildStatus, Put, GoodTable, Present
  <2>4. before' \subseteq Present' \X Present'
    BY <1>2, <2>2 DEF UpdateBuildStatus, Inserted, Present
  <2> QED BY <2>2, <2>3, <2>4 DEF GoodTable, Present
<1>3. CASE RequeueStaleLeases
  <2>1. GoodTable(rows') /\ Present' = Present
    BY <1>3, RequeueGood DEF RequeueStaleLeases, Present
  <2> QED BY <1>3, <2>1 DEF RequeueStaleLeases
<1>4. ASSUME NEW S \in SUBSET Key, LeaseBuilds(S)
       PROVE  QueueInv'
  <2>1. rows' = rows \/ rows' = Leased(rows, S)
    BY <1>4 DEF LeaseBuilds
  <2>2. GoodTable(rows') /\ Present' = Present
    BY <2>1, LeaseGood DEF Present
  <2> QED BY <1>4, <2>2 DEF LeaseBuilds
<1>5. ASSUME NEW f, DeleteBuilds(f)
      PROVE  QueueInv'
  <2>1. DOMAIN rows' \subseteq Present /\ rows' = [k \in DOMAIN rows' |-> rows[k]]
    BY <1>5 DEF DeleteBuilds
  <2>2. GoodTable(rows')
    BY <2>1 DEF GoodTable, Present
  <2>3. before' \subseteq Present' \X Present'
    BY <1>5 DEF DeleteBuilds, Present
  <2> QED BY <2>2, <2>3
<1>6. ASSUME NEW k \in Key, LeaseAges(k)
      PROVE  QueueInv'
  <2>1. GoodRow(rows[k]) /\ rows[k].leasedAt = "fresh"
    BY <1>6 DEF LeaseAges, GoodTable, Present
  <2>2. GoodRow([rows[k] EXCEPT !.leasedAt = "stale"])
    BY <2>1 DEF GoodRow, Row, RowStampsFit, LeasedAt
  <2> QED BY <1>6, <2>2 DEF LeaseAges, GoodTable, Present
<1>7. ASSUME NEW k \in Key, BackoffElapses(k)
      PROVE  QueueInv'
  <2>1. GoodRow(rows[k])
    BY <1>7 DEF BackoffElapses, GoodTable, Present
  <2>2. GoodRow([rows[k] EXCEPT !.backoff = "due"])
    BY <2>1 DEF GoodRow, Row, RowStampsFit, Backoff
  <2> QED BY <1>7, <2>2 DEF BackoffElapses, GoodTable, Present
<1>8. CASE UNCHANGED queueVars
  BY <1>8 DEF queueVars, Present
<1> QED BY <1>1, <1>2, <1>3, <1>4, <1>5, <1>6, <1>7, <1>8 DEF QueueNext

LEMMA QueueInvGives == QueueInv => QueueTypeOK /\ StampsFitStatus
  BY DEF QueueInv, QueueTypeOK, StampsFitStatus, GoodTable, GoodRow, Present

(* The build_status table is type correct under every client.              *)
THEOREM QueueTypeCorrect == QueueSpec => []QueueTypeOK
  BY QueueInitInv, QueueStepInv, QueueInvGives, PTL DEF QueueSpec

(* A row's timestamps fit its status under every client: in particular a
   leased row always carries the leased_at that RequeueStaleLeases needs.  *)
THEOREM QueueStampsFit == QueueSpec => []StampsFitStatus
  BY QueueInitInv, QueueStepInv, QueueInvGives, PTL DEF QueueSpec

-----------------------------------------------------------------------------
(* The closed system.                                                      *)

(* Where a drain stands, and what it therefore has.                        *)
PcFacts ==
    \A d \in Drain :
        /\ pc[d] = "report" => ~ctxLive[d]
        /\ pc[d] \in {"idle", "pop", "lease"} => DOMAIN held[d] = {}
        /\ pc[d] \in {"idle", "pop", "lease", "match"} => DOMAIN job[d] = {}

LeasableStatus == {"pending", "retry", "leased"}

LeaseOrder ==
    \A d \in Drain : \A k \in DOMAIN held[d] :
        /\ held[d][k].attempt <= AttemptBound
        /\ held[d][k].enq <= enqueues[k]
        /\ (held[d][k].enq = enqueues[k] /\ k \in Present /\ rows[k].status \in LeasableStatus)
              => held[d][k].attempt <= rows[k].attempts

DrainTypeOK ==
    /\ draining \in [Worker -> BOOLEAN]
    /\ pc \in [Drain -> {"idle", "pop", "lease", "match", "run", "report"}]
    /\ ctxLive \in [Drain -> BOOLEAN]
    /\ held = [d \in Drain |-> held[d]]
    /\ job = [d \in Drain |-> job[d]]
    /\ \A d \in Drain : /\ DOMAIN held[d] \subseteq Key
                        /\ held[d] \in [DOMAIN held[d] -> Lease]
                        /\ DOMAIN job[d] \subseteq DOMAIN held[d]
                        /\ job[d] \in [DOMAIN job[d] -> JobState]

ApiTypeOK ==
    /\ plans \in [Plan -> {"new", "saved", "deleted"}]
    /\ checked \in [Plan -> Nat]
    /\ manifest \in [Key -> {"none", "built", "failed", "retry"}]
    /\ enqueues \in [Key -> Nat]

SysTypeOK == DrainTypeOK /\ ApiTypeOK

SysInv == QueueInv /\ SysTypeOK /\ PcFacts /\ LeaseOrder /\ LeasesAreDistinct

LEMMA EmptyFcn == DOMAIN Empty = {} /\ \A V : Empty \in [{} -> V]
  BY DEF Empty

LEMMA InitInv == Init => SysInv
<1> SUFFICES ASSUME Init PROVE SysInv
  OBVIOUS
<1>1. QueueInv
  BY QueueInitInv DEF Init
<1>2. SysTypeOK
  BY EmptyFcn DEF Init, SysTypeOK, DrainTypeOK, ApiTypeOK
<1>3. PcFacts
  BY EmptyFcn DEF Init, PcFacts
<1>4. LeaseOrder /\ LeasesAreDistinct
  BY EmptyFcn DEF Init, LeaseOrder, LeasesAreDistinct
<1> QED BY <1>1, <1>2, <1>3, <1>4 DEF SysInv

-----------------------------------------------------------------------------
(* The system uses the queue only through its operations.                  *)

LEMMA ReportIsQueueStep ==
    ASSUME SysInv, NEW d \in Drain, NEW k \in DOMAIN held[d], NEW s \in Status,
           NEW b \in Backoff, ReportBuildStatus(d, k, s, b)
    PROVE  [QueueNext]_queueVars
<1>1. k \in Key /\ held[d][k].attempt \in -1..AttemptBound
  BY BuildQueueAssumption DEF SysInv, SysTypeOK, DrainTypeOK, ApiTypeOK, Lease, LeaseOrder
<1>2. CASE UpdateBuildStatus(k, s, held[d][k].attempt, b)
  BY <1>1, <1>2 DEF QueueNext
<1> QED BY <1>2 DEF ReportBuildStatus

LEMMA UserQueueStep == UserStep => [QueueNext]_queueVars
<1> SUFFICES ASSUME UserStep PROVE [QueueNext]_queueVars
  OBVIOUS
<1>1. ASSUME NEW p \in Plan, NEW K \in SUBSET Key, K \subseteq Nodes[p], Enqueue(p, K)
      PROVE  QueueNext
  BY <1>1 DEF Enqueue, QueueNext
<1>2. \A p \in Plan : Nodes[p] \in SUBSET Key
  BY BuildQueueAssumption
<1>3. ASSUME NEW p \in Plan, NEW auto \in BOOLEAN, PostPlan(p, auto)
      PROVE  [QueueNext]_queueVars
  BY <1>1, <1>2, <1>3 DEF PostPlan
<1>4. ASSUME NEW p \in Plan, EnqueueBuildsCheck(p) \/ EnqueueBuildsAct(p)
      PROVE  [QueueNext]_queueVars
  BY <1>1, <1>2, <1>4 DEF EnqueueBuildsCheck, EnqueueBuildsAct
<1>5. ASSUME NEW p \in Plan, NEW k \in Key, EnqueueBuild(p, k)
      PROVE  [QueueNext]_queueVars
  BY <1>1, <1>2, <1>5 DEF EnqueueBuild
<1>6. ASSUME NEW D \in SUBSET Plan, DeletePlans(D)
      PROVE  [QueueNext]_queueVars
  BY <1>6 DEF DeletePlans
<1>7. ASSUME NEW f \in Status \cup {""}, ClearBuilds(f)
      PROVE  [QueueNext]_queueVars
  BY <1>7 DEF ClearBuilds, QueueNext
<1> QED BY <1>3, <1>4, <1>5, <1>6, <1>7 DEF UserStep

LEMMA ResultStatusType ==
    \A o, n, applied : ResultStatus(o, n, applied) \in {"built", "failed", "retry"}
  BY DEF ResultStatus

LEMMA UsesQueueStep == SysInv /\ [Next]_sysVars => [QueueNext]_queueVars
<1> SUFFICES ASSUME SysInv, [Next]_sysVars PROVE [QueueNext]_queueVars
  OBVIOUS
<1>1. CASE UserStep
  BY <1>1, UserQueueStep
<1>2. ASSUME NEW d \in Drain, RunDrain(d) \/ CancelContext(d)
      PROVE  [QueueNext]_queueVars
  BY <1>2 DEF RunDrain, CancelContext
<1>3. ASSUME NEW d \in Drain,
             PopBuildQueue(d) \/ RequeueFails(d) \/ PopAnswers(d) \/ LeaseFails(d)
      PROVE  [QueueNext]_queueVars
  BY <1>3 DEF PopBuildQueue, RequeueFails, PopAnswers, LeaseFails, QueueNext
<1>4. ASSUME NEW d \in Drain, DrainStep(d)
      PROVE  [QueueNext]_queueVars
  <2> USE DEF SysInv, SysTypeOK, DrainTypeOK, ApiTypeOK
  <2>1. CASE PopFails(d) \/ JobsFromBuildQueue(d) \/ Wait(d) \/ DrainReturns(d)
    BY <2>1 DEF PopFails, JobsFromBuildQueue, Wait, DrainReturns
  <2>2. ASSUME NEW k \in Key, StartJob(d, k) PROVE [QueueNext]_queueVars
    <3>1. k \in DOMAIN held[d] /\ ReportBuildStatus(d, k, "building", "none")
      BY <2>2 DEF StartJob
    <3> QED BY <3>1, ReportIsQueueStep DEF Status, Backoff
  <2>3. ASSUME NEW k \in Key,
               \/ FetchWheelFails(d, k) \/ SkipLost(d, k)
               \/ \E o \in {"ok", "err"} : RunnerReturns(d, k, o)
        PROVE  [QueueNext]_queueVars
    BY <2>3 DEF RunnerReturns, FetchWheelFails, SkipLost
  <2>4. ASSUME NEW k \in Key, NEW applied \in BOOLEAN, ReportResult(d, k, applied)
        PROVE  [QueueNext]_queueVars
    BY <2>4 DEF ReportResult, ReportBuildStatus, PcFacts
  <2> QED BY <1>4, <2>1, <2>2, <2>3, <2>4 DEF DrainStep
<1>5. ASSUME NEW k \in Key, TimePasses(k)
      PROVE  [QueueNext]_queueVars
  BY <1>5 DEF TimePasses, QueueNext
<1>6. ASSUME NEW w \in Worker, Crash(w)
      PROVE  [QueueNext]_queueVars
  BY <1>6 DEF Crash
<1>7. CASE UNCHANGED sysVars
  BY <1>7 DEF sysVars
<1> QED BY <1>1, <1>2, <1>3, <1>4, <1>5, <1>6, <1>7 DEF Next

-----------------------------------------------------------------------------
(* Steps that hand out no lease.                                           *)

Leasing(t, k) == k \in DOMAIN t /\ t[k].status \in LeasableStatus

(* In table u, k can be leased only if it could in t, and its attempts has
   not gone down.                                                          *)
Ordered(t, u, k) == Leasing(u, k) => Leasing(t, k) /\ t[k].attempts <= u[k].attempts

HeldShrinks ==
    \A d \in Drain : /\ DOMAIN held'[d] \subseteq DOMAIN held[d]
                     /\ \A k \in DOMAIN held'[d] : held'[d][k] = held[d][k]

LEMMA OrderKept ==
    ASSUME SysInv, HeldShrinks, QueueInv', enqueues' \in [Key -> Nat],
           \A k \in Key : \/ enqueues'[k] > enqueues[k]
                          \/ enqueues'[k] = enqueues[k] /\ Ordered(rows, rows', k)
    PROVE  LeaseOrder' /\ LeasesAreDistinct'
<1> USE DEF SysInv, SysTypeOK, DrainTypeOK, ApiTypeOK, HeldShrinks
<1>1. ASSUME NEW d \in Drain, NEW k \in DOMAIN held'[d]
      PROVE  /\ held'[d][k].attempt <= AttemptBound
             /\ held'[d][k].enq <= enqueues'[k]
             /\ (held'[d][k].enq = enqueues'[k] /\ Leasing(rows', k))
                   => held'[d][k].attempt <= rows'[k].attempts
  <2>1. /\ k \in DOMAIN held[d] /\ k \in Key
        /\ held'[d][k] = held[d][k]
        /\ held[d][k].enq \in Nat /\ held[d][k].attempt \in Nat
    BY <1>1 DEF Lease
  <2>2. /\ held[d][k].attempt <= AttemptBound
        /\ held[d][k].enq <= enqueues[k]
        /\ (held[d][k].enq = enqueues[k] /\ Leasing(rows, k))
                   => held[d][k].attempt <= rows[k].attempts
    BY <2>1 DEF LeaseOrder, Leasing, Present
  <2>3. enqueues[k] \in Nat /\ enqueues'[k] \in Nat
    BY <2>1
  <2>4. Leasing(rows, k) => rows[k].attempts \in Nat
    BY DEF Leasing, QueueInv, GoodTable, GoodRow, Row
  <2>5. Leasing(rows', k) => rows'[k].attempts \in Nat
    BY DEF Leasing, QueueInv, GoodTable, GoodRow, Row
  <2> QED BY <2>1, <2>2, <2>3, <2>4, <2>5 DEF Ordered
<1>2. LeaseOrder'
  BY <1>1 DEF LeaseOrder, Leasing, Present
<1>3. LeasesAreDistinct'
  <2>1. \A d \in Drain : \A k \in DOMAIN held'[d] : k \in DOMAIN held[d] /\ held'[d][k] = held[d][k]
    BY DEF HeldShrinks
  <2>2. LeasesAreDistinct
    OBVIOUS
  <2> QED BY ONLY <2>1, <2>2 DEF LeasesAreDistinct
<1> QED BY <1>2, <1>3

(* Rows a queue operation leaves in order for the leases handed out.       *)
LEMMA RowsInNat == QueueInv => \A k \in Present : rows[k].attempts \in Nat
  BY DEF QueueInv, GoodTable, GoodRow, Row, Present

LEMMA EnqueueOrder ==
    ASSUME SysInv, NEW p \in Plan, NEW K \in SUBSET Key, Enqueue(p, K)
    PROVE  /\ enqueues' \in [Key -> Nat]
           /\ \A k \in Key : \/ enqueues'[k] > enqueues[k]
                             \/ enqueues'[k] = enqueues[k] /\ Ordered(rows, rows', k)
<1> USE DEF SysInv, SysTypeOK, DrainTypeOK, ApiTypeOK, Enqueue
<1>1. enqueues' \in [Key -> Nat]
  OBVIOUS
<1>2. ASSUME NEW k \in K PROVE enqueues'[k] > enqueues[k]
  OBVIOUS
<1>3. ASSUME NEW k \in Key \ K
      PROVE  enqueues'[k] = enqueues[k] /\ Ordered(rows, rows', k)
  <2>1. Leasing(rows', k) => Leasing(rows, k) /\ rows'[k] = rows[k]
    BY DEF QueueBuildsFromPlan, Leasing, Present
  <2> QED BY <2>1, RowsInNat DEF Ordered, Leasing, Present
<1> QED BY <1>1, <1>2, <1>3

LEMMA DeleteOrder ==
    ASSUME QueueInv, NEW f, DeleteBuilds(f), NEW k
    PROVE  Ordered(rows, rows', k)
<1>1. Leasing(rows', k) => Leasing(rows, k) /\ rows'[k] = rows[k]
  BY DEF DeleteBuilds, Leasing, Present
<1> QED BY <1>1, RowsInNat DEF Ordered, Leasing, Present

LEMMA TimeOrder ==
    ASSUME QueueInv, NEW j \in Key, LeaseAges(j) \/ BackoffElapses(j), NEW k
    PROVE  Ordered(rows, rows', k)
<1>1. \A r \in Row : /\ [r EXCEPT !.leasedAt = "stale"].status = r.status
                     /\ [r EXCEPT !.leasedAt = "stale"].attempts = r.attempts
                     /\ [r EXCEPT !.backoff = "due"].status = r.status
                     /\ [r EXCEPT !.backoff = "due"].attempts = r.attempts
  BY DEF Row
<1>2. \A i \in DOMAIN rows : rows[i] \in Row
  BY DEF QueueInv, GoodTable, GoodRow
<1>3. DOMAIN rows' = DOMAIN rows
  BY DEF LeaseAges, BackoffElapses
<1>4. k \in DOMAIN rows => rows'[k].status = rows[k].status /\ rows'[k].attempts = rows[k].attempts
  <2> SUFFICES ASSUME k \in DOMAIN rows
               PROVE  rows'[k].status = rows[k].status /\ rows'[k].attempts = rows[k].attempts
    OBVIOUS
  <2>1. \/ rows'[k] = rows[k]
        \/ rows'[k] = [rows[k] EXCEPT !.leasedAt = "stale"]
        \/ rows'[k] = [rows[k] EXCEPT !.backoff = "due"]
    BY DEF LeaseAges, BackoffElapses
  <2> QED BY <1>1, <1>2, <2>1
<1> QED BY <1>3, <1>4, RowsInNat DEF Ordered, Leasing, Present

LEMMA ReportOrder ==
    ASSUME SysInv, NEW d \in Drain, NEW j \in Key, NEW b,
           ReportBuildStatus(d, j, "building", b), NEW k
    PROVE  Ordered(rows, rows', k)
<1>1. CASE UNCHANGED queueVars
  BY <1>1, RowsInNat DEF queueVars, Ordered, Leasing, Present, SysInv
<1>2. CASE UpdateBuildStatus(j, "building", held[d][j].attempt, b)
  <2> DEFINE r == ReportedRow(rows, j, "building", NonNegative(held[d][j].attempt), b)
  <2>1. r.status = "building"
    BY DEF ReportedRow, ReportedOldRow, ReportedNewRow, SysInv, QueueInv, GoodTable, GoodRow, Row
  <2>2. Leasing(rows', k) => k # j
    BY <1>2, <2>1 DEF UpdateBuildStatus, Put, Leasing, LeasableStatus
  <2>3. Leasing(rows', k) => Leasing(rows, k) /\ rows'[k] = rows[k]
    BY <1>2, <2>2 DEF UpdateBuildStatus, Put, Leasing
  <2> QED BY <2>3, RowsInNat DEF Ordered, Leasing, Present, SysInv
<1> QED BY <1>1, <1>2 DEF ReportBuildStatus

(* A pop requeues, which changes no attempts, and then leases: the attempts
   of the rows it leases go up.                                            *)
LEMMA RequeueOrder ==
    ASSUME QueueInv, RequeueStaleLeases, NEW k
    PROVE  Ordered(rows, rows', k)
<1> DEFINE q(r) == [r EXCEPT !.status = "pending", !.backoff = "none", !.leasedAt = "null",
                             !.started = FALSE, !.finished = FALSE]
<1>1. \A r \in Row : q(r).status = "pending" /\ q(r).attempts = r.attempts
  BY DEF Row
<1>2. DOMAIN rows' = DOMAIN rows /\ \A i \in DOMAIN rows : rows[i] \in Row
  BY DEF RequeueStaleLeases, Requeued, QueueInv, GoodTable, GoodRow
<1>3. k \in DOMAIN rows => rows[k].attempts \in Nat
  BY RowsInNat DEF Present
<1>4. k \in DOMAIN rows => \/ rows'[k] = rows[k]
                           \/ rows'[k] = q(rows[k]) /\ rows[k].status = "leased"
  BY DEF RequeueStaleLeases, Requeued, ExpiredLease
<1> HIDE DEF q
<1>5. CASE rows'[k] = rows[k]
  BY <1>2, <1>3, <1>5 DEF Ordered, Leasing
<1>6. ASSUME k \in DOMAIN rows, rows'[k] = q(rows[k]), rows[k].status = "leased"
      PROVE  Ordered(rows, rows', k)
  <2>1. rows[k] \in Row
    BY <1>2, <1>6
  <2>2. rows'[k].attempts = rows[k].attempts
    BY <1>1, <1>6, <2>1
  <2> QED BY <1>3, <1>6, <2>2 DEF Ordered, Leasing, LeasableStatus
<1> QED BY <1>2, <1>4, <1>5, <1>6 DEF Ordered, Leasing

LEMMA PopOrder ==
    ASSUME QueueInv, NEW S \in SUBSET Key, LeaseBuilds(S), NEW k
    PROVE  /\ Ordered(rows, rows', k)
           /\ (k \in S /\ Scannable(rows, S)) =>
                 /\ Leasing(rows, k) /\ k \in DOMAIN rows'
                 /\ rows'[k].attempts = rows[k].attempts + 1
                 /\ rows[k].attempts < AttemptBound
                 /\ rows'[k].plan = rows[k].plan
<1>1. \A r \in Row : LeasedRow(r).attempts = r.attempts + 1 /\ LeasedRow(r).plan = r.plan
  BY DEF Row, LeasedRow
<1>2. \A i \in DOMAIN rows : rows[i] \in Row
  BY DEF QueueInv, GoodTable, GoodRow
<1>3. k \in DOMAIN rows => rows[k].attempts \in Nat
  BY RowsInNat DEF Present
<1>4. k \in S => Leasing(rows, k) /\ rows[k].attempts < AttemptBound
  BY DEF LeaseBuilds, Leasable, Ready, Leasing, LeasableStatus, Waiting
<1>5. CASE ~Scannable(rows, S)
  <2>1. rows' = rows
    BY <1>5 DEF LeaseBuilds
  <2> QED BY <1>3, <1>5, <2>1 DEF Ordered, Leasing
<1>6. CASE Scannable(rows, S)
  <2>1. rows' = Leased(rows, S)
    BY <1>6 DEF LeaseBuilds
  <2>2. CASE k \in S
    <3>1. k \in DOMAIN rows /\ rows[k] \in Row
      BY <1>2, <1>4, <2>2 DEF Leasing
    <3>2. k \in DOMAIN rows' /\ rows'[k] = LeasedRow(rows[k])
      BY <2>1, <2>2, <3>1 DEF Leased
    <3>3. rows'[k].attempts = rows[k].attempts + 1 /\ rows'[k].plan = rows[k].plan
      BY <1>1, <3>1, <3>2
    <3> QED BY <1>3, <1>4, <2>2, <3>1, <3>2, <3>3 DEF Ordered
  <2>3. CASE k \notin S
    <3>1. DOMAIN rows' = DOMAIN rows /\ (k \in DOMAIN rows => rows'[k] = rows[k])
      BY <2>1, <2>3 DEF Leased
    <3> QED BY <1>3, <2>3, <3>1 DEF Ordered, Leasing
  <2> QED BY <2>2, <2>3
<1> QED BY <1>5, <1>6

-----------------------------------------------------------------------------
(* Every step preserves the invariant.  By UsesQueueStep and QueueStepInv
   the queue's part is kept already.                                       *)

LEMMA UserInv ==
    ASSUME SysInv, UserStep, QueueInv'
    PROVE  ApiTypeOK' /\ LeaseOrder' /\ LeasesAreDistinct' /\ UNCHANGED drainVars
<1> USE DEF SysInv, SysTypeOK
<1>1. UNCHANGED drainVars
  BY DEF UserStep, PostPlan, EnqueueBuildsCheck, EnqueueBuildsAct, EnqueueBuild, DeletePlans,
         ClearBuilds
<1>2. HeldShrinks
  BY <1>1 DEF HeldShrinks, drainVars
<1>3. ASSUME UNCHANGED <<queueVars, enqueues>>
      PROVE  LeaseOrder' /\ LeasesAreDistinct'
  BY <1>1, <1>3 DEF LeaseOrder, LeasesAreDistinct, queueVars, drainVars, Present
<1>4. ASSUME NEW p \in Plan, NEW K \in SUBSET Key, Enqueue(p, K)
      PROVE  enqueues' \in [Key -> Nat] /\ LeaseOrder' /\ LeasesAreDistinct'
  BY <1>2, <1>4, EnqueueOrder, OrderKept
<1>5. \A p \in Plan : Nodes[p] \in SUBSET Key
  BY BuildQueueAssumption
<1>6. ASSUME NEW p \in Plan, NEW auto \in BOOLEAN, PostPlan(p, auto)
      PROVE  ApiTypeOK' /\ LeaseOrder' /\ LeasesAreDistinct'
  BY <1>3, <1>4, <1>5, <1>6 DEF PostPlan, ApiTypeOK
<1>7. ASSUME NEW p \in Plan, EnqueueBuildsCheck(p)
      PROVE  ApiTypeOK' /\ LeaseOrder' /\ LeasesAreDistinct'
  BY <1>3, <1>7 DEF EnqueueBuildsCheck, ApiTypeOK
<1>8. ASSUME NEW p \in Plan, EnqueueBuildsAct(p)
      PROVE  ApiTypeOK' /\ LeaseOrder' /\ LeasesAreDistinct'
  BY <1>4, <1>5, <1>8 DEF EnqueueBuildsAct, ApiTypeOK
<1>9. ASSUME NEW p \in Plan, NEW k \in Key, EnqueueBuild(p, k)
      PROVE  ApiTypeOK' /\ LeaseOrder' /\ LeasesAreDistinct'
  BY <1>4, <1>9 DEF EnqueueBuild, ApiTypeOK
<1>10. ASSUME NEW D \in SUBSET Plan, DeletePlans(D)
       PROVE  ApiTypeOK' /\ LeaseOrder' /\ LeasesAreDistinct'
  BY <1>3, <1>10 DEF DeletePlans, ApiTypeOK
<1>11. ASSUME NEW f \in Status \cup {""}, ClearBuilds(f)
       PROVE  ApiTypeOK' /\ LeaseOrder' /\ LeasesAreDistinct'
  <2>1. ApiTypeOK'
    BY <1>11 DEF ClearBuilds, ApiTypeOK
  <2>2. \A k \in Key : enqueues'[k] = enqueues[k] /\ Ordered(rows, rows', k)
    BY <1>11, DeleteOrder DEF ClearBuilds
  <2> QED BY <1>2, <2>1, <2>2, OrderKept DEF ApiTypeOK
<1> QED BY <1>1, <1>6, <1>7, <1>8, <1>9, <1>10, <1>11 DEF UserStep

(* A drain that ends forgets its leases.                                   *)
LEMMA ReturnInv ==
    ASSUME SysInv, NEW d \in Drain, Return(d)
    PROVE  DrainTypeOK' /\ PcFacts' /\ HeldShrinks
<1> USE DEF SysInv, SysTypeOK, DrainTypeOK, Return
<1>1. Owner(d) \in Worker
  BY DEF Owner, Drain
<1>2. DrainTypeOK'
  BY <1>1, EmptyFcn
<1>3. PcFacts'
  BY EmptyFcn DEF PcFacts
<1>4. HeldShrinks
  BY EmptyFcn DEF HeldShrinks
<1> QED BY <1>2, <1>3, <1>4

(* The answer to a pop hands out leases; their attempts are new.            *)
LEMMA PopInv ==
    ASSUME SysInv, NEW d \in Drain, PopAnswers(d), QueueInv'
    PROVE  SysInv'
<1> USE DEF SysInv, SysTypeOK
<1>1. ApiTypeOK' /\ UNCHANGED enqueues
  BY DEF PopAnswers, ApiTypeOK
<1>2. PICK S \in SUBSET Key :
          /\ LeaseBuilds(S)
          /\ \/ /\ S # {} /\ Scannable(rows, S)
                /\ held' = [held EXCEPT ![d] = Leases(rows', S)]
                /\ pc' = [pc EXCEPT ![d] = "match"]
                /\ UNCHANGED <<draining, ctxLive, job>>
             \/ Return(d)
  BY DEF PopAnswers
<1>3. CASE Return(d)
  BY <1>1, <1>2, <1>3, ReturnInv, PopOrder, OrderKept DEF ApiTypeOK
<1>4. CASE /\ Scannable(rows, S)
           /\ held' = [held EXCEPT ![d] = Leases(rows', S)]
           /\ pc' = [pc EXCEPT ![d] = "match"]
           /\ UNCHANGED <<draining, ctxLive, job>>
  <2> DEFINE L == Leases(rows', S)
  <2>1. ASSUME NEW k \in S
        PROVE  /\ L[k].attempt = rows'[k].attempts /\ L[k].enq = enqueues[k]
               /\ L[k] \in Lease
               /\ Leasing(rows, k)
               /\ rows[k].attempts \in Nat
               /\ rows'[k].attempts = rows[k].attempts + 1
               /\ rows'[k].attempts <= AttemptBound
    <3>1. /\ Leasing(rows, k)
          /\ rows'[k].attempts = rows[k].attempts + 1
          /\ rows[k].attempts < AttemptBound
          /\ rows'[k].plan = rows[k].plan
      BY <1>2, <1>4, PopOrder
    <3>2. rows[k] \in Row
      BY <3>1 DEF Leasing, QueueInv, GoodTable, GoodRow
    <3>3. rows[k].attempts \in Nat /\ rows[k].plan \in Plan
      BY <1>4, <3>2 DEF Row, Scannable
    <3>4. L[k] = [attempt |-> rows'[k].attempts, enq |-> enqueues[k], plan |-> rows'[k].plan]
      BY DEF Leases
    <3>5. enqueues[k] \in Nat /\ AttemptBound \in Nat
      BY BuildQueueAssumption DEF ApiTypeOK
    <3> QED BY <3>1, <3>3, <3>4, <3>5 DEF Lease
  <2>2. DOMAIN L = S /\ L \in [S -> Lease]
    <3>1. DOMAIN L = S /\ L = [k \in S |-> L[k]]
      BY DEF Leases
    <3> QED BY <2>1, <3>1
  <2> HIDE DEF L
  <2>3. held'[d] = L /\ \A e \in Drain : e # d => held'[e] = held[e]
    BY <1>4 DEF DrainTypeOK, L
  <2>4. DOMAIN job[d] = {} /\ pc[d] = "lease"
    BY DEF PcFacts, PopAnswers
  <2>5. DrainTypeOK'
    <3>1. held' = [e \in Drain |-> held'[e]] /\ job' = job
      BY <1>4 DEF DrainTypeOK
    <3>2. pc' \in [Drain -> {"idle", "pop", "lease", "match", "run", "report"}]
      BY <1>4 DEF DrainTypeOK
    <3>3. ASSUME NEW e \in Drain
          PROVE  /\ DOMAIN held'[e] \subseteq Key
                 /\ held'[e] \in [DOMAIN held'[e] -> Lease]
                 /\ DOMAIN job[e] \subseteq DOMAIN held'[e]
      BY <2>2, <2>3, <2>4 DEF DrainTypeOK
    <3> QED BY <1>4, <3>1, <3>2, <3>3 DEF DrainTypeOK
  <2>6. PcFacts'
    BY <1>4, <2>3, <2>4 DEF PcFacts, DrainTypeOK
  <2>7. LeaseOrder'
    <3> SUFFICES ASSUME NEW e \in Drain, NEW k \in DOMAIN held'[e]
                 PROVE  /\ held'[e][k].attempt <= AttemptBound
                        /\ held'[e][k].enq <= enqueues[k]
                        /\ (held'[e][k].enq = enqueues[k] /\ Leasing(rows', k))
                              => held'[e][k].attempt <= rows'[k].attempts
      BY <1>1 DEF LeaseOrder, Leasing, Present
    <3>1. CASE e = d
      <4>1. k \in S /\ held'[e][k] = L[k] /\ enqueues[k] \in Nat
        BY <2>2, <2>3, <3>1 DEF ApiTypeOK
      <4> QED BY <2>1, <4>1
    <3>2. CASE e # d
      <4>1. held'[e] = held[e] /\ k \in DOMAIN held[e]
        BY <2>3, <3>2
      <4>2. /\ held[e][k].attempt <= AttemptBound
            /\ held[e][k].enq <= enqueues[k]
            /\ (held[e][k].enq = enqueues[k] /\ Leasing(rows, k))
                   => held[e][k].attempt <= rows[k].attempts
        BY <4>1 DEF LeaseOrder, Leasing, Present
      <4>3. Ordered(rows, rows', k)
        BY <1>2, PopOrder
      <4>4. Leasing(rows, k) => rows[k].attempts \in Nat
        BY RowsInNat DEF Leasing, Present
      <4>5. Leasing(rows', k) => rows'[k].attempts \in Nat
        BY DEF Leasing, QueueInv, GoodTable, GoodRow, Row
      <4>6. held[e][k].attempt \in Nat
        BY <4>1 DEF DrainTypeOK, Lease
      <4> QED BY <4>1, <4>2, <4>3, <4>4, <4>5, <4>6 DEF Ordered
    <3> QED BY <3>1, <3>2
  <2>8. ASSUME NEW e \in Drain, e # d, NEW k \in DOMAIN held[e] \cap S,
               held[e][k].enq = L[k].enq
        PROVE  held[e][k].attempt < L[k].attempt
    <3>1. held[e][k].attempt <= rows[k].attempts /\ held[e][k].attempt \in Nat
      BY <2>1, <2>8 DEF LeaseOrder, Leasing, Present, DrainTypeOK, Lease
    <3> QED BY <2>1, <3>1
  <2>9. LeasesAreDistinct'
    <3> SUFFICES ASSUME NEW e \in Drain, NEW f \in Drain, e # f,
                        NEW k \in DOMAIN held'[e] \cap DOMAIN held'[f],
                        held'[e][k].enq = held'[f][k].enq
                 PROVE  held'[e][k].attempt # held'[f][k].attempt
      BY DEF LeasesAreDistinct
    <3>1. \A g \in Drain, j \in Key : j \in DOMAIN held[g] => held[g][j].attempt \in Nat
      BY DEF DrainTypeOK, Lease
    <3>2. \A j \in S : L[j].attempt \in Nat
      BY <2>2 DEF Lease
    <3>3. CASE e = d
      <4>1. held'[e] = L /\ held'[f] = held[f] /\ k \in DOMAIN held[f] \cap S
        BY <2>2, <2>3, <3>3
      <4>2. held[f][k].attempt < L[k].attempt /\ held[f][k].attempt \in Nat /\ L[k].attempt \in Nat
        BY <2>8, <3>1, <3>2, <3>3, <4>1
      <4> QED BY <4>1, <4>2
    <3>4. CASE f = d
      <4>1. held'[f] = L /\ held'[e] = held[e] /\ k \in DOMAIN held[e] \cap S
        BY <2>2, <2>3, <3>4
      <4>2. held[e][k].attempt < L[k].attempt /\ held[e][k].attempt \in Nat /\ L[k].attempt \in Nat
        BY <2>8, <3>1, <3>2, <3>4, <4>1
      <4> QED BY <4>1, <4>2
    <3>5. CASE e # d /\ f # d
      BY <2>3, <3>5 DEF LeasesAreDistinct
    <3> QED BY <3>3, <3>4, <3>5
  <2> QED BY <1>1, <2>5, <2>6, <2>7, <2>9
<1> QED BY <1>2, <1>3, <1>4

(* Steps of a drain that leave the leases as they are.                     *)
LEMMA QuietDrainInv ==
    ASSUME SysInv, UNCHANGED <<queueVars, held, enqueues>>
    PROVE  LeaseOrder' /\ LeasesAreDistinct'
  BY DEF SysInv, LeaseOrder, LeasesAreDistinct, queueVars, Present

(* The first transaction of a pop, and the pops that fail after it.        *)
LEMMA RequeueInv ==
    ASSUME SysInv, NEW d \in Drain, PopBuildQueue(d) \/ RequeueFails(d) \/ LeaseFails(d),
           QueueInv'
    PROVE  SysInv'
<1> USE DEF SysInv, SysTypeOK
<1>1. ApiTypeOK' /\ UNCHANGED enqueues
  BY DEF PopBuildQueue, RequeueFails, LeaseFails, ApiTypeOK
<1>2. ASSUME NEW k PROVE Ordered(rows, rows', k)
  <2>1. CASE UNCHANGED rows
    BY <2>1, RowsInNat DEF Ordered, Leasing, Present
  <2> QED BY <2>1, RequeueOrder DEF PopBuildQueue, RequeueFails, LeaseFails, queueVars
<1>3. CASE PopBuildQueue(d) \/ RequeueFails(d)
  <2>1. /\ pc[d] = "pop" /\ pc' = [pc EXCEPT ![d] = "lease"]
        /\ UNCHANGED <<draining, ctxLive, held, job>>
    BY <1>3 DEF PopBuildQueue, RequeueFails
  <2>2. DrainTypeOK'
    BY <2>1 DEF DrainTypeOK
  <2>3. PcFacts'
    BY <2>1 DEF PcFacts, DrainTypeOK
  <2>4. HeldShrinks
    BY <2>1 DEF HeldShrinks
  <2> QED BY <1>1, <1>2, <2>2, <2>3, <2>4, OrderKept DEF ApiTypeOK
<1>4. CASE LeaseFails(d)
  <2>1. DrainTypeOK' /\ PcFacts' /\ HeldShrinks
    BY <1>4, ReturnInv DEF LeaseFails
  <2> QED BY <1>1, <1>2, <2>1, OrderKept DEF ApiTypeOK
<1> QED BY <1>3, <1>4

LEMMA DrainStepInv ==
    ASSUME SysInv, NEW d \in Drain, DrainStep(d), QueueInv'
    PROVE  SysInv'
<1> USE DEF SysInv, SysTypeOK
<1>1. CASE PopFails(d) \/ DrainReturns(d)
  <2>1. Return(d) /\ UNCHANGED <<queueVars, plans, checked, manifest, enqueues>>
    BY <1>1 DEF PopFails, DrainReturns
  <2>2. ApiTypeOK' /\ \A k \in Key : enqueues'[k] = enqueues[k] /\ Ordered(rows, rows', k)
    BY <2>1, RowsInNat DEF ApiTypeOK, Ordered, Leasing, queueVars, Present
  <2> QED BY <2>1, <2>2, ReturnInv, OrderKept DEF ApiTypeOK
<1>2. CASE JobsFromBuildQueue(d)
  <2>1. PICK fetched \in SUBSET {p \in Plan : plans[p] = "saved" /\ ctxLive[d]} :
          LET K == {k \in DOMAIN held[d] : held[d][k].plan \in fetched} IN
          /\ held' = [held EXCEPT ![d] = [k \in K |-> held[d][k]]]
          /\ job' = [job EXCEPT ![d] = [k \in K |-> "waiting"]]
    BY <1>2 DEF JobsFromBuildQueue
  <2> DEFINE K == {k \in DOMAIN held[d] : held[d][k].plan \in fetched}
  <2>2. /\ held' = [held EXCEPT ![d] = [k \in K |-> held[d][k]]]
        /\ job' = [job EXCEPT ![d] = [k \in K |-> "waiting"]]
        /\ K \subseteq DOMAIN held[d]
    BY <2>1
  <2>3. pc' = [pc EXCEPT ![d] = "run"] /\ pc[d] = "match"
        /\ UNCHANGED <<queueVars, draining, ctxLive, plans, checked, manifest, enqueues>>
    BY <1>2 DEF JobsFromBuildQueue
  <2> HIDE DEF K
  <2>4. DrainTypeOK'
    BY <2>2, <2>3 DEF DrainTypeOK, JobState
  <2>5. PcFacts'
    BY <2>2, <2>3 DEF PcFacts, DrainTypeOK
  <2>6. HeldShrinks
    BY <2>2 DEF HeldShrinks, DrainTypeOK
  <2>7. ApiTypeOK' /\ \A k \in Key : enqueues'[k] = enqueues[k] /\ Ordered(rows, rows', k)
    BY <2>3, RowsInNat DEF ApiTypeOK, Ordered, Leasing, queueVars, Present
  <2> QED BY <2>4, <2>5, <2>6, <2>7, OrderKept DEF ApiTypeOK
<1>3. ASSUME NEW k \in Key, StartJob(d, k) PROVE SysInv'
  <2>1. DrainTypeOK'
    BY <1>3 DEF StartJob, DrainTypeOK, JobState
  <2>2. PcFacts'
    BY <1>3 DEF StartJob, PcFacts, DrainTypeOK
  <2>3. HeldShrinks
    BY <1>3 DEF StartJob, HeldShrinks
  <2>4. ApiTypeOK' /\ \A j \in Key : enqueues'[j] = enqueues[j] /\ Ordered(rows, rows', j)
    BY <1>3, ReportOrder DEF StartJob, ApiTypeOK
  <2> QED BY <2>1, <2>2, <2>3, <2>4, OrderKept DEF ApiTypeOK
<1>4. ASSUME NEW k \in Key, NEW o \in {"ok", "err"}, RunnerReturns(d, k, o) PROVE SysInv'
  <2>1. DrainTypeOK'
    BY <1>4 DEF RunnerReturns, Running, DrainTypeOK, JobState
  <2>2. PcFacts'
    BY <1>4 DEF RunnerReturns, Running, PcFacts, DrainTypeOK
  <2> QED BY <1>4, <2>1, <2>2, QuietDrainInv DEF RunnerReturns, ApiTypeOK
<1>5. CASE Wait(d)
  <2>1. DrainTypeOK'
    BY <1>5 DEF Wait, DrainTypeOK
  <2>2. PcFacts'
    BY <1>5 DEF Wait, PcFacts, DrainTypeOK
  <2> QED BY <1>5, <2>1, <2>2, QuietDrainInv DEF Wait, ApiTypeOK
<1>6. ASSUME NEW k \in Key, NEW applied \in BOOLEAN, ReportResult(d, k, applied) PROVE SysInv'
  <2> DEFINE s == ResultStatus(job[d][k], held[d][k].attempt, applied)
  <2>1. pc[d] = "report" /\ ~ctxLive[d]
    BY <1>6 DEF ReportResult, PcFacts
  <2>2. UNCHANGED <<queueVars, held, enqueues>>
    BY <1>6, <2>1 DEF ReportResult, ReportBuildStatus
  <2>3. DrainTypeOK'
    BY <1>6 DEF ReportResult, DrainTypeOK, JobState
  <2>4. PcFacts'
    BY <1>6 DEF ReportResult, PcFacts, DrainTypeOK
  <2>5. ApiTypeOK'
    <3>1. s \in {"none", "built", "failed", "retry"}
      BY ResultStatusType
    <3>2. manifest' = manifest \/ manifest' = [manifest EXCEPT ![k] = s]
      BY <1>6 DEF ReportResult
    <3> HIDE DEF s
    <3>3. manifest' \in [Key -> {"none", "built", "failed", "retry"}]
      BY <3>1, <3>2 DEF ApiTypeOK
    <3> QED BY <1>6, <3>3 DEF ReportResult, ApiTypeOK
  <2> QED BY <2>2, <2>3, <2>4, <2>5, QuietDrainInv
<1>7. ASSUME NEW k \in Key, FetchWheelFails(d, k) PROVE SysInv'
  <2>1. DrainTypeOK'
    BY <1>7 DEF FetchWheelFails, DrainTypeOK, JobState
  <2>2. PcFacts'
    BY <1>7 DEF FetchWheelFails, PcFacts, DrainTypeOK
  <2> QED BY <1>7, <2>1, <2>2, QuietDrainInv DEF FetchWheelFails, ApiTypeOK
<1>8. ASSUME NEW k \in Key, SkipLost(d, k) PROVE SysInv'
  <2>1. DrainTypeOK'
    BY <1>8 DEF SkipLost, DrainTypeOK, JobState
  <2>2. PcFacts'
    BY <1>8 DEF SkipLost, PcFacts, DrainTypeOK
  <2> QED BY <1>8, <2>1, <2>2, QuietDrainInv DEF SkipLost, ApiTypeOK
<1> QED BY <1>1, <1>2, <1>3, <1>4, <1>5, <1>6, <1>7, <1>8 DEF DrainStep

LEMMA StepInv == SysInv /\ [Next]_sysVars => SysInv'
<1> SUFFICES ASSUME SysInv, [Next]_sysVars PROVE SysInv'
  OBVIOUS
<1> USE DEF SysInv, SysTypeOK
<1>1. QueueInv'
  BY UsesQueueStep, QueueStepInv
<1>2. CASE UserStep
  <2>1. DrainTypeOK'
    BY <1>2, <1>1, UserInv DEF drainVars, DrainTypeOK
  <2>2. PcFacts'
    BY <1>2, <1>1, UserInv DEF drainVars, PcFacts
  <2> QED BY <1>1, <1>2, <2>1, <2>2, UserInv
<1>3. ASSUME NEW d \in Drain, RunDrain(d) PROVE SysInv'
  <2>1. Owner(d) \in Worker
    BY DEF Owner, Drain
  <2>2. DrainTypeOK'
    BY <1>3, <2>1 DEF RunDrain, DrainTypeOK
  <2>3. PcFacts'
    BY <1>3 DEF RunDrain, PcFacts, DrainTypeOK
  <2> QED BY <1>1, <1>3, <2>2, <2>3, QuietDrainInv DEF RunDrain, ApiTypeOK
<1>4. ASSUME NEW d \in Drain, CancelContext(d) PROVE SysInv'
  <2>1. DrainTypeOK'
    BY <1>4 DEF CancelContext, DrainTypeOK
  <2>2. PcFacts'
    BY <1>4 DEF CancelContext, PcFacts, DrainTypeOK
  <2> QED BY <1>1, <1>4, <2>1, <2>2, QuietDrainInv DEF CancelContext, ApiTypeOK
<1>5. ASSUME NEW k \in Key, TimePasses(k) PROVE SysInv'
  <2>1. UNCHANGED <<drainVars, plans, checked, manifest, enqueues>>
    BY <1>5 DEF TimePasses
  <2>2. HeldShrinks /\ DrainTypeOK' /\ PcFacts' /\ ApiTypeOK'
    BY <2>1 DEF drainVars, HeldShrinks, DrainTypeOK, PcFacts, ApiTypeOK
  <2>3. \A j \in Key : enqueues'[j] = enqueues[j] /\ Ordered(rows, rows', j)
    BY <1>5, <2>1, TimeOrder DEF TimePasses
  <2> QED BY <1>1, <2>2, <2>3, OrderKept DEF ApiTypeOK
<1>6. ASSUME NEW w \in Worker, Crash(w) PROVE SysInv'
  <2>1. DrainTypeOK'
    BY <1>6, EmptyFcn DEF Crash, DrainTypeOK
  <2>2. PcFacts'
    BY <1>6, EmptyFcn DEF Crash, PcFacts
  <2>3. HeldShrinks
    BY <1>6, EmptyFcn DEF Crash, HeldShrinks
  <2>4. ApiTypeOK' /\ \A k \in Key : enqueues'[k] = enqueues[k] /\ Ordered(rows, rows', k)
    BY <1>6, RowsInNat DEF Crash, ApiTypeOK, Ordered, Leasing, queueVars, Present
  <2> QED BY <1>1, <2>1, <2>2, <2>3, <2>4, OrderKept DEF ApiTypeOK
<1>7. CASE UNCHANGED sysVars
  BY <1>7 DEF sysVars, queueVars, drainVars, QueueInv, DrainTypeOK, ApiTypeOK, PcFacts,
              LeaseOrder, LeasesAreDistinct, Present
<1> QED BY <1>1, <1>2, <1>3, <1>4, <1>5, <1>6, <1>7, RequeueInv, PopInv, DrainStepInv DEF Next

-----------------------------------------------------------------------------
LEMMA InvGivesTypeOK == SysInv => TypeOK
  BY QueueInvGives DEF SysInv, SysTypeOK, DrainTypeOK, ApiTypeOK, TypeOK

(* The closed system is type correct: in particular the manifest only ever
   records built, failed or retry.                                         *)
THEOREM SystemTypeCorrect == Spec => []TypeOK
  BY InitInv, StepInv, InvGivesTypeOK, PTL DEF Spec

(* For any number of workers, builds and plans, lease expiries, lost or late
   reports and crashes, two drains holding the same build since the same
   enqueue hold different attempt numbers.                                 *)
THEOREM DistinctLeases == Spec => []LeasesAreDistinct
<1>1. SysInv => LeasesAreDistinct
  BY DEF SysInv
<1> QED BY <1>1, InitInv, StepInv, PTL DEF Spec

(* In the closed system, too, a row's timestamps fit its status.           *)
THEOREM SystemStampsFit == Spec => []StampsFitStatus
<1>1. SysInv => StampsFitStatus
  BY QueueInvGives DEF SysInv
<1> QED BY <1>1, InitInv, StepInv, PTL DEF Spec

-----------------------------------------------------------------------------
(* The pool.                                                               *)

(* drainInProgress is set while a drain of its worker runs, and it lets in
   one at a time; a drain that is not idle therefore has its worker to
   itself, and keeps within the pool.                                      *)
OneDrain ==
    /\ \A d \in Drain : pc[d] # "idle" => draining[Owner(d)]
    /\ \A d, e \in Drain : pc[d] # "idle" /\ pc[e] # "idle" /\ Owner(d) = Owner(e) => d = e

WithinPool ==
    \A d \in Drain : IsFiniteSet(Running(d)) /\ Cardinality(Running(d)) <= PoolSize

PoolInv == OneDrain /\ WithinPool

LEMMA PoolInitInv == Init => PoolInv
<1> SUFFICES ASSUME Init PROVE PoolInv
  OBVIOUS
<1>1. OneDrain
  BY DEF Init, OneDrain
<1>2. \A d \in Drain : Running(d) = {}
  BY EmptyFcn DEF Init, Running
<1> QED BY <1>1, <1>2, FS_EmptySet, BuildSystemAssumption DEF PoolInv, WithinPool

(* Fewer jobs run than before.                                             *)
LEMMA FewerRunning ==
    ASSUME WithinPool, \A d \in Drain : Running(d)' \subseteq Running(d)
    PROVE  WithinPool'
<1> SUFFICES ASSUME NEW d \in Drain
             PROVE  IsFiniteSet(Running(d)') /\ Cardinality(Running(d)') <= PoolSize
  BY DEF WithinPool
<1>1. IsFiniteSet(Running(d)) /\ Cardinality(Running(d)) <= PoolSize
  BY DEF WithinPool
<1>2. IsFiniteSet(Running(d)') /\ Cardinality(Running(d)') <= Cardinality(Running(d))
  BY <1>1, FS_Subset
<1>3. Cardinality(Running(d)) \in Nat /\ Cardinality(Running(d)') \in Nat
  BY <1>1, <1>2, FS_CardinalityType
<1> QED BY <1>1, <1>2, <1>3, BuildSystemAssumption

(* One drain at a time: a drain starts where none runs, and the flag falls
   only with the drain that set it.                                        *)
LEMMA ReturnPool ==
    ASSUME SysInv, OneDrain, NEW d \in Drain, pc[d] # "idle", Return(d)
    PROVE  OneDrain' /\ \A e \in Drain : Running(e)' \subseteq Running(e)
<1> USE DEF SysInv, SysTypeOK, DrainTypeOK, Return
<1>1. OneDrain'
  BY DEF OneDrain, Owner, Drain
<1>2. \A e \in Drain : job'[e] = job[e] \/ DOMAIN job'[e] = {}
  BY EmptyFcn
<1> QED BY <1>1, <1>2 DEF Running

LEMMA PoolStepInv == SysInv /\ PoolInv /\ [Next]_sysVars => PoolInv'
<1> SUFFICES ASSUME SysInv, PoolInv, [Next]_sysVars PROVE PoolInv'
  OBVIOUS
<1> USE DEF PoolInv
<1>a. \A d \in Drain : Owner(d) \in Worker
  BY DEF Owner, Drain
<1>b. DrainTypeOK
  BY DEF SysInv, SysTypeOK
<1>1. CASE UNCHANGED drainVars
  BY <1>1 DEF drainVars, OneDrain, WithinPool, Running
<1>2. UserStep => UNCHANGED drainVars
  BY DEF UserStep, PostPlan, EnqueueBuildsCheck, EnqueueBuildsAct, EnqueueBuild, DeletePlans,
         ClearBuilds
<1>3. ASSUME NEW d \in Drain, RunDrain(d) PROVE PoolInv'
  <2>1. OneDrain'
    BY <1>3, <1>a, <1>b DEF RunDrain, OneDrain, DrainTypeOK
  <2>2. \A e \in Drain : Running(e)' = Running(e)
    BY <1>3 DEF RunDrain, Running
  <2> QED BY <2>1, <2>2, FewerRunning
<1>4. ASSUME NEW d \in Drain,
             \/ PopBuildQueue(d) \/ RequeueFails(d) \/ PopAnswers(d) \/ LeaseFails(d)
             \/ PopFails(d) \/ DrainReturns(d)
      PROVE  PoolInv'
  <2>1. CASE Return(d)
    <3>1. pc[d] # "idle"
      BY <1>4 DEF PopBuildQueue, RequeueFails, PopAnswers, LeaseFails, PopFails, DrainReturns
    <3> QED BY <2>1, <3>1, ReturnPool, FewerRunning
  <2>2. CASE /\ pc[d] # "idle" /\ \E l \in {"lease", "match"} : pc' = [pc EXCEPT ![d] = l]
             /\ UNCHANGED <<draining, job>>
    <3>1. OneDrain'
      BY <2>2, <1>b DEF OneDrain, DrainTypeOK
    <3>2. \A e \in Drain : Running(e)' = Running(e)
      BY <2>2 DEF Running
    <3> QED BY <3>1, <3>2, FewerRunning
  <2> QED
    BY <1>4, <2>1, <2>2 DEF PopBuildQueue, RequeueFails, PopAnswers, LeaseFails, PopFails, DrainReturns
<1>5. ASSUME NEW d \in Drain, JobsFromBuildQueue(d) PROVE PoolInv'
  <2>1. OneDrain'
    BY <1>5, <1>b DEF JobsFromBuildQueue, OneDrain, DrainTypeOK
  <2>2. \A e \in Drain : job'[e] = job[e] \/ \A k \in DOMAIN job'[e] : job'[e][k] = "waiting"
    BY <1>5, <1>b DEF JobsFromBuildQueue, DrainTypeOK
  <2> QED BY <2>1, <2>2, FewerRunning DEF Running
<1>6. ASSUME NEW d \in Drain, Wait(d) \/ CancelContext(d) PROVE PoolInv'
  <2>1. OneDrain'
    BY <1>6, <1>b DEF Wait, CancelContext, OneDrain, DrainTypeOK
  <2>2. \A e \in Drain : Running(e)' = Running(e)
    BY <1>6 DEF Wait, CancelContext, Running
  <2> QED BY <2>1, <2>2, FewerRunning
<1>7. ASSUME NEW d \in Drain, NEW k \in Key, StartJob(d, k) PROVE PoolInv'
  <2>1. OneDrain'
    BY <1>7 DEF StartJob, OneDrain
  <2>2. /\ Running(d)' = Running(d) \cup {k}
        /\ k \notin Running(d)
        /\ \A e \in Drain : e # d => Running(e)' = Running(e)
    BY <1>7, <1>b DEF StartJob, Running, DrainTypeOK
  <2>3. IsFiniteSet(Running(d)) /\ Cardinality(Running(d)) < PoolSize
    BY <1>7 DEF StartJob, WithinPool
  <2>4. /\ IsFiniteSet(Running(d)')
        /\ Cardinality(Running(d)') = Cardinality(Running(d)) + 1
        /\ Cardinality(Running(d)) \in Nat
    BY <2>2, <2>3, FS_AddElement, FS_CardinalityType
  <2>5. Cardinality(Running(d)') <= PoolSize
    BY <2>3, <2>4, BuildSystemAssumption
  <2>6. WithinPool'
    BY <2>2, <2>4, <2>5 DEF WithinPool
  <2> QED BY <2>1, <2>6
<1>8. ASSUME NEW d \in Drain, NEW k \in Key,
             \/ FetchWheelFails(d, k) \/ SkipLost(d, k)
             \/ \E o \in {"ok", "err"} : RunnerReturns(d, k, o)
             \/ \E applied \in BOOLEAN : ReportResult(d, k, applied)
      PROVE  PoolInv'
  <2>1. UNCHANGED <<draining, pc>>
    BY <1>8 DEF FetchWheelFails, SkipLost, RunnerReturns, ReportResult
  <2>2. \E o \in {"lost", "done", "ok", "err"} : job' = [job EXCEPT ![d][k] = o]
    BY <1>8 DEF FetchWheelFails, SkipLost, RunnerReturns, ReportResult
  <2>3. \A e \in Drain : Running(e)' \subseteq Running(e)
    BY <1>b, <2>2 DEF Running, DrainTypeOK
  <2> QED BY <2>1, <2>3, FewerRunning DEF OneDrain
<1>9. ASSUME NEW w \in Worker, Crash(w) PROVE PoolInv'
  <2>1. OneDrain'
    BY <1>9, <1>a, <1>b DEF Crash, OneDrain, DrainTypeOK
  <2>2. \A e \in Drain : job'[e] = job[e] \/ DOMAIN job'[e] = {}
    BY <1>9, EmptyFcn DEF Crash
  <2> QED BY <2>1, <2>2, FewerRunning DEF Running
<1>10. ASSUME NEW k \in Key, TimePasses(k) PROVE PoolInv'
  BY <1>1, <1>10 DEF TimePasses
<1>11. CASE UNCHANGED sysVars
  BY <1>1, <1>11 DEF sysVars
<1> QED BY <1>1, <1>2, <1>3, <1>4, <1>5, <1>6, <1>7, <1>8, <1>9, <1>10, <1>11 DEF Next, DrainStep

(* The containers of a worker are those of its one drain.                  *)
LEMMA PoolInvGives == SysInv /\ PoolInv => PoolRespected
<1> SUFFICES ASSUME SysInv, PoolInv, NEW w \in Worker
             PROVE  Cardinality({x \in Caller \X Key : x[2] \in Running(<<w, x[1]>>)}) <= PoolSize
  BY DEF PoolRespected
<1> DEFINE all == {x \in Caller \X Key : x[2] \in Running(<<w, x[1]>>)}
<1>1. \A c \in Caller : <<w, c>> \in Drain /\ Owner(<<w, c>>) = w
  BY DEF Drain, Owner
<1>2. \A c \in Caller : pc[<<w, c>>] = "idle" => Running(<<w, c>>) = {}
  BY <1>1 DEF SysInv, PcFacts, Running
<1> SUFFICES Cardinality(all) <= PoolSize
  OBVIOUS
<1>3. CASE all = {}
  <2>1. Cardinality(all) = 0
    BY <1>3, FS_EmptySet
  <2> QED BY <2>1, BuildSystemAssumption
<1>4. CASE all # {}
  <2>1. PICK x \in all : TRUE
    BY <1>4
  <2> DEFINE c == x[1]
             R == Running(<<w, c>>)
             f == [k \in R |-> <<c, k>>]
  <2>2. c \in Caller /\ pc[<<w, c>>] # "idle"
    BY <1>2, <2>1
  <2>3. \A y \in all : y[1] = c
    <3> SUFFICES ASSUME NEW y \in all PROVE y[1] = c
      OBVIOUS
    <3>1. y[1] \in Caller /\ pc[<<w, y[1]>>] # "idle"
      BY <1>2
    <3>2. <<w, y[1]>> = <<w, c>>
      BY <1>1, <2>2, <3>1 DEF PoolInv, OneDrain
    <3> QED BY <3>2
  <2>4. IsFiniteSet(R) /\ Cardinality(R) <= PoolSize
    BY <1>1, <2>2 DEF PoolInv, WithinPool
  <2>5. R \subseteq Key
    BY <1>1, <2>2 DEF SysInv, SysTypeOK, DrainTypeOK, Running
  <2>6. f \in Surjection(R, all)
    <3>1. \A k \in R : f[k] \in all
      BY <2>2, <2>5
    <3>2. \A y \in all : y[2] \in R /\ y = <<c, y[2]>>
      BY <2>3
    <3>3. \A y \in all : f[y[2]] = y
      BY <3>2
    <3> HIDE DEF f, all
    <3>4. f \in [R -> all]
      BY <3>1 DEF f
    <3> QED BY <3>2, <3>3, <3>4 DEF Surjection
  <2>7. IsFiniteSet(all) /\ Cardinality(all) <= Cardinality(R)
    BY <2>4, <2>6, FS_Surjection
  <2>8. Cardinality(all) \in Nat /\ Cardinality(R) \in Nat
    BY <2>4, <2>7, FS_CardinalityType
  <2> QED BY <2>4, <2>7, <2>8, BuildSystemAssumption
<1> QED BY <1>3, <1>4

(* For any number of callers of runDrain and any pool size: a worker never
   runs more containers at once than BUILD_POOL_SIZE, however many triggers
   arrive while a drain is under way.                                      *)
THEOREM PoolIsRespected == Spec => []PoolRespected
  BY InitInv, StepInv, PoolInitInv, PoolStepInv, PoolInvGives, PTL DEF Spec
=============================================================================
