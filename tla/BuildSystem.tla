---------------------------- MODULE BuildSystem -----------------------------
(***************************************************************************)
(* The build queue closed with those who use it: the workers that drain it *)
(* (go-worker/internal/service, Run, buildLoop and Drain) and the people   *)
(* who enqueue, clear and delete through the control-plane's API.          *)
(*                                                                         *)
(* A worker process has two callers of runDrain, the build loop and the    *)
(* /trigger handler; drainInProgress lets one in.  A drain pops a batch,   *)
(* turns it into jobs, runs them in a pool, waits for all of them and then *)
(* reports.  HTTP requests may be lost, a worker may crash at any step,    *)
(* and a drain's context may be cancelled (30 minute timeout, or the       *)
(* client of /trigger going away) before or while the jobs run.            *)
(***************************************************************************)
EXTENDS BuildQueue

CONSTANTS
    Worker,              \* worker processes
    Caller,              \* who calls runDrain: the build loop, the /trigger handler
    PoolSize,            \* BUILD_POOL_SIZE
    MaxRequeueAttempts,  \* MAX_REQUEUE_ATTEMPTS
    RequeueOnFailure,    \* REQUEUE_ON_FAILURE
    Faults,              \* requests get lost, contexts are cancelled, workers crash
    EnqueueBound,        \* bound: how often a key is enqueued
    HandlerBound         \* bound: enqueue-builds handlers of one plan at a time

ASSUME BuildSystemAssumption ==
    /\ PoolSize \in Nat \ {0}
    /\ MaxRequeueAttempts \in Nat
    /\ RequeueOnFailure \in BOOLEAN
    /\ Faults \in BOOLEAN
    /\ EnqueueBound \in Nat
    /\ HandlerBound \in Nat

Drain == Worker \X Caller

VARIABLES
    draining,    \* drainInProgress of each worker
    pc,          \* where each drain is: idle, pop, lease, match, run, report
    ctxLive,     \* the context a drain passes to its HTTP requests is not cancelled
    held,        \* reqs of each drain: key -> the lease it was handed
    job,         \* jobs of each drain: key -> waiting, running, ok, err, lost, done
    plans,       \* plan ids -> new, saved, deleted
    checked,     \* enqueue-builds handlers past their "already enqueued" check
    manifest,    \* the last status PostManifest recorded for a key
    enqueues     \* history: how often QueueBuildsFromPlan enqueued a key

drainVars == <<draining, pc, ctxLive, held, job>>
sysVars == <<queueVars, drainVars, plans, checked, manifest, enqueues>>

Empty == [k \in {} |-> 0]
Lease == [attempt : Nat, enq : Nat, plan : Plan]
JobState == {"waiting", "running", "ok", "err", "lost", "done"}

Running(d) == {k \in DOMAIN job[d] : job[d][k] = "running"}

-----------------------------------------------------------------------------
(* The UI and the control-plane's own enqueues.                            *)

Enqueue(p, K) ==
    /\ \A k \in K : enqueues[k] < EnqueueBound
    /\ QueueBuildsFromPlan(p, K)
    /\ enqueues' = [k \in Key |-> IF k \in K THEN enqueues[k] + 1 ELSE enqueues[k]]

(* POST /api/plan: the plan is saved and, with AUTO_BUILD, its builds are
   enqueued; plan ids are never reused.                                    *)
PostPlan(p, auto) ==
    /\ plans[p] = "new"
    /\ plans' = [plans EXCEPT ![p] = "saved"]
    /\ IF auto THEN Enqueue(p, Nodes[p]) ELSE UNCHANGED <<queueVars, enqueues>>
    /\ UNCHANGED <<drainVars, checked, manifest>>

(* POST /api/plan/{id}/enqueue-builds is a check and then an act: another
   handler may run between PlanSnapshot and QueueBuildsFromPlan.           *)
EnqueueBuildsCheck(p) ==
    /\ plans[p] = "saved"
    /\ ~PlanQueued(p)
    /\ checked[p] < HandlerBound
    /\ checked' = [checked EXCEPT ![p] = @ + 1]
    /\ UNCHANGED <<queueVars, drainVars, plans, manifest, enqueues>>

EnqueueBuildsAct(p) ==
    /\ checked[p] > 0
    /\ checked' = [checked EXCEPT ![p] = @ - 1]
    /\ Enqueue(p, Nodes[p])
    /\ UNCHANGED <<drainVars, plans, manifest>>

(* POST /api/plan/{id}/enqueue-build: one node, whatever its row's status. *)
EnqueueBuild(p, k) ==
    /\ plans[p] = "saved"
    /\ k \in Nodes[p]
    /\ Enqueue(p, {k})
    /\ UNCHANGED <<drainVars, plans, checked, manifest>>

(* DELETE /api/plans, one plan or all: their builds stay in the queue.     *)
DeletePlans(D) ==
    /\ D \subseteq {p \in Plan : plans[p] = "saved"}
    /\ plans' = [p \in Plan |-> IF p \in D THEN "deleted" ELSE plans[p]]
    /\ UNCHANGED <<queueVars, drainVars, checked, manifest, enqueues>>

ClearBuilds(f) ==
    /\ DeleteBuilds(f)
    /\ UNCHANGED <<drainVars, plans, checked, manifest, enqueues>>

TimePasses(k) ==
    /\ LeaseAges(k) \/ BackoffElapses(k)
    /\ UNCHANGED <<drainVars, plans, checked, manifest, enqueues>>

-----------------------------------------------------------------------------
(* The worker.                                                             *)

Owner(d) == d[1]

(* Mutant of Return: drainInProgress is not reset.                         *)
Return_KeepsFlag(d) ==
    /\ pc' = [pc EXCEPT ![d] = "idle"]
    /\ ctxLive' = [ctxLive EXCEPT ![d] = FALSE]
    /\ held' = [held EXCEPT ![d] = Empty]
    /\ job' = [job EXCEPT ![d] = Empty]
    /\ UNCHANGED draining

Return(d) ==
    /\ pc' = [pc EXCEPT ![d] = "idle"]
    /\ draining' = [draining EXCEPT ![Owner(d)] = FALSE]
    /\ ctxLive' = [ctxLive EXCEPT ![d] = FALSE]
    /\ held' = [held EXCEPT ![d] = Empty]
    /\ job' = [job EXCEPT ![d] = Empty]

(* Mutant of RunDrain: the flag is set without being tested.               *)
RunDrain_NoTest(d) ==
    /\ pc[d] = "idle"
    /\ draining' = [draining EXCEPT ![Owner(d)] = TRUE]
    /\ pc' = [pc EXCEPT ![d] = "pop"]
    /\ ctxLive' = [ctxLive EXCEPT ![d] = TRUE]
    /\ UNCHANGED <<queueVars, held, job, plans, checked, manifest, enqueues>>

(* runDrain: CompareAndSwap(false, true), then Drain.  A caller that finds
   a drain in progress returns at once.                                    *)
RunDrain(d) ==
    /\ pc[d] = "idle"
    /\ ~draining[Owner(d)]
    /\ draining' = [draining EXCEPT ![Owner(d)] = TRUE]
    /\ pc' = [pc EXCEPT ![d] = "pop"]
    /\ ctxLive' = [ctxLive EXCEPT ![d] = TRUE]
    /\ UNCHANGED <<queueVars, held, job, plans, checked, manifest, enqueues>>

(* The reqs of the response to a pop that leased S in table t.             *)
Leases(t, S) == [k \in S |-> [attempt |-> t[k].attempts, enq |-> enqueues[k],
                              plan |-> t[k].plan]]

(* popBuildQueue: the handler requeues; it ignores an error.                *)
PopBuildQueue(d) ==
    /\ pc[d] = "pop"
    /\ ctxLive[d]
    /\ RequeueStaleLeases
    /\ pc' = [pc EXCEPT ![d] = "lease"]
    /\ UNCHANGED <<draining, ctxLive, held, job, plans, checked, manifest, enqueues>>

RequeueFails(d) ==
    /\ Faults
    /\ pc[d] = "pop"
    /\ ctxLive[d]
    /\ pc' = [pc EXCEPT ![d] = "lease"]
    /\ UNCHANGED <<queueVars, draining, ctxLive, held, job, plans, checked, manifest, enqueues>>

(* The handler leases and answers.  The drain goes on when the answer brings
   at least one build; it returns on an empty answer, on an error, and when
   the answer is lost after the control-plane leased the rows.             *)
PopAnswers(d) ==
    /\ pc[d] = "lease"
    /\ \E S \in SUBSET Key :
          /\ LeaseBuilds(S)
          /\ \/ /\ S # {} /\ Scannable(rows, S)
                /\ held' = [held EXCEPT ![d] = Leases(rows', S)]
                /\ pc' = [pc EXCEPT ![d] = "match"]
                /\ UNCHANGED <<draining, ctxLive, job>>
             \/ /\ Faults \/ S = {} \/ ~Scannable(rows, S)
                /\ Return(d)
    /\ UNCHANGED <<plans, checked, manifest, enqueues>>

(* The transaction of LeaseBuilds fails, or the worker gives up or dies
   before it.                                                              *)
LeaseFails(d) ==
    /\ Faults
    /\ pc[d] = "lease"
    /\ Return(d)
    /\ UNCHANGED <<queueVars, plans, checked, manifest, enqueues>>

(* A request on a cancelled context is not sent: the pop fails.            *)
PopFails(d) ==
    /\ pc[d] = "pop"
    /\ ~ctxLive[d]
    /\ Return(d)
    /\ UNCHANGED <<queueVars, plans, checked, manifest, enqueues>>

(* jobsFromBuildQueue: one job for each build whose plan can be fetched;
   builds of a plan that is deleted or whose fetch fails are only logged.  *)
JobsFromBuildQueue(d) ==
    /\ pc[d] = "match"
    /\ \E fetched \in SUBSET Plan :
          LET saved == {p \in Plan : plans[p] = "saved" /\ ctxLive[d]}
              K == {k \in DOMAIN held[d] : held[d][k].plan \in fetched} IN
          /\ fetched \subseteq saved /\ (Faults \/ fetched = saved)
          /\ held' = [held EXCEPT ![d] = [k \in K |-> held[d][k]]]
          /\ job' = [job EXCEPT ![d] = [k \in K |-> "waiting"]]
    /\ pc' = [pc EXCEPT ![d] = "run"]
    /\ UNCHANGED <<queueVars, draining, ctxLive, plans, checked, manifest, enqueues>>

(* reportBuildStatus: the report reaches the control-plane, or is lost; on a
   cancelled context the request is never sent.                            *)
ReportBuildStatus(d, k, s, b) ==
    \/ ctxLive[d] /\ UpdateBuildStatus(k, s, held[d][k].attempt, b)
    \/ (Faults \/ ~ctxLive[d]) /\ UNCHANGED queueVars

(* A slot of the errgroup's pool is free: the goroutine of k reports
   "building" and starts the container.                                    *)
StartJob(d, k) ==
    /\ pc[d] = "run"
    /\ k \in DOMAIN job[d] /\ job[d][k] = "waiting"
    /\ Cardinality(Running(d)) < PoolSize
    /\ job' = [job EXCEPT ![d][k] = "running"]
    /\ ReportBuildStatus(d, k, "building", "none")
    /\ UNCHANGED <<draining, pc, ctxLive, held, plans, checked, manifest, enqueues>>

(* The plan's DAG says the wheel can be reused, but fetchWheel fails: the
   goroutine returns the error, which cancels the context of the whole
   group, and leaves results[i] zero.                                      *)
FetchWheelFails(d, k) ==
    /\ Faults
    /\ pc[d] = "run"
    /\ k \in DOMAIN job[d] /\ job[d][k] = "waiting"
    /\ Cardinality(Running(d)) < PoolSize
    /\ job' = [job EXCEPT ![d][k] = "lost"]
    /\ ctxLive' = [ctxLive EXCEPT ![d] = FALSE]
    /\ UNCHANGED <<queueVars, draining, pc, held, plans, checked, manifest, enqueues>>

(* Runner.Run returns; a cancelled context kills the container.            *)
RunnerReturns(d, k, outcome) ==
    /\ pc[d] = "run"
    /\ k \in Running(d)
    /\ outcome = "ok" => ctxLive[d]
    /\ job' = [job EXCEPT ![d][k] = outcome]
    /\ UNCHANGED <<queueVars, draining, pc, ctxLive, held, plans, checked, manifest, enqueues>>

(* g.Wait() returns when every goroutine has, and cancels the context made
   by errgroup.WithContext, which Drain has assigned to its own ctx.       *)
Wait(d) ==
    /\ pc[d] = "run"
    /\ \A k \in DOMAIN job[d] : job[d][k] \in {"ok", "err", "lost"}
    /\ pc' = [pc EXCEPT ![d] = "report"]
    /\ ctxLive' = [ctxLive EXCEPT ![d] = FALSE]
    /\ UNCHANGED <<queueVars, draining, held, job, plans, checked, manifest, enqueues>>

(* Mutant of ResultStatus: a build to be retried is reported as pending.   *)
ResultStatus_Pending(outcome, attempt, applied) ==
    CASE outcome = "ok" -> "built"
      [] outcome = "err" /\ attempt < MaxRequeueAttempts -> "pending"
      [] OTHER -> "failed"

(* The status of a result: autoFix may have found recipes to apply.        *)
ResultStatus(outcome, attempt, applied) ==
    CASE outcome = "ok" -> "built"
      [] outcome = "err" /\ (applied \/ RequeueOnFailure)
                         /\ attempt < MaxRequeueAttempts -> "retry"
      [] OTHER -> "failed"

(* The loop over results: the status report goes out on ctx, the log, the
   manifest and the event through the Reporter, which takes no context; the
   manifest may be lost, too.                                              *)
ReportResult(d, k, applied) ==
    LET s == ResultStatus(job[d][k], held[d][k].attempt, applied) IN
    /\ pc[d] = "report"
    /\ k \in DOMAIN job[d] /\ job[d][k] \in {"ok", "err"}
    /\ ReportBuildStatus(d, k, s, IF s = "retry" THEN "waiting" ELSE "none")
    /\ \/ manifest' = [manifest EXCEPT ![k] = s]
       \/ Faults /\ UNCHANGED manifest
    /\ job' = [job EXCEPT ![d][k] = "done"]
    /\ UNCHANGED <<draining, pc, ctxLive, held, plans, checked, enqueues>>

(* A zero result goes through the same loop, as a success of the build with
   no name: nothing that is recorded concerns k.                           *)
SkipLost(d, k) ==
    /\ pc[d] = "report"
    /\ k \in DOMAIN job[d] /\ job[d][k] = "lost"
    /\ job' = [job EXCEPT ![d][k] = "done"]
    /\ UNCHANGED <<queueVars, draining, pc, ctxLive, held, plans, checked, manifest, enqueues>>

(* Drain returns and the deferred store clears drainInProgress.            *)
DrainReturns(d) ==
    /\ pc[d] = "report"
    /\ \A k \in DOMAIN job[d] : job[d][k] = "done"
    /\ Return(d)
    /\ UNCHANGED <<queueVars, plans, checked, manifest, enqueues>>

(* The 30 minute timeout, or the client of /trigger going away.            *)
CancelContext(d) ==
    /\ Faults
    /\ pc[d] \in {"pop", "match", "run"}
    /\ ctxLive[d]
    /\ ctxLive' = [ctxLive EXCEPT ![d] = FALSE]
    /\ UNCHANGED <<queueVars, draining, pc, held, job, plans, checked, manifest, enqueues>>

(* The worker process dies and is restarted with nothing in memory.  In the
   middle of a pop this is an answer that is lost, or LeaseFails.          *)
Crash(w) ==
    LET mine == {d \in Drain : Owner(d) = w} IN
    /\ Faults
    /\ draining[w]
    /\ \A d \in mine : pc[d] # "lease"
    /\ draining' = [draining EXCEPT ![w] = FALSE]
    /\ pc' = [d \in Drain |-> IF d \in mine THEN "idle" ELSE pc[d]]
    /\ ctxLive' = [d \in Drain |-> IF d \in mine THEN FALSE ELSE ctxLive[d]]
    /\ held' = [d \in Drain |-> IF d \in mine THEN Empty ELSE held[d]]
    /\ job' = [d \in Drain |-> IF d \in mine THEN Empty ELSE job[d]]
    /\ UNCHANGED <<queueVars, plans, checked, manifest, enqueues>>

-----------------------------------------------------------------------------
Init ==
    /\ QueueInit
    /\ draining = [w \in Worker |-> FALSE]
    /\ pc = [d \in Drain |-> "idle"]
    /\ ctxLive = [d \in Drain |-> FALSE]
    /\ held = [d \in Drain |-> Empty]
    /\ job = [d \in Drain |-> Empty]
    /\ plans = [p \in Plan |-> "new"]
    /\ checked = [p \in Plan |-> 0]
    /\ manifest = [k \in Key |-> "none"]
    /\ enqueues = [k \in Key |-> 0]

UserStep ==
    \/ \E p \in Plan, auto \in BOOLEAN : PostPlan(p, auto)
    \/ \E p \in Plan : EnqueueBuildsCheck(p) \/ EnqueueBuildsAct(p)
    \/ \E p \in Plan, k \in Key : EnqueueBuild(p, k)
    \/ \E D \in SUBSET Plan : DeletePlans(D)
    \/ \E f \in Status \cup {""} : ClearBuilds(f)

DrainStep(d) ==
    \/ PopFails(d)
    \/ JobsFromBuildQueue(d)
    \/ \E k \in Key : StartJob(d, k) \/ FetchWheelFails(d, k) \/ SkipLost(d, k)
    \/ \E k \in Key, outcome \in {"ok", "err"} : RunnerReturns(d, k, outcome)
    \/ Wait(d)
    \/ \E k \in Key, applied \in BOOLEAN : ReportResult(d, k, applied)
    \/ DrainReturns(d)

Next ==
    \/ UserStep
    \/ \E d \in Drain :
          \/ RunDrain(d) \/ PopBuildQueue(d) \/ RequeueFails(d) \/ PopAnswers(d) \/ LeaseFails(d)
          \/ DrainStep(d) \/ CancelContext(d)
    \/ \E k \in Key : TimePasses(k)
    \/ \E w \in Worker : Crash(w)

Spec == Init /\ [][Next]_sysVars

(***************************************************************************)
(* Fairness the code justifies: the build loop's timer keeps firing; a     *)
(* drain keeps taking steps, because the pop, the plan fetch, the status   *)
(* report and the runner are bounded by timeouts or the drain's context    *)
(* and because the control-plane answers, or drops, the Reporter's posts,  *)
(* which have neither; time passes; and a worker that keeps being          *)
(* restarted is not always killed before its first request, nor does every *)
(* statement of its pops fail.  Users owe nothing.                         *)
(***************************************************************************)
Fairness ==
    /\ \A w \in Worker : WF_sysVars(\E c \in Caller : RunDrain(<<w, c>>))
    /\ \A w \in Worker : SF_sysVars(\E c \in Caller : PopBuildQueue(<<w, c>>))
    /\ \A w \in Worker : SF_sysVars(\E c \in Caller : PopAnswers(<<w, c>>))
    /\ \A d \in Drain : WF_sysVars(DrainStep(d))
    /\ \A k \in Key : WF_sysVars(TimePasses(k))

FairSpec == Spec /\ Fairness

-----------------------------------------------------------------------------
(* Properties.                                                             *)

(* Type invariant of the workers' and the users' state.                    *)
TypeOK ==
    /\ QueueTypeOK
    /\ draining \in [Worker -> BOOLEAN]
    /\ pc \in [Drain -> {"idle", "pop", "lease", "match", "run", "report"}]
    /\ ctxLive \in [Drain -> BOOLEAN]
    /\ \A d \in Drain : /\ DOMAIN held[d] \subseteq Key
                        /\ held[d] \in [DOMAIN held[d] -> Lease]
                        /\ DOMAIN job[d] \subseteq DOMAIN held[d]
                        /\ job[d] \in [DOMAIN job[d] -> JobState]
    /\ plans \in [Plan -> {"new", "saved", "deleted"}]
    /\ checked \in [Plan -> Nat]
    /\ manifest \in [Key -> {"none", "built", "failed", "retry"}]
    /\ enqueues \in [Key -> Nat]

(* An attempt number names one lease: two drains that hold the same build
   since the same enqueue were handed different attempt numbers, so their
   log streams and reports can be told apart, although a lease may expire
   while its holder is still waiting for a slot of the pool and although
   late reports overwrite the row's attempts.                              *)
LeasesAreDistinct ==
    \A d, e \in Drain : d # e =>
        \A k \in DOMAIN held[d] \cap DOMAIN held[e] :
            held[d][k].enq = held[e][k].enq => held[d][k].attempt # held[e][k].attempt

(* BUILD_POOL_SIZE caps the containers a worker process runs, over both of
   the callers that can start a drain.                                     *)
PoolRespected ==
    \A w \in Worker :
        Cardinality({x \in Caller \X Key : x[2] \in Running(<<w, x[1]>>)}) <= PoolSize

(* No lease lasts forever: a crash, a lost answer, a lost report or a
   dropped job leave a row leased only until a pop finds the lease expired. *)
LeaseEnds ==
    \A k \in Key, n \in 1..AttemptBound :
        LET leased == k \in Present /\ rows[k].status = "leased" /\ rows[k].attempts = n
        IN leased ~> ~leased

(* drainInProgress is never left set: every drain ends, whatever is lost or
   cancelled on the way, and the next trigger is let in.                   *)
DrainEnds == \A w \in Worker : draining[w] ~> ~draining[w]

(* A build that waits is leased: a pending or retry row does not stay as it
   is, although either transaction of a pop may fail, pops are lost or die
   with their worker, and drains let in before it hold the worker.         *)
WaitingIsLeased ==
    \A k \in Key, n \in 0..(AttemptBound - 1) :
        LET waits == k \in Present /\ rows[k].status \in Waiting /\ rows[k].attempts = n
        IN waits ~> ~waits

-----------------------------------------------------------------------------
(* What the repository's document says and the code does not do.           *)

(* docs/automatic-build-repair-system.md:129, of the success path: "The
   build_status row is updated to `built`."  A build whose success the
   manifest records gets a row that says so, unless the row is cleared.    *)
BuiltIsRecorded ==
    \A k \in Key : manifest[k] = "built" ~> (k \notin Present \/ rows[k].status = "built")
=============================================================================
