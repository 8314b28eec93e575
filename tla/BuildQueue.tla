----------------------------- MODULE BuildQueue -----------------------------
(***************************************************************************)
(* The control-plane's durable build queue: the build_status table and the *)
(* operations of store/postgres.go that change it, as the HTTP handlers of *)
(* api/handlers.go call them.  One action is one committed transaction.    *)
(*                                                                         *)
(* The clients are left open: any holder of the worker token may report    *)
(* any status with any attempt number for any build at any time, because   *)
(* UpdateBuildStatus checks nothing about the row it overwrites.  Module   *)
(* BuildSystem closes the queue with the workers and the UI that really    *)
(* call it.                                                                *)
(*                                                                         *)
(* Time is abstracted to what the queue compares: a lease is "fresh" or    *)
(* "stale" (older than BUILD_LEASE_TIMEOUT_SEC), a backoff is "waiting" or *)
(* "due"; created_at is abstracted to the order it induces.                *)
(***************************************************************************)
EXTENDS Integers, FiniteSets, FiniteSetsExt

CONSTANTS
    Key,               \* package/version pairs, the unique key of build_status
    Plan,              \* plan ids
    NoPlan,            \* the SQL NULL of run_id, plan_id, python_tag, platform_tag
    Nodes,             \* plan id -> the keys of its nodes with action "build"
    BatchMax,          \* the max of one POST /api/build-queue/pop
    LeaseTimeoutOn,    \* BUILD_LEASE_TIMEOUT_SEC > 0
    AttemptBound       \* bound: no row is leased past this attempt number

ASSUME BuildQueueAssumption ==
    /\ NoPlan \notin Plan
    /\ Nodes \in [Plan -> SUBSET Key]
    /\ BatchMax \in Nat \ {0}
    /\ LeaseTimeoutOn \in BOOLEAN
    /\ AttemptBound \in Nat

VARIABLES
    rows,     \* build_status: a function from the keys that have a row
    before    \* {<<a, b>> : a's created_at is earlier than b's}

queueVars == <<rows, before>>

(***************************************************************************)
(* "cached" stands for every status the SQL CASEs do not name (cached,     *)
(* reused, missing, skipped_known_failure, system_recipe_failed).          *)
(***************************************************************************)
Status == {"pending", "retry", "leased", "building", "built", "failed", "cached"}
Active == {"pending", "retry", "leased", "building"}
Waiting == {"pending", "retry"}
Backoff == {"none", "waiting", "due"}
LeasedAt == {"null", "fresh", "stale"}

Row == [status   : Status,
        attempts : Nat,
        backoff  : Backoff,            \* backoff_until: NULL, later or past
        plan     : Plan \cup {NoPlan},
        leasedAt : LeasedAt,           \* leased_at: NULL, young or expired
        started  : BOOLEAN,            \* started_at is not NULL
        finished : BOOLEAN]            \* finished_at is not NULL

Present == DOMAIN rows

-----------------------------------------------------------------------------
(* Row-level helpers: the SET lists of the SQL statements.                 *)

(* INSERT ... ON CONFLICT (package, version) DO UPDATE: write row r at k.  *)
Put(t, k, r) == [j \in (DOMAIN t) \cup {k} |-> IF j = k THEN r ELSE t[j]]

(* Rows inserted by one transaction share their created_at (NOW() is the
   start of the transaction), later than that of every row already there.  *)
Inserted(new) == before \cup (Present \X (new \ Present))

(* The row UpdateBuildStatus inserts: run_id, plan_id and the tags stay
   NULL.                                                                   *)
ReportedNewRow(s, a, b) ==
    [status |-> s, attempts |-> a, backoff |-> b, plan |-> NoPlan,
     leasedAt |-> IF s = "leased" THEN "fresh" ELSE "null",
     started |-> s = "building",
     finished |-> s \in {"built", "failed"}]

(* Mutant of ReportedOldRow: a report of "leased" does not date the lease
   and finished_at survives a new run.                                     *)
ReportedOldRow_Undated(r, s, a, b) ==
    [r EXCEPT !.status = s, !.attempts = a, !.backoff = b,
              !.leasedAt = IF s \in Waiting THEN "null" ELSE @,
              !.started = s = "building" \/ (@ /\ s \notin Active),
              !.finished = s \in {"built", "failed"} \/ @]

(* The row UpdateBuildStatus leaves when the key has one already.          *)
ReportedOldRow(r, s, a, b) ==
    [r EXCEPT
        !.status = s,
        !.attempts = a,
        !.backoff = b,
        !.leasedAt = CASE s \in Waiting -> "null"
                       [] s = "leased" /\ @ = "null" -> "fresh"
                       [] OTHER -> @,
        !.started = CASE s \in {"pending", "retry", "leased"} -> FALSE
                      [] s = "building" -> TRUE
                      [] OTHER -> @,
        !.finished = CASE s \in Active -> FALSE
                       [] s \in {"built", "failed"} -> TRUE
                       [] OTHER -> @]

(* Mutant of NonNegative: the check of the attempt number is forgotten.    *)
NonNegative_Dropped(a) == a

NonNegative(a) == IF a < 0 THEN 0 ELSE a

ReportedRow(t, k, s, a, b) ==
    IF k \in DOMAIN t THEN ReportedOldRow(t[k], s, a, b)
                      ELSE ReportedNewRow(s, a, b)

(* The row QueueBuildsFromPlan writes for a build node of plan p.  On
   conflict the lease and run timestamps of the old row are not touched,
   whatever its status is.                                                 *)
QueuedRow(t, k, p) ==
    IF k \in DOMAIN t
    THEN [t[k] EXCEPT !.status = "pending", !.attempts = 0,
                      !.backoff = "none", !.plan = p]
    ELSE [status |-> "pending", attempts |-> 0, backoff |-> "none", plan |-> p,
          leasedAt |-> "null", started |-> FALSE, finished |-> FALSE]

(* Mutant of ExpiredLease: only a lease that was reported as started is
   taken for abandoned.                                                    *)
ExpiredLease_Started(r) == r.status = "building" /\ r.leasedAt = "stale"

(* The WHERE clause of RequeueStaleLeases.  updated_at, the fallback of
   COALESCE(leased_at, updated_at), is never consulted: a leased row always
   has leased_at (StampsFitStatus).                                        *)
ExpiredLease(r) == r.status = "leased" /\ r.leasedAt = "stale"

Requeued(t) ==
    [k \in DOMAIN t |->
        IF LeaseTimeoutOn /\ ExpiredLease(t[k])
        THEN [t[k] EXCEPT !.status = "pending", !.backoff = "none",
                          !.leasedAt = "null", !.started = FALSE,
                          !.finished = FALSE]
        ELSE t[k]]

(* Mutant of Ready: a backoff that is NULL does not compare as over.       *)
Ready_NoNull(t) == {k \in DOMAIN t : /\ t[k].status \in Waiting
                                     /\ t[k].backoff = "due"
                                     /\ t[k].attempts < AttemptBound}

(* The WHERE clause of LeaseBuilds, with the model's bound on attempts.    *)
Ready(t) == {k \in DOMAIN t : /\ t[k].status \in Waiting
                              /\ t[k].backoff # "waiting"
                              /\ t[k].attempts < AttemptBound}

(* ORDER BY created_at ASC ... LIMIT max: rows of equal age in any order.  *)
Leasable(t) ==
    {S \in SUBSET Ready(t) :
        /\ Cardinality(S) = Min({BatchMax, Cardinality(Ready(t))})
        /\ \A a \in S, b \in Ready(t) \ S : <<b, a>> \notin before}

(* Mutant of LeasedRow: the attempt is not counted.                        *)
LeasedRow_Uncounted(r) == [r EXCEPT !.status = "leased", !.leasedAt = "fresh",
                                    !.started = FALSE, !.finished = FALSE]

LeasedRow(r) == [r EXCEPT !.status = "leased", !.attempts = @ + 1,
                          !.leasedAt = "fresh", !.started = FALSE,
                          !.finished = FALSE]

Leased(t, S) == [k \in DOMAIN t |-> IF k \in S THEN LeasedRow(t[k]) ELSE t[k]]

(* rows.Scan reads run_id, plan_id and the tags into plain Go values, which
   fails on NULL: ListBuilds and LeaseBuilds then return an error.         *)
Scannable(t, S) == \A k \in S : t[k].plan # NoPlan

(* Queued of PlanSnapshot: the plan has builds waiting or under way.       *)
PlanQueued(p) == \E k \in Present : rows[k].plan = p /\ rows[k].status \in Active

-----------------------------------------------------------------------------
(* Actions.                                                                *)

(* QueueBuildsFromPlan for the nodes K of plan p (all of the plan's, or one
   for enqueue-build), in one transaction.                                 *)
QueueBuildsFromPlan(p, K) ==
    /\ rows' = [k \in Present \cup K |-> IF k \in K THEN QueuedRow(rows, k, p)
                                                    ELSE rows[k]]
    /\ before' = Inserted(K)

(* POST /api/builds/status.                                                *)
UpdateBuildStatus(k, s, a, b) ==
    /\ rows' = Put(rows, k, ReportedRow(rows, k, s, NonNegative(a), b))
    /\ before' = Inserted({k})

(* POST /api/build-queue/pop, in two transactions: expired leases go back to
   pending, and then S is leased.  When a row of S cannot be scanned the
   second one rolls back and the handler answers 500.                      *)
RequeueStaleLeases ==
    /\ rows' = Requeued(rows)
    /\ UNCHANGED before

LeaseBuilds(S) ==
    /\ S \in Leasable(rows)
    /\ rows' = IF Scannable(rows, S) THEN Leased(rows, S) ELSE rows
    /\ UNCHANGED before

(* DELETE /api/builds with a status filter, or without one ("").           *)
DeleteBuilds(f) ==
    LET kept == {k \in Present : f # "" /\ rows[k].status # f} IN
    /\ rows' = [k \in kept |-> rows[k]]
    /\ before' = {e \in before : e[1] \in kept /\ e[2] \in kept}

(* Time passes: the lease of k gets older than the timeout.                *)
LeaseAges(k) ==
    /\ k \in Present
    /\ rows[k].leasedAt = "fresh"
    /\ rows' = [rows EXCEPT ![k].leasedAt = "stale"]
    /\ UNCHANGED before

(* Time passes: the backoff of k is over.                                  *)
BackoffElapses(k) ==
    /\ k \in Present
    /\ rows[k].backoff = "waiting"
    /\ rows' = [rows EXCEPT ![k].backoff = "due"]
    /\ UNCHANGED before

-----------------------------------------------------------------------------
QueueInit ==
    /\ rows = [k \in {} |-> NoPlan]
    /\ before = {}

QueueNext ==
    \/ \E p \in Plan, K \in SUBSET Key : K \subseteq Nodes[p] /\ QueueBuildsFromPlan(p, K)
    \/ \E k \in Key, s \in Status, a \in -1..AttemptBound, b \in Backoff :
          UpdateBuildStatus(k, s, a, b)
    \/ RequeueStaleLeases
    \/ \E S \in SUBSET Key : LeaseBuilds(S)
    \/ \E f \in Status \cup {""} : DeleteBuilds(f)
    \/ \E k \in Key : LeaseAges(k) \/ BackoffElapses(k)

QueueSpec == QueueInit /\ [][QueueNext]_queueVars

-----------------------------------------------------------------------------
(* Properties.                                                             *)

(* Type invariant of the build_status table.                               *)
QueueTypeOK ==
    /\ Present \subseteq Key
    /\ rows \in [Present -> Row]
    /\ before \subseteq Present \X Present

RowStampsFit(r) ==
    /\ r.status = "leased" => r.leasedAt # "null" /\ ~r.started /\ ~r.finished
    /\ r.status = "building" => r.started /\ ~r.finished
    /\ r.status \in {"built", "failed"} => r.finished

(* The timestamps a row carries fit its status, whatever the order of
   enqueues, leases, expiries and (late or duplicate) reports: a leased row
   has leased_at, so that RequeueStaleLeases can find it and never falls
   back to updated_at, and shows no run; a building row has started_at and
   no finished_at; a finished row has finished_at.                         *)
StampsFitStatus == \A k \in Present : RowStampsFit(rows[k])
=============================================================================
