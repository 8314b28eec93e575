-------------------------------- MODULE Fleet --------------------------------
(***************************************************************************)
(* The settings and their way to a worker, and the worker's status on its  *)
(* way back: the settings handler and the row it writes, the automatic     *)
(* mode the control plane keeps in memory, the worker's start-up           *)
(* configuration (environment, then settings), pollSettings, which stores  *)
(* the pools, the Python version and the platform one after the other,     *)
(* their readers, which load a pool's size twice, and the heartbeats.      *)
(*                                                                         *)
(* AutoPlan and AutoBuild are treated alike and are one field, auto, with  *)
(* "unset" for a missing one; PollMs and RecentLimit concern the UI only.  *)
(* So are the two pools, of builds and of plans: one size, build.  The     *)
(* worker keeps it in a 32-bit integer, the others in wider ones; the      *)
(* width is the constant Width.  Versions and tags are names, "" for none. *)
(***************************************************************************)
EXTENDS Integers, Sequences, FiniteSets

CONSTANTS
    Posted,        \* the settings operators post, as they post them
    Env,           \* the worker's environment: pool, version and platform
    GoodPy,        \* the versions the control plane accepts: 3.x and 3.xx
    LoosePy,       \* those the worker accepts: 3. and at most three more
    CleanTag,      \* platform tags of allowed characters and length
    Handlers,      \* the settings requests that may be under way at once
    Readers,       \* the readers of the pool size: "drain", "send"
    Width,         \* bits of the worker's pool sizes (32)
    MaxPosts,      \* bound: settings posted
    MaxFaults      \* bound: requests lost, store errors, restarts, crashes

(* The records passed around; versions and tags are compared, not typed.   *)
IsSettings(s) ==
    /\ s = [build |-> s.build, py |-> s.py, plat |-> s.plat, auto |-> s.auto]
    /\ s.build \in Int /\ s.auto \in {"on", "off", "unset"}
IsConfig(c) == c = [build |-> c.build, py |-> c.py, plat |-> c.plat] /\ c.build \in Int

ASSUME FleetAssumption ==
    /\ Width \in Nat \ {0}
    /\ \A s \in Posted : IsSettings(s)
    /\ IsConfig(Env) /\ Env.build > 0
    /\ GoodPy \subseteq LoosePy
    /\ Readers \subseteq {"drain", "send"} /\ "send" \in Readers
    /\ {MaxPosts, MaxFaults} \subseteq Nat

VARIABLES
    stored,    \* the row of app_settings; NoSettings before the first post
    auto,      \* Handler.Config: the automatic mode in memory
    posting,   \* request -> the settings it is saving
    at,        \* request -> idle, save, reflect
    saved,     \* history: the rows ever committed
    alive,     \* the worker runs
    run,       \* its run id
    cfg,       \* its configuration as of its start
    pool,      \* the size, the version and the platform in use
    answer,    \* what the poll under way stores
    storeAt,   \* the fields it has yet to store
    seen,      \* reader -> it has found the stored size positive
    limit,     \* the size the latest drain took; Env's before the first
    beats,     \* heartbeats under way; late: the sender has given up on it
    status,    \* the worker's row: run id and size; NoStatus before the first
    posts, faults

cpVars == <<stored, auto, posting, at, saved, posts>>
workerVars == <<alive, run, cfg, pool, answer, storeAt>>
readVars == <<seen, limit>>
beatVars == <<beats, status>>
vars == <<stored, auto, posting, at, saved, posts, alive, run, cfg, pool, answer, storeAt,
          seen, limit, beats, status, faults>>

NoSettings == [none |-> TRUE]
NoStatus == [run |-> 0]

Fields == <<"build", "py", "plat">>

Fault == faults < MaxFaults /\ faults' = faults + 1

-----------------------------------------------------------------------------
(* The control plane.                                                      *)
DefaultSize == 2

ApplyDefaults(s) ==
    [build |-> IF s.build = 0 THEN DefaultSize ELSE s.build,
     py    |-> IF s.py = "" THEN "3.11" ELSE s.py,
     plat  |-> IF s.plat = "" THEN "manylinux2014_s390x" ELSE s.plat,
     auto  |-> IF s.auto = "unset" THEN "off" ELSE s.auto]

Empty == [build |-> 0, py |-> "", plat |-> "", auto |-> "unset"]

(* A version and a tag of the right form; any pool size passes.            *)
Validate(s) == s.py \in GoodPy /\ s.plat \in CleanTag

GetSettings == IF stored = NoSettings THEN ApplyDefaults(Empty) ELSE ApplyDefaults(stored)

(* POST /api/settings: defaults, then validation.                          *)
SettingsPost(r) ==
    /\ at[r] = "idle" /\ posts < MaxPosts
    /\ posts' = posts + 1
    /\ \E s \in Posted : /\ Validate(ApplyDefaults(s))
                         /\ posting' = [posting EXCEPT ![r] = ApplyDefaults(s)]
    /\ at' = [at EXCEPT ![r] = "save"]
    /\ UNCHANGED <<stored, auto, saved, workerVars, readVars, beatVars, faults>>

(* Mutant of SaveSettings: the mode is changed before the row is written.  *)
SaveSettings_Early(r) ==
    /\ at[r] = "save"
    /\ auto' = (posting[r].auto = "on")
    /\ \/ /\ stored' = posting[r] /\ saved' = saved \cup {posting[r]}
          /\ at' = [at EXCEPT ![r] = "reflect"]
          /\ UNCHANGED faults
       \/ /\ Fault
          /\ at' = [at EXCEPT ![r] = "idle"]
          /\ UNCHANGED <<stored, saved>>
    /\ UNCHANGED <<posting, posts, workerVars, readVars, beatVars>>

(* The row is replaced.  On an error the request ends here, and whether the
   row was replaced is not known.                                          *)
SaveSettings(r) ==
    /\ at[r] = "save"
    /\ \/ /\ stored' = posting[r] /\ saved' = saved \cup {posting[r]}
          /\ at' = [at EXCEPT ![r] = "reflect"]
          /\ UNCHANGED <<posting, faults>>
       \/ /\ Fault
          /\ \/ stored' = posting[r] /\ saved' = saved \cup {posting[r]}
             \/ UNCHANGED <<stored, saved>>
          /\ at' = [at EXCEPT ![r] = "idle"]
          /\ posting' = [posting EXCEPT ![r] = Empty]
    /\ UNCHANGED <<auto, posts, workerVars, readVars, beatVars>>

(* The mode in memory follows.                                             *)
Reflect(r) ==
    /\ at[r] = "reflect"
    /\ auto' = (posting[r].auto = "on")
    /\ at' = [at EXCEPT ![r] = "idle"]
    /\ posting' = [posting EXCEPT ![r] = Empty]
    /\ UNCHANGED <<stored, saved, posts, workerVars, readVars, beatVars, faults>>

(* The control plane restarts and loads the settings, or, on a store error,
   starts from the defaults.                                               *)
RestartControlPlane ==
    /\ Fault
    /\ \/ auto' = (GetSettings.auto = "on")
       \/ auto' = (ApplyDefaults(Empty).auto = "on")
    /\ at' = [r \in Handlers |-> "idle"]
    /\ posting' = [r \in Handlers |-> Empty]
    /\ UNCHANGED <<stored, saved, posts, workerVars, readVars, beatVars>>

-----------------------------------------------------------------------------
(* The worker's settings.                                                  *)
validPythonVersion(v) == v \in LoosePy
validPlatformTag(t) == t \in CleanTag

(* Mutant of Overlay: any size that is not missing replaces the other.     *)
Overlay_AnySize(c, s) ==
    [build |-> IF s.build # 0 THEN s.build ELSE c.build,
     py    |-> IF validPythonVersion(s.py) THEN s.py ELSE c.py,
     plat  |-> IF validPlatformTag(s.plat) THEN s.plat ELSE c.plat]

(* What the settings say replaces the configuration where it makes sense.  *)
Overlay(c, s) ==
    [build |-> IF s.build > 0 THEN s.build ELSE c.build,
     py    |-> IF validPythonVersion(s.py) THEN s.py ELSE c.py,
     plat  |-> IF validPlatformTag(s.plat) THEN s.plat ELSE c.plat]

(* Mutant of int32: the size is kept as it is.                             *)
int32_Wide(n) == n

(* A conversion to int32 keeps the low bits.                               *)
int32(n) == ((n + 2^(Width - 1)) % 2^Width) - 2^(Width - 1)

Pooled(c) == [c EXCEPT !.build = int32(@)]

(* Run: the environment and, if they can be fetched, the settings.         *)
StartWorker ==
    /\ ~ alive
    /\ alive' = TRUE /\ run' = run + 1
    /\ \/ cfg' = Overlay(Env, GetSettings) /\ UNCHANGED faults
       \/ Fault /\ cfg' = Env
    /\ pool' = Pooled(cfg')
    /\ UNCHANGED <<answer, storeAt, cpVars, readVars, beatVars>>

(* The worker ends at any step; a heartbeat it sent may still arrive.      *)
CrashWorker ==
    /\ Fault /\ alive
    /\ alive' = FALSE
    /\ storeAt' = <<>> /\ answer' = Env
    /\ seen' = [x \in Readers |-> FALSE]
    /\ UNCHANGED <<run, cfg, pool, limit, cpVars, beatVars>>

(* Mutant of PollSettings: a positive size is taken from the start-up
   configuration.                                                          *)
PollSettings_Stale ==
    /\ alive /\ storeAt = <<>>
    /\ answer' = cfg
    /\ storeAt' = Fields
    /\ UNCHANGED <<alive, run, cfg, pool, cpVars, readVars, beatVars, faults>>

(* pollSettings at a tick: the settings are laid over the configuration of
   the start.  When they cannot be fetched, that configuration is what is
   stored: the worker goes back to it until a later tick.                  *)
PollSettings ==
    /\ alive /\ storeAt = <<>>
    /\ \/ answer' = Overlay(cfg, GetSettings) /\ UNCHANGED faults
       \/ Fault /\ answer' = cfg
    /\ storeAt' = Fields
    /\ UNCHANGED <<alive, run, cfg, pool, cpVars, readVars, beatVars>>

(* The next field is stored, in a variable of its own.                     *)
StoreField ==
    /\ alive /\ storeAt # <<>>
    /\ pool' = [pool EXCEPT ![Head(storeAt)] = Pooled(answer)[Head(storeAt)]]
    /\ storeAt' = Tail(storeAt)
    /\ answer' = IF Tail(storeAt) = <<>> THEN Env ELSE answer
    /\ UNCHANGED <<alive, run, cfg, cpVars, readVars, beatVars, faults>>

-----------------------------------------------------------------------------
(* The readers of the pool size: a drain when it starts its jobs, and
   heartbeatLoop when it sends, one post at a time.                        *)

(* What a reader does with the size n.                                     *)
Take(x, n) ==
    \/ /\ x = "drain" /\ limit' = n
       /\ UNCHANGED beats
    \/ /\ x = "send" /\ beats' = beats \cup {[run |-> run, build |-> n, late |-> 0]}
       /\ UNCHANGED limit

(* The first load: a size that is not positive is not used.                *)
CheckSize(x) ==
    /\ alive /\ ~ seen[x]
    /\ x = "send" => \A b \in beats : b.run = run => b.late > 0
    /\ \/ /\ pool.build > 0
          /\ seen' = [seen EXCEPT ![x] = TRUE]
          /\ UNCHANGED <<limit, beats>>
       \/ /\ pool.build <= 0
          /\ Take(x, cfg.build)
          /\ UNCHANGED seen
    /\ UNCHANGED <<cpVars, workerVars, status, faults>>

(* The second load gives the size, whatever was stored in between.         *)
LoadSize(x) ==
    /\ alive /\ seen[x]
    /\ Take(x, pool.build)
    /\ seen' = [seen EXCEPT ![x] = FALSE]
    /\ UNCHANGED <<cpVars, workerVars, status, faults>>

(* Mutant of Heartbeat: a worker that is known keeps its row.              *)
Heartbeat_Known(b) ==
    /\ b \in beats
    /\ beats' = beats \ {b}
    /\ status' = IF status = NoStatus THEN [run |-> b.run, build |-> b.build] ELSE status
    /\ UNCHANGED <<cpVars, workerVars, readVars, faults>>

(* UpsertWorkerStatus: the row is replaced, whichever run sent it.         *)
Heartbeat(b) ==
    /\ b \in beats
    /\ beats' = beats \ {b}
    /\ status' = [run |-> b.run, build |-> b.build]
    /\ UNCHANGED <<cpVars, workerVars, readVars, faults>>

LoseHeartbeat(b) ==
    /\ Fault /\ b \in beats
    /\ beats' = beats \ {b}
    /\ UNCHANGED <<cpVars, workerVars, readVars, status>>

(* postHeartbeat gives up after its five seconds; the request goes on.     *)
LateHeartbeat(b) ==
    /\ Fault /\ b \in beats /\ b.late = 0
    /\ beats' = (beats \ {b}) \cup {[b EXCEPT !.late = faults']}
    /\ UNCHANGED <<cpVars, workerVars, readVars, status>>

-----------------------------------------------------------------------------
Init ==
    /\ stored = NoSettings /\ auto = FALSE
    /\ posting = [r \in Handlers |-> Empty]
    /\ at = [r \in Handlers |-> "idle"]
    /\ saved = {}
    /\ alive = FALSE /\ run = 0
    /\ cfg = Env /\ pool = Pooled(Env) /\ answer = Env /\ storeAt = <<>>
    /\ seen = [x \in Readers |-> FALSE] /\ limit = Env.build
    /\ beats = {} /\ status = NoStatus
    /\ posts = 0 /\ faults = 0

Next ==
    \/ \E r \in Handlers : SettingsPost(r) \/ SaveSettings(r) \/ Reflect(r)
    \/ RestartControlPlane
    \/ StartWorker \/ CrashWorker
    \/ PollSettings \/ StoreField
    \/ \E x \in Readers : CheckSize(x) \/ LoadSize(x)
    \/ \E b \in beats : Heartbeat(b) \/ LoseHeartbeat(b) \/ LateHeartbeat(b)

(* The loops of a worker that runs take their next step, and a request that
   is not lost is served.  Nothing promises that a worker is started again.*)
Fairness ==
    /\ WF_vars(PollSettings) /\ WF_vars(StoreField)
    /\ WF_vars(CheckSize("send")) /\ WF_vars(LoadSize("send"))
    /\ WF_vars(\E b \in beats : Heartbeat(b))
    /\ \A r \in Handlers : WF_vars(SaveSettings(r)) /\ WF_vars(Reflect(r))

Spec == Init /\ [][Next]_vars /\ Fairness

-----------------------------------------------------------------------------
(* Types; the sizes the worker keeps fit their integers, and at most one
   heartbeat of each run is under way, besides those it has given up on.   *)
TypeOK ==
    /\ stored = NoSettings \/ stored \in saved
    /\ auto \in BOOLEAN /\ alive \in BOOLEAN
    /\ at \in [Handlers -> {"idle", "save", "reflect"}]
    /\ seen \in [Readers -> BOOLEAN]
    /\ pool.build \in -(2^(Width - 1)) .. (2^(Width - 1) - 1)
    /\ faults \in 0..MaxFaults /\ posts \in 0..MaxPosts
    /\ Cardinality(beats) <= run + faults

FitSizes ==
    \A n \in {Env.build, DefaultSize} \cup {s.build : s \in saved} : n < 2^(Width - 1)

(* Every drain gets a limit, and no heartbeat reports a pool without one,
   also when zero or a negative size is posted, and whatever a poll stores
   between the two loads of a reader, as long as every size saved fits the
   worker's integers.  (Without SetLimit all jobs of a batch run at once.
   One that does not fit may be negative when it is loaded again.)         *)
AlwaysLimited ==
    FitSizes => limit > 0 /\ \A b \in beats : b.build > 0

(* The automatic mode is on only if settings that turn it on were committed
   at some time: not by a post that failed, nor by one that overlapped with
   another, a restart or a load that failed.                               *)
AutoWasStored == auto => \E s \in saved : s.auto = "on"

Fits(n) == n > 0 /\ n < 2^(Width - 1)

(* Settings reach a worker that stays up: once posts and faults are over, it
   uses the version and platform stored, and the size if it fits.          *)
SettingsReachWorker ==
    <>[](alive => /\ Fits(GetSettings.build) => pool.build = GetSettings.build
                  /\ pool.py = GetSettings.py /\ pool.plat = GetSettings.plat)

InUse == IF pool.build > 0 THEN pool.build ELSE cfg.build

(* The worker's row catches up with a worker that stays up: the run that
   lives and the size it uses, whatever an earlier run's heartbeat, or one
   that was given up, wrote late.                                          *)
StatusCatchesUp ==
    <>[](alive => status.run = run /\ status.build = InUse)
=============================================================================
