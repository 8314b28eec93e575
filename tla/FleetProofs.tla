----------------------------- MODULE FleetProofs -----------------------------
(***************************************************************************)
(* For any settings posted, any environment, any number of handlers and    *)
(* any width of the worker's integers: the sizes fit, a drain has a limit  *)
(* as long as the sizes saved fit, and the automatic mode is never on      *)
(* without settings that say so having been committed.                     *)
(*                                                                         *)
(* AlwaysLimited speaks of what the readers took.  LimitInv says why: as   *)
(* long as every size saved fits, the configuration, the answer of a poll  *)
(* under way and the size stored are positive at every moment, so that it  *)
(* does not matter what is stored between the two loads of a reader.       *)
(***************************************************************************)
EXTENDS Fleet, FiniteSetTheorems, TLAPS

CpInv ==
    /\ \A s \in saved : IsSettings(s)
    /\ stored = NoSettings \/ stored \in saved
    /\ posting = [r \in Handlers |-> posting[r]]
    /\ \A r \in Handlers : IsSettings(posting[r])
    /\ at \in [Handlers -> {"idle", "save", "reflect"}]
    /\ \A r \in Handlers : at[r] = "reflect" => posting[r] \in saved
    /\ auto \in BOOLEAN /\ AutoWasStored
    /\ posts \in 0..MaxPosts /\ faults \in 0..MaxFaults

InWidth(n) == n \in -(2^(Width - 1)) .. (2^(Width - 1) - 1)

WorkerInv ==
    /\ alive \in BOOLEAN /\ run \in Nat /\ (alive => run > 0)
    /\ IsConfig(cfg) /\ cfg.build > 0
    /\ IsConfig(answer) /\ answer.build > 0
    /\ IsConfig(pool) /\ InWidth(pool.build)
    /\ storeAt \in {Fields, <<"py", "plat">>, <<"plat">>, <<>>}
    /\ seen \in [Readers -> BOOLEAN] /\ limit \in Int

BeatInv ==
    /\ beats \subseteq [run : 1..run, build : Int, late : 0..faults]
    /\ \A b, c \in beats : b.late = 0 /\ c.late = 0 /\ b.run = c.run => b = c
    /\ \A b, c \in beats : b.late > 0 /\ b.late = c.late => b = c

LimitInv ==
    FitSizes => /\ Fits(cfg.build) /\ Fits(answer.build)
                /\ pool.build > 0 /\ limit > 0
                /\ \A b \in beats : b.build > 0

SendInv == seen["send"] => \A b \in beats : b.run = run => b.late > 0

FleetInv == CpInv /\ WorkerInv /\ BeatInv /\ LimitInv /\ SendInv

-----------------------------------------------------------------------------
(* Arithmetic of the worker's integers.                                    *)

(* A power of two counts the subsets of an interval.                       *)
LEMMA PowerCounts ==
    ASSUME NEW n \in Nat
    PROVE  IsFiniteSet(SUBSET (1..n)) /\ Cardinality(SUBSET (1..n)) = 2^n
<1>1. IsFiniteSet(1..n) /\ Cardinality(1..n) = n
  BY FS_Interval
<1> QED BY <1>1, FS_SUBSET

LEMMA PowerPositive == \A n \in Nat : 2^n \in Nat \ {0}
<1> SUFFICES ASSUME NEW n \in Nat PROVE 2^n \in Nat \ {0}
  OBVIOUS
<1>1. Cardinality(SUBSET (1..n)) \in Nat /\ SUBSET (1..n) # {}
  BY PowerCounts, FS_CardinalityType
<1>2. Cardinality(SUBSET (1..n)) # 0
  BY <1>1, PowerCounts, FS_EmptySet
<1> QED BY <1>1, <1>2, PowerCounts

(* The subsets of 1..n are those of 1..n-1, and each of them with n.       *)
LEMMA PowerDoubles == \A n \in Nat \ {0} : 2^n = 2^(n - 1) + 2^(n - 1)
<1> SUFFICES ASSUME NEW n \in Nat \ {0} PROVE 2^n = 2^(n - 1) + 2^(n - 1)
  OBVIOUS
<1> DEFINE m == n - 1
           A == SUBSET (1..m)
           B == {T \in SUBSET (1..n) : n \in T}
           f == [T \in A |-> T \cup {n}]
<1>1. m \in Nat
  OBVIOUS
<1>2. IsFiniteSet(A) /\ Cardinality(A) = 2^m
  BY <1>1, PowerCounts
<1>3. 1..n = (1..m) \cup {n} /\ n \notin 1..m
  OBVIOUS
<1>4. f \in Bijection(A, B)
  <2>1. \A T \in A : T \cup {n} \in B
    BY <1>3
  <2>2. \A S, T \in A : S \cup {n} = T \cup {n} => S = T
    BY <1>3
  <2>3. \A U \in B : U \ {n} \in A /\ (U \ {n}) \cup {n} = U
    BY <1>3
  <2> HIDE DEF A, B
  <2>4. f \in [A -> B]
    BY <2>1
  <2>5. f \in Injection(A, B)
    BY <2>2, <2>4 DEF Injection, IsInjective
  <2>6. f \in Surjection(A, B)
    BY <2>3, <2>4 DEF Surjection
  <2> QED BY <2>5, <2>6 DEF Bijection
<1>5. IsFiniteSet(B) /\ Cardinality(B) = 2^m
  BY <1>2, <1>4, FS_Bijection DEF ExistsBijection
<1>6. SUBSET (1..n) = A \cup B /\ A \cap B = {}
  BY <1>3
<1> HIDE DEF A, B
<1>7. Cardinality(A \cup B) = Cardinality(A) + Cardinality(B) - Cardinality({})
  BY <1>2, <1>5, <1>6, FS_Union
<1>8. 2^m \in Nat /\ Cardinality({}) = 0
  BY <1>1, PowerPositive, FS_EmptySet
<1>9. Cardinality(SUBSET (1..n)) = 2^n
  BY PowerCounts
<1>10. 2^n = 2^m + 2^m - 0
  BY <1>2, <1>5, <1>6, <1>7, <1>8, <1>9
<1> QED BY <1>8, <1>10

(* int32 always gives an integer of the width, and leaves those alone.     *)
LEMMA Int32InWidth == \A n \in Int : InWidth(int32(n))
<1> SUFFICES ASSUME NEW n \in Int PROVE InWidth(int32(n))
  OBVIOUS
<1> DEFINE h == 2^(Width - 1)
           w == 2^Width
<1>1. h \in Nat \ {0} /\ w \in Nat \ {0} /\ w = h + h
  BY PowerPositive, PowerDoubles, FleetAssumption
<1> HIDE DEF h, w
<1>2. (n + h) % w \in 0..(w - 1)
  BY <1>1
<1>3. ((n + h) % w) - h \in -h .. (h - 1)
  BY <1>1, <1>2
<1> QED BY <1>3 DEF InWidth, int32, h, w

LEMMA Int32Fits == \A n \in Int : Fits(n) => int32(n) = n
<1> SUFFICES ASSUME NEW n \in Int, Fits(n) PROVE int32(n) = n
  OBVIOUS
<1> DEFINE h == 2^(Width - 1)
           w == 2^Width
<1>1. h \in Nat \ {0} /\ w \in Nat \ {0} /\ w = h + h
  BY PowerPositive, PowerDoubles, FleetAssumption
<1>2. n > 0 /\ n < h
  BY DEF Fits
<1> HIDE DEF h, w
<1>3. \A x \in Int : 0 <= x /\ x < w => x % w = x
  BY <1>1
<1>4. (n + h) % w = n + h
  BY <1>1, <1>2, <1>3
<1> QED BY <1>1, <1>4 DEF int32, h, w

-----------------------------------------------------------------------------
(* What the operators return.                                              *)

LEMMA SettingsTypes ==
    /\ IsSettings(Empty)
    /\ \A s : IsSettings(s) => IsSettings(ApplyDefaults(s))
<1>1. IsSettings(Empty)
  BY DEF Empty, IsSettings
<1>2. ASSUME NEW s, IsSettings(s) PROVE IsSettings(ApplyDefaults(s))
  BY <1>2 DEF ApplyDefaults, DefaultSize, IsSettings
<1> QED BY <1>1, <1>2

LEMMA GetSettingsType == CpInv => IsSettings(GetSettings)
  BY SettingsTypes DEF CpInv, GetSettings

(* What is read back as the mode is the mode of the row.                   *)
LEMMA GetSettingsMode ==
    CpInv => (GetSettings.auto = "on" => \E s \in saved : s.auto = "on")
<1> SUFFICES ASSUME CpInv, GetSettings.auto = "on" PROVE \E s \in saved : s.auto = "on"
  OBVIOUS
<1>1. stored # NoSettings
  BY DEF GetSettings, ApplyDefaults, Empty
<1>2. stored \in saved /\ IsSettings(stored)
  BY <1>1 DEF CpInv
<1>3. stored.auto = "on"
  BY <1>1, <1>2 DEF GetSettings, ApplyDefaults, IsSettings
<1> QED BY <1>2, <1>3

(* As long as the sizes saved fit, so does the size read back.             *)
LEMMA GetSettingsFits ==
    ASSUME CpInv, FitSizes, GetSettings.build > 0
    PROVE  Fits(GetSettings.build)
<1> DEFINE h == 2^(Width - 1)
<1>1. DefaultSize < h /\ \A s \in saved : s.build < h
  BY DEF FitSizes
<1> HIDE DEF h
<1>2. CASE stored = NoSettings
  <2>1. GetSettings.build = DefaultSize
    BY <1>2 DEF GetSettings, ApplyDefaults, Empty
  <2> QED BY <1>1, <2>1 DEF Fits, h
<1>3. CASE stored \in saved /\ stored # NoSettings
  <2>1. GetSettings.build = IF stored.build = 0 THEN DefaultSize ELSE stored.build
    BY <1>3 DEF GetSettings, ApplyDefaults
  <2> QED BY <1>1, <1>3, <2>1 DEF Fits, h
<1> QED BY <1>2, <1>3 DEF CpInv

(* Settings laid over a configuration with a limit leave one.              *)
LEMMA OverlayLimited ==
    ASSUME NEW c, IsConfig(c), c.build > 0, NEW s, IsSettings(s)
    PROVE  IsConfig(Overlay(c, s)) /\ Overlay(c, s).build > 0
  BY DEF Overlay, IsConfig, IsSettings

LEMMA OverlayFits ==
    ASSUME NEW c, Fits(c.build), NEW s, s.build > 0 => Fits(s.build)
    PROVE  Fits(Overlay(c, s).build)
<1>1. Overlay(c, s).build = IF s.build > 0 THEN s.build ELSE c.build
  BY DEF Overlay
<1> QED BY <1>1

LEMMA PooledInWidth ==
    ASSUME NEW c, IsConfig(c)
    PROVE  /\ IsConfig(Pooled(c)) /\ InWidth(Pooled(c).build)
           /\ Fits(c.build) => Pooled(c).build > 0
<1>1. Pooled(c) = [c EXCEPT !.build = int32(c.build)] /\ c.build \in Int
  BY DEF Pooled, IsConfig
<1>2. InWidth(int32(c.build)) /\ int32(c.build) \in Int
  <2>1. InWidth(int32(c.build))
    BY <1>1, Int32InWidth
  <2> QED BY <2>1 DEF InWidth
<1>3. Pooled(c) = [build |-> int32(c.build), py |-> c.py, plat |-> c.plat]
  BY <1>1 DEF IsConfig
<1>4. Fits(c.build) => int32(c.build) = c.build /\ c.build > 0
  BY <1>1, Int32Fits DEF Fits
<1> QED BY <1>2, <1>3, <1>4 DEF IsConfig

-----------------------------------------------------------------------------
LEMMA FleetInitInv == Init => FleetInv
<1> SUFFICES ASSUME Init PROVE FleetInv
  OBVIOUS
<1>1. CpInv
  <2>1. posts \in 0..MaxPosts /\ faults \in 0..MaxFaults
    BY FleetAssumption DEF Init
  <2> QED BY <2>1, SettingsTypes DEF Init, CpInv, AutoWasStored
<1>2. Env.build \in Int /\ Env.build > 0
  BY FleetAssumption DEF IsConfig
<1>3. WorkerInv
  BY <1>2, PooledInWidth, FleetAssumption DEF Init, WorkerInv
<1>4. BeatInv
  BY DEF Init, BeatInv
<1>5. LimitInv
  <2>1. FitSizes => Fits(Env.build)
    BY <1>2 DEF FitSizes, Fits
  <2>2. FitSizes => Pooled(Env).build > 0
    BY <2>1, PooledInWidth, FleetAssumption
  <2> QED BY <1>2, <2>1, <2>2 DEF Init, LimitInv
<1>6. SendInv
  BY DEF Init, SendInv
<1> QED BY <1>1, <1>3, <1>4, <1>5, <1>6 DEF FleetInv

-----------------------------------------------------------------------------
(* The control plane's steps.                                              *)
LEMMA FaultCounts ==
    CpInv /\ (Fault \/ UNCHANGED faults) => faults' \in 0..MaxFaults /\ faults' >= faults
  BY FleetAssumption DEF CpInv, Fault

(* Rows are added to the history, never removed.                           *)
LEMMA FitSizesBefore == saved \subseteq saved' /\ FitSizes' => FitSizes
  BY DEF FitSizes

LEMMA PostInv ==
    ASSUME CpInv, NEW r \in Handlers, SettingsPost(r)
    PROVE  CpInv'
  BY SettingsTypes, FleetAssumption DEF CpInv, SettingsPost, AutoWasStored

LEMMA SaveInv ==
    ASSUME CpInv, NEW r \in Handlers, SaveSettings(r)
    PROVE  CpInv' /\ saved \subseteq saved'
<1>1. faults' \in 0..MaxFaults
  BY FaultCounts DEF SaveSettings
<1>2. saved \subseteq saved' /\ saved' \subseteq saved \cup {posting[r]}
  BY DEF SaveSettings
<1>3. stored' = NoSettings \/ stored' \in saved'
  BY <1>2 DEF CpInv, SaveSettings
<1>4. at' \in [Handlers -> {"idle", "save", "reflect"}]
  BY DEF CpInv, SaveSettings
<1>5. posting' = [q \in Handlers |-> posting'[q]] /\ \A q \in Handlers : IsSettings(posting'[q])
  BY SettingsTypes DEF CpInv, SaveSettings
<1>6. \A q \in Handlers : at'[q] = "reflect" => posting'[q] \in saved'
  BY <1>2 DEF CpInv, SaveSettings
<1>7. auto' \in BOOLEAN /\ AutoWasStored'
  BY <1>2 DEF CpInv, SaveSettings, AutoWasStored
<1>8. posts' \in 0..MaxPosts
  BY DEF CpInv, SaveSettings
<1>9. \A s \in saved' : IsSettings(s)
  BY <1>2 DEF CpInv
<1> QED BY <1>1, <1>2, <1>3, <1>4, <1>5, <1>6, <1>7, <1>8, <1>9 DEF CpInv

LEMMA ReflectInv ==
    ASSUME CpInv, NEW r \in Handlers, Reflect(r)
    PROVE  CpInv'
  BY SettingsTypes DEF CpInv, Reflect, AutoWasStored

LEMMA RestartInv ==
    ASSUME CpInv, RestartControlPlane
    PROVE  CpInv'
<1>1. auto' => GetSettings.auto = "on"
  BY DEF RestartControlPlane, ApplyDefaults, Empty
<1>2. AutoWasStored' /\ auto' \in BOOLEAN
  BY <1>1, GetSettingsMode DEF AutoWasStored, RestartControlPlane
<1> QED BY <1>2, SettingsTypes, FaultCounts DEF CpInv, RestartControlPlane

(* They leave the worker alone; the history may grow.                      *)
LEMMA WorkerUntouched ==
    ASSUME FleetInv, UNCHANGED <<workerVars, readVars, beatVars>>, saved \subseteq saved',
           Fault \/ UNCHANGED faults
    PROVE  WorkerInv' /\ BeatInv' /\ LimitInv'
<1> USE DEF FleetInv, workerVars, readVars, beatVars
<1>1. WorkerInv'
  BY DEF WorkerInv, InWidth
<1>2. BeatInv'
  <2>1. 0..faults \subseteq 0..faults'
    BY FaultCounts DEF CpInv
  <2> QED BY <2>1 DEF BeatInv
<1>3. LimitInv'
  BY FitSizesBefore DEF LimitInv, Fits
<1> QED BY <1>1, <1>2, <1>3

-----------------------------------------------------------------------------
(* A step of the worker, of a reader or of a heartbeat.                    *)
LEMMA OthersLeaveMode ==
    ASSUME CpInv, UNCHANGED cpVars, Fault \/ UNCHANGED faults
    PROVE  CpInv' /\ FitSizes' = FitSizes
  BY FaultCounts DEF CpInv, cpVars, AutoWasStored, FitSizes

LEMMA BeatsUntouched ==
    ASSUME FleetInv, UNCHANGED beats, run' \in Nat, run' >= run, Fault \/ UNCHANGED faults
    PROVE  BeatInv'
<1>1. 0..faults \subseteq 0..faults' /\ 1..run \subseteq 1..run'
  BY FaultCounts DEF FleetInv, CpInv, WorkerInv
<1> QED BY <1>1 DEF FleetInv, BeatInv

(* Settings laid over a configuration, or that configuration.              *)
LEMMA FetchInv ==
    ASSUME FleetInv, NEW c, IsConfig(c), c.build > 0, FitSizes => Fits(c.build),
           NEW d, d = Overlay(c, GetSettings) \/ d = c
    PROVE  IsConfig(d) /\ d.build > 0 /\ (FitSizes => Fits(d.build))
<1>1. CASE d = Overlay(c, GetSettings)
  <2>1. IsSettings(GetSettings)
    BY GetSettingsType DEF FleetInv
  <2>2. FitSizes => (GetSettings.build > 0 => Fits(GetSettings.build))
    BY GetSettingsFits DEF FleetInv
  <2> QED BY <1>1, <2>1, <2>2, OverlayLimited, OverlayFits
<1> QED BY <1>1

LEMMA StartInv ==
    ASSUME FleetInv, StartWorker
    PROVE  WorkerInv' /\ BeatInv' /\ LimitInv'
<1> USE DEF FleetInv
<1>1. Env.build > 0 /\ IsConfig(Env) /\ (FitSizes => Fits(Env.build))
  BY FleetAssumption DEF FitSizes, Fits
<1>2. cfg' = Overlay(Env, GetSettings) \/ cfg' = Env
  BY DEF StartWorker
<1>3. IsConfig(cfg') /\ cfg'.build > 0 /\ (FitSizes => Fits(cfg'.build))
  BY <1>1, <1>2, FetchInv
<1>4. IsConfig(pool') /\ InWidth(pool'.build) /\ (FitSizes => pool'.build > 0)
  BY <1>3, PooledInWidth DEF StartWorker
<1>5. WorkerInv'
  BY <1>3, <1>4 DEF StartWorker, WorkerInv, InWidth, readVars
<1>6. BeatInv'
  BY BeatsUntouched DEF StartWorker, beatVars, WorkerInv
<1>7. FitSizes' = FitSizes
  BY OthersLeaveMode DEF StartWorker
<1>8. LimitInv'
  BY <1>3, <1>4, <1>7 DEF StartWorker, LimitInv, readVars, beatVars, Fits
<1> QED BY <1>5, <1>6, <1>8

LEMMA PollInv ==
    ASSUME FleetInv, PollSettings
    PROVE  WorkerInv' /\ BeatInv' /\ LimitInv'
<1> USE DEF FleetInv
<1>1. IsConfig(cfg) /\ cfg.build > 0 /\ (FitSizes => Fits(cfg.build))
  BY DEF WorkerInv, LimitInv
<1>2. answer' = Overlay(cfg, GetSettings) \/ answer' = cfg
  BY DEF PollSettings
<1>3. IsConfig(answer') /\ answer'.build > 0 /\ (FitSizes => Fits(answer'.build))
  BY <1>1, <1>2, FetchInv
<1>4. WorkerInv'
  BY <1>3 DEF PollSettings, WorkerInv, InWidth, readVars
<1>5. BeatInv'
  BY BeatsUntouched DEF PollSettings, beatVars, WorkerInv
<1>6. FitSizes' = FitSizes
  BY OthersLeaveMode DEF PollSettings
<1>7. LimitInv'
  BY <1>3, <1>6 DEF PollSettings, LimitInv, readVars, beatVars, Fits
<1> QED BY <1>4, <1>5, <1>7

LEMMA StoreInv ==
    ASSUME FleetInv, StoreField
    PROVE  WorkerInv' /\ BeatInv' /\ LimitInv'
<1> USE DEF FleetInv
<1>1. /\ IsConfig(Pooled(answer)) /\ InWidth(Pooled(answer).build)
      /\ IsConfig(pool) /\ InWidth(pool.build)
      /\ FitSizes => Pooled(answer).build > 0 /\ pool.build > 0
  BY PooledInWidth DEF WorkerInv, LimitInv
<1>2. /\ Head(storeAt) \in {"build", "py", "plat"}
      /\ Tail(storeAt) \in {<<"py", "plat">>, <<"plat">>, <<>>}
  <2>1. storeAt \in {<<"build", "py", "plat">>, <<"py", "plat">>, <<"plat">>}
    BY DEF StoreField, WorkerInv, Fields
  <2>2. Head(<<"build", "py", "plat">>) = "build" /\ Tail(<<"build", "py", "plat">>) = <<"py", "plat">>
    OBVIOUS
  <2>3. Head(<<"py", "plat">>) = "py" /\ Tail(<<"py", "plat">>) = <<"plat">>
    OBVIOUS
  <2>4. Head(<<"plat">>) = "plat" /\ Tail(<<"plat">>) = <<>>
    OBVIOUS
  <2> QED BY <2>1, <2>2, <2>3, <2>4, Zenon
<1>3. IsConfig(pool') /\ InWidth(pool'.build) /\ (FitSizes => pool'.build > 0)
  <2>1. CASE Head(storeAt) = "build"
    <3>1. pool' = [pool EXCEPT !.build = Pooled(answer).build]
      BY <2>1 DEF StoreField
    <3> QED BY <1>1, <3>1 DEF IsConfig
  <2>2. CASE Head(storeAt) = "py"
    <3>1. pool' = [pool EXCEPT !.py = Pooled(answer).py]
      BY <2>2 DEF StoreField
    <3> QED BY <1>1, <3>1 DEF IsConfig
  <2>3. CASE Head(storeAt) = "plat"
    <3>1. pool' = [pool EXCEPT !.plat = Pooled(answer).plat]
      BY <2>3 DEF StoreField
    <3> QED BY <1>1, <3>1 DEF IsConfig
  <2> QED BY <1>2, <2>1, <2>2, <2>3
<1>4. IsConfig(answer') /\ answer'.build > 0 /\ (FitSizes => Fits(answer'.build))
  BY FleetAssumption DEF StoreField, WorkerInv, LimitInv, FitSizes, Fits
<1>5. WorkerInv'
  BY <1>2, <1>3, <1>4 DEF StoreField, WorkerInv, InWidth, readVars
<1>6. BeatInv'
  BY BeatsUntouched DEF StoreField, beatVars, WorkerInv
<1>7. FitSizes' = FitSizes
  BY OthersLeaveMode DEF StoreField
<1>8. LimitInv'
  BY <1>3, <1>4, <1>7 DEF StoreField, LimitInv, readVars, beatVars, Fits
<1> QED BY <1>5, <1>6, <1>8

LEMMA CrashInv ==
    ASSUME FleetInv, CrashWorker
    PROVE  WorkerInv' /\ BeatInv' /\ LimitInv'
<1> USE DEF FleetInv
<1>1. IsConfig(Env) /\ Env.build > 0 /\ (FitSizes => Fits(Env.build))
  BY FleetAssumption DEF FitSizes, Fits
<1>2. WorkerInv'
  BY <1>1 DEF CrashWorker, WorkerInv, InWidth
<1>3. BeatInv'
  BY BeatsUntouched DEF CrashWorker, beatVars, WorkerInv
<1>4. FitSizes' = FitSizes
  BY OthersLeaveMode DEF CrashWorker
<1>5. LimitInv'
  BY <1>1, <1>4 DEF CrashWorker, LimitInv, beatVars, Fits
<1> QED BY <1>2, <1>3, <1>5

(* A reader takes a size n, positive as long as the sizes saved fit; the
   next heartbeat of a run goes out when every one of it has been given up.*)
LEMMA TakeInv ==
    ASSUME FleetInv, alive, NEW x \in Readers, NEW n \in Int, FitSizes => n > 0,
           Take(x, n), UNCHANGED <<cpVars, workerVars, faults>>,
           x = "send" => \A b \in beats : b.run = run => b.late > 0,
           seen' \in [Readers -> BOOLEAN]
    PROVE  WorkerInv' /\ BeatInv' /\ LimitInv'
<1> USE DEF FleetInv
<1> DEFINE b == [run |-> run, build |-> n, late |-> 0]
<1>1. WorkerInv'
  BY DEF Take, WorkerInv, InWidth, workerVars
<1>2. FitSizes' = FitSizes
  BY OthersLeaveMode
<1>3. CASE UNCHANGED beats
  <2>1. BeatInv'
    BY <1>3, BeatsUntouched DEF workerVars, WorkerInv
  <2>2. LimitInv'
    BY <1>2, <1>3 DEF Take, LimitInv, workerVars, Fits
  <2> QED BY <1>1, <2>1, <2>2
<1>4. CASE x = "send" /\ beats' = beats \cup {b} /\ UNCHANGED limit
  <2>1. run \in 1..run /\ 0 \in 0..faults
    BY DEF WorkerInv, CpInv
  <2>2. b \in [run : 1..run, build : Int, late : 0..faults]
        /\ b.run = run /\ b.late = 0 /\ b.build = n
    BY <2>1
  <2>3. \A c \in beats : c.run = run => c.late > 0
    BY <1>4
  <2>4. run' = run /\ faults' = faults
    BY DEF workerVars
  <2> HIDE DEF b
  <2>5. beats' \subseteq [run : 1..run', build : Int, late : 0..faults']
    BY <1>4, <2>2, <2>4 DEF BeatInv
  <2>6. \A c, d \in beats' : c.late = 0 /\ d.late = 0 /\ c.run = d.run => c = d
    BY <1>4, <2>2, <2>3 DEF BeatInv
  <2>7. \A c, d \in beats' : c.late > 0 /\ c.late = d.late => c = d
    BY <1>4, <2>2 DEF BeatInv
  <2>8. BeatInv'
    BY <2>5, <2>6, <2>7 DEF BeatInv
  <2>9. LimitInv'
    BY <1>2, <1>4, <2>2 DEF LimitInv, workerVars, Fits
  <2> QED BY <1>1, <2>8, <2>9
<1> QED BY <1>3, <1>4 DEF Take

LEMMA CheckInv ==
    ASSUME FleetInv, NEW x \in Readers, CheckSize(x)
    PROVE  WorkerInv' /\ BeatInv' /\ LimitInv'
<1>1. seen' \in [Readers -> BOOLEAN]
  BY DEF CheckSize, FleetInv, WorkerInv
<1>2. CASE Take(x, cfg.build)
  <2>1. cfg.build \in Int /\ (FitSizes => cfg.build > 0)
    BY DEF FleetInv, WorkerInv, IsConfig
  <2> QED BY <1>1, <1>2, <2>1, TakeInv DEF CheckSize
<1>3. CASE UNCHANGED <<limit, beats>>
  <2>1. WorkerInv'
    BY <1>1, <1>3 DEF CheckSize, workerVars, WorkerInv, InWidth, FleetInv
  <2>2. BeatInv'
    BY <1>3, BeatsUntouched DEF CheckSize, workerVars, WorkerInv, FleetInv
  <2>3. FitSizes' = FitSizes
    BY OthersLeaveMode DEF CheckSize, FleetInv
  <2>4. LimitInv'
    BY <1>3, <2>3 DEF CheckSize, workerVars, LimitInv, FleetInv, Fits
  <2> QED BY <2>1, <2>2, <2>4
<1> QED BY <1>2, <1>3 DEF CheckSize

LEMMA LoadInv ==
    ASSUME FleetInv, NEW x \in Readers, LoadSize(x)
    PROVE  WorkerInv' /\ BeatInv' /\ LimitInv'
<1>1. seen' \in [Readers -> BOOLEAN]
  BY DEF LoadSize, FleetInv, WorkerInv
<1>2. pool.build \in Int /\ (FitSizes => pool.build > 0)
  BY DEF FleetInv, WorkerInv, IsConfig, LimitInv
<1>3. x = "send" => \A b \in beats : b.run = run => b.late > 0
  BY DEF LoadSize, FleetInv, SendInv
<1> QED BY <1>1, <1>2, <1>3, TakeInv DEF LoadSize

(* A heartbeat leaves, or is given up: it gets the number of the fault.    *)
LEMMA BeatStepInv ==
    ASSUME FleetInv, NEW b \in beats, Heartbeat(b) \/ LoseHeartbeat(b) \/ LateHeartbeat(b)
    PROVE  WorkerInv' /\ BeatInv' /\ LimitInv' /\ SendInv'
<1> USE DEF FleetInv
<1>1. UNCHANGED <<cpVars, workerVars, readVars>> /\ (Fault \/ UNCHANGED faults)
  BY DEF Heartbeat, LoseHeartbeat, LateHeartbeat
<1>2. WorkerInv'
  BY <1>1 DEF workerVars, readVars, WorkerInv, InWidth
<1>3. FitSizes' = FitSizes
  BY <1>1, OthersLeaveMode
<1>4. 0..faults \subseteq 0..faults' /\ run' = run /\ seen' = seen /\ limit' = limit
  BY <1>1, FaultCounts DEF CpInv, workerVars, readVars
<1>5. CASE beats' \subseteq beats
  <2>1. BeatInv' /\ SendInv'
    BY <1>4, <1>5 DEF BeatInv, SendInv
  <2>2. LimitInv'
    BY <1>1, <1>3, <1>5 DEF LimitInv, workerVars, readVars, Fits
  <2> QED BY <1>2, <2>1, <2>2
<1>6. CASE LateHeartbeat(b)
  <2> DEFINE c == [b EXCEPT !.late = faults']
  <2>1. beats' = (beats \ {b}) \cup {c}
    BY <1>6 DEF LateHeartbeat
  <2>2. faults' = faults + 1 /\ faults \in Nat
    BY <1>6 DEF LateHeartbeat, Fault, CpInv
  <2>3. b \in [run : 1..run, build : Int, late : 0..faults]
    BY DEF BeatInv
  <2>4. /\ c \in [run : 1..run, build : Int, late : 0..faults']
        /\ c.late = faults + 1 /\ c.run = b.run /\ c.build = b.build
    BY <2>2, <2>3
  <2>5. \A d \in beats : d.late \in 0..faults
    BY DEF BeatInv
  <2>6. \A d \in beats : d.late # c.late
    BY <2>2, <2>4, <2>5
  <2> HIDE DEF c
  <2>7. beats' \subseteq [run : 1..run', build : Int, late : 0..faults']
    BY <1>4, <2>1, <2>4 DEF BeatInv
  <2>8. \A d, e \in beats' : d.late = 0 /\ e.late = 0 /\ d.run = e.run => d = e
    BY <2>1, <2>2, <2>4 DEF BeatInv
  <2>9. \A d, e \in beats' : d.late > 0 /\ d.late = e.late => d = e
    BY <2>1, <2>6 DEF BeatInv
  <2>10. BeatInv'
    BY <2>7, <2>8, <2>9 DEF BeatInv
  <2>11. SendInv'
    BY <1>4, <2>1, <2>2, <2>4 DEF SendInv
  <2>12. LimitInv'
    BY <1>1, <1>3, <2>1, <2>4 DEF LimitInv, workerVars, readVars, Fits
  <2> QED BY <1>2, <2>10, <2>11, <2>12
<1> QED BY <1>5, <1>6 DEF Heartbeat, LoseHeartbeat

(* The first load of a sender finds the heartbeats of its run given up; a
   new run has none.                                                       *)
LEMMA SendStepInv ==
    ASSUME FleetInv,
           \/ StartWorker \/ CrashWorker \/ PollSettings \/ StoreField
           \/ \E x \in Readers : CheckSize(x) \/ LoadSize(x)
    PROVE  SendInv'
<1> USE DEF FleetInv
<1>1. CASE StartWorker
  <2>1. run' = run + 1 /\ beats' = beats
    BY <1>1 DEF StartWorker, beatVars
  <2>2. \A b \in beats : b.run # run + 1
    BY DEF BeatInv, WorkerInv
  <2> QED BY <2>1, <2>2 DEF SendInv
<1>2. CASE CrashWorker
  BY <1>2, FleetAssumption DEF CrashWorker, SendInv
<1>3. CASE PollSettings \/ StoreField
  BY <1>3 DEF PollSettings, StoreField, readVars, beatVars, SendInv
<1>4. ASSUME NEW x \in Readers, CheckSize(x) PROVE SendInv'
  <2>1. run' = run /\ seen \in [Readers -> BOOLEAN]
    BY <1>4 DEF CheckSize, workerVars, WorkerInv
  <2>2. CASE x = "send" /\ UNCHANGED beats
    BY <1>4, <2>1, <2>2 DEF CheckSize, SendInv
  <2>3. CASE x = "send" /\ UNCHANGED seen
    BY <1>4, <2>1, <2>3 DEF CheckSize, SendInv
  <2>4. CASE x # "send"
    <3>1. UNCHANGED beats /\ seen'["send"] = seen["send"]
      BY <1>4, <2>1, <2>4, FleetAssumption DEF CheckSize, Take
    <3> QED BY <2>1, <3>1 DEF SendInv
  <2> QED BY <1>4, <2>2, <2>3, <2>4 DEF CheckSize
<1>5. ASSUME NEW x \in Readers, LoadSize(x) PROVE SendInv'
  <2>1. run' = run /\ seen \in [Readers -> BOOLEAN]
    BY <1>5 DEF LoadSize, workerVars, WorkerInv
  <2>2. CASE x = "send"
    BY <1>5, <2>1, <2>2, FleetAssumption DEF LoadSize, SendInv
  <2>3. CASE x # "send"
    <3>1. UNCHANGED beats /\ seen'["send"] = seen["send"]
      BY <1>5, <2>1, <2>3, FleetAssumption DEF LoadSize, Take
    <3> QED BY <2>1, <3>1 DEF SendInv
  <2> QED BY <2>2, <2>3
<1> QED BY <1>1, <1>2, <1>3, <1>4, <1>5

LEMMA FleetStepInv == FleetInv /\ [Next]_vars => FleetInv'
<1> SUFFICES ASSUME FleetInv, [Next]_vars PROVE FleetInv'
  OBVIOUS
<1> USE DEF FleetInv
<1>1. ASSUME NEW r \in Handlers, SettingsPost(r) \/ SaveSettings(r) \/ Reflect(r)
      PROVE  FleetInv'
  <2>1. /\ UNCHANGED <<workerVars, readVars, beatVars>> /\ saved \subseteq saved'
        /\ Fault \/ UNCHANGED faults
    BY <1>1, SaveInv DEF SettingsPost, SaveSettings, Reflect
  <2>2. SendInv'
    BY <2>1 DEF SendInv, workerVars, readVars, beatVars
  <2> QED BY <1>1, <2>1, <2>2, WorkerUntouched, PostInv, SaveInv, ReflectInv
<1>2. CASE RestartControlPlane
  <2>1. UNCHANGED <<workerVars, readVars, beatVars>> /\ saved \subseteq saved' /\ Fault
    BY <1>2 DEF RestartControlPlane
  <2>2. SendInv'
    BY <2>1 DEF SendInv, workerVars, readVars, beatVars
  <2> QED BY <1>2, <2>1, <2>2, WorkerUntouched, RestartInv
<1>3. CASE StartWorker
  BY <1>3, StartInv, SendStepInv, OthersLeaveMode DEF StartWorker
<1>4. CASE CrashWorker
  BY <1>4, CrashInv, SendStepInv, OthersLeaveMode DEF CrashWorker
<1>5. CASE PollSettings
  BY <1>5, PollInv, SendStepInv, OthersLeaveMode DEF PollSettings
<1>6. CASE StoreField
  BY <1>6, StoreInv, SendStepInv, OthersLeaveMode DEF StoreField
<1>7. ASSUME NEW x \in Readers, CheckSize(x) \/ LoadSize(x) PROVE FleetInv'
  <2>1. UNCHANGED <<cpVars, faults>>
    BY <1>7 DEF CheckSize, LoadSize
  <2>2. CpInv'
    BY <2>1, OthersLeaveMode
  <2> QED BY <1>7, <2>2, CheckInv, LoadInv, SendStepInv
<1>8. ASSUME NEW b \in beats, Heartbeat(b) \/ LoseHeartbeat(b) \/ LateHeartbeat(b)
      PROVE  FleetInv'
  <2>1. UNCHANGED cpVars /\ (Fault \/ UNCHANGED faults)
    BY <1>8 DEF Heartbeat, LoseHeartbeat, LateHeartbeat
  <2> QED BY <1>8, <2>1, OthersLeaveMode, BeatStepInv
<1>9. CASE UNCHANGED vars
  <2>1. UNCHANGED <<cpVars, workerVars, readVars, beatVars, faults>>
    BY <1>9 DEF vars, cpVars, workerVars, readVars, beatVars
  <2>2. SendInv' /\ saved \subseteq saved'
    BY <2>1 DEF SendInv, cpVars, workerVars, readVars, beatVars
  <2> QED BY <2>1, <2>2, OthersLeaveMode, WorkerUntouched
<1> QED BY <1>1, <1>2, <1>3, <1>4, <1>5, <1>6, <1>7, <1>8, <1>9 DEF Next

-----------------------------------------------------------------------------
(* Those not given up have run ids of their own, from 1 to run, and those
   given up have fault numbers of their own.                               *)
LEMMA FewBeats == FleetInv => Cardinality(beats) <= run + faults
<1> SUFFICES ASSUME FleetInv PROVE Cardinality(beats) <= run + faults
  OBVIOUS
<1> DEFINE f == [b \in beats |-> IF b.late = 0 THEN b.run ELSE run + b.late]
<1>1. run \in Nat /\ faults \in Nat
  BY DEF FleetInv, WorkerInv, CpInv
<1>2. \A b \in beats : b.run \in 1..run /\ b.late \in 0..faults
  BY DEF FleetInv, BeatInv
<1>3. \A b \in beats : f[b] \in 1..(run + faults)
  BY <1>1, <1>2
<1>4. \A b, c \in beats : f[b] = f[c] => b = c
  BY <1>1, <1>2 DEF FleetInv, BeatInv
<1>5. f \in Injection(beats, 1..(run + faults))
  BY <1>3, <1>4 DEF Injection, IsInjective
<1>6. run + faults \in Nat
  BY <1>1
<1>7. IsFiniteSet(1..(run + faults)) /\ Cardinality(1..(run + faults)) = run + faults
  BY <1>6, FS_Interval
<1> QED BY <1>5, <1>7, FS_Injection

(* Whatever is posted and whatever is lost, the fleet's state keeps its
   types: the sizes the worker stores fit its integers.                    *)
THEOREM FleetTypeCorrect == Spec => []TypeOK
<1>1. FleetInv => TypeOK
  BY FewBeats DEF FleetInv, CpInv, WorkerInv, InWidth, TypeOK
<1> QED BY <1>1, FleetInitInv, FleetStepInv, PTL DEF Spec

(* For any width, and as long as the sizes saved fit it: no drain is ever
   without a limit, whatever is stored between its two loads of the size,
   and no heartbeat reports such a pool.                                   *)
THEOREM DrainsAreLimited == Spec => []AlwaysLimited
<1>1. FleetInv => AlwaysLimited
  BY DEF FleetInv, LimitInv, AlwaysLimited
<1> QED BY <1>1, FleetInitInv, FleetStepInv, PTL DEF Spec

(* For any number of settings handlers, whatever fails or restarts: the
   automatic mode is on only if settings that say so were committed.       *)
THEOREM AutoIsAskedFor == Spec => []AutoWasStored
<1>1. FleetInv => AutoWasStored
  BY DEF FleetInv, CpInv
<1> QED BY <1>1, FleetInitInv, FleetStepInv, PTL DEF Spec
=============================================================================
