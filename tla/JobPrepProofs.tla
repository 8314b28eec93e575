---------------------------- MODULE JobPrepProofs ----------------------------
(***************************************************************************)
(* For every input set, set of options, answer of the index and order of   *)
(* the dependencies: a plan that is reported leaves out nothing that was   *)
(* asked for, its two forms agree and its DAG is in order; every leased    *)
(* row of it gives a job, no package is built twice at one version in a    *)
(* drain, and the packs of a job are in order and built with what they     *)
(* depend on.                                                              *)
(*                                                                         *)
(* NothingLeftOut is about the last state of the resolver; LoopInv says    *)
(* what each of its loops has achieved so far.  What is collected in       *)
(* depSeen is planned only by the last loop, and a cap that cuts a wheel's *)
(* dependencies off is remembered, so that there is no plan then.          *)
(* LeaseHasJob and BuiltOnce rest on MatchInv: the jobs are the matches up *)
(* to where match has reached, each once; and on the plan holding no       *)
(* package twice at one version, and the batch no row twice.               *)
(*                                                                         *)
(* DagInOrder, FormsAgree and DepsFirst are about two recursions, addPack  *)
(* and visit.  Both go down in the rank of the packs (PackRank), so that a *)
(* call under way is never called again; NodesInv and Visiting say so of   *)
(* the calls there are, and where the packs are that they have been        *)
(* through.  BuiltWithDeps needs that the priorities sortPacksByPriority   *)
(* uses agree with the rank, except for cpython, which has none.           *)
(***************************************************************************)
EXTENDS JobPrep, ListProofs

PairAt(i) == <<plan[i].name, plan[i].version>>
InPlan(n) == (\E i \in DOMAIN plan : plan[i].name = n) \/ (adding # NoPackage /\ adding.name = n)

(* The pairs planned are those of the flat plan and of the package at hand. *)
AddingPair == {<<a.name, a.version>> : a \in {adding} \ {NoPackage}}

(* The flat plan is a list of what was seen, without repetitions.          *)
FlatInv ==
    /\ plan \in Seq(ToSet(plan))
    /\ seen = {PairAt(i) : i \in DOMAIN plan} \cup AddingPair
    /\ \A i, j \in DOMAIN plan : i # j => PairAt(i) # PairAt(j)
    /\ \A i \in DOMAIN plan : PairAt(i) \notin AddingPair
    /\ adding # NoPackage => adding.name \in Name
    /\ adding = NoPackage => calls = <<>>

(* What wheel w requires, up to its place k.                               *)
Known(w, k) ==
    depTruncated \/ \A i \in DOMAIN parseRequiresDist(w.requires) :
                       i < k => parseRequiresDist(w.requires)[i].name \in DOMAIN depSeen

WheelDone(w) ==
    w.name # NoName =>
        /\ InPlan(w.name)
        /\ depTruncated \/ \A i \in DOMAIN parseRequiresDist(w.requires) :
                              parseRequiresDist(w.requires)[i].name \in DOMAIN depSeen

LoopInv ==
    /\ input \in InputSets
    /\ pc \in {"reqs", "wheels", "deps", "planned", "failed"}
    /\ at \in Nat \ {0} /\ depAt \in Nat \ {0}
    /\ \A n \in DOMAIN depSeen : n \in Name /\ Norm[n] = n
    /\ todo \subseteq Name
    /\ \A i \in DOMAIN reqs : (pc = "reqs" => i < at) => reqs[i].name \in DOMAIN depSeen
    /\ pc = "reqs" => depAt = 1
    /\ pc = "wheels" => /\ \A i \in DOMAIN wheels : i < at => WheelDone(wheels[i])
                        /\ at \in DOMAIN wheels => Known(wheels[at], depAt)
    /\ pc \in {"deps", "planned", "failed"} =>
          /\ \A i \in DOMAIN wheels : WheelDone(wheels[i])
          /\ \A n \in DOMAIN depSeen : n \in todo \/ InPlan(n)
    /\ pc = "planned" => ~depTruncated /\ todo = {}
    /\ pc \in {"planned", "failed"} => adding = NoPackage

ResolverInv == FlatInv /\ LoopInv

(* The rows and the requests of the drain.                                 *)
BatchInv ==
    /\ stage \in {"plan", "queued", "match", "topo", "packs", "done"}
    /\ stage # "plan" => pc = "planned"
    /\ stage = "plan" => queued = {}
    /\ queued \subseteq {PairAt(i) : i \in {j \in DOMAIN plan : plan[j].version # NoVersion}}
    /\ stage \in {"plan", "queued"} => batch = <<>>
    /\ DOMAIN batch \subseteq Nat \ {0}
    /\ \/ \A i, k \in DOMAIN batch : i = k
       \/ \A i, k \in DOMAIN batch : batch[i] \in queued /\ (i # k => batch[i] # batch[k])

(* Job j is the one of match x.                                            *)
JobOf(j, x) == j.req = x[1] /\ j.name = plan[x[2]].name /\ j.version = plan[x[2]].version

Preparing == stage \in {"topo", "packs"}

(* The jobs are the matches before where match stands, or up to there if
   the job at hand is done.                                                *)
MatchInv ==
    /\ stage \in {"plan", "queued"} => reached = <<0, 0>> /\ jobs = <<>>
    /\ reached \in Nat \X Nat
    /\ jobs \in Seq(ToSet(jobs))
    /\ \A k \in DOMAIN jobs : \E x \in Matches :
          JobOf(jobs[k], x) /\ (Before(x, reached) \/ (x = reached /\ ~Preparing))
    /\ Preparing => /\ reached \in Matches /\ JobOf(job, reached)
                    /\ {"req", "name", "version"} \subseteq DOMAIN job
    /\ \A x \in Matches : x \in Ahead \/ (x = reached /\ Preparing)
                          \/ \E k \in DOMAIN jobs : JobOf(jobs[k], x)
    /\ \A i, k \in DOMAIN jobs : i # k =>
          ~(/\ jobs[i].req = jobs[k].req /\ jobs[i].name = jobs[k].name
            /\ jobs[i].version = jobs[k].version)
    /\ stage = "done" => Ahead = {}

PrepInv == ResolverInv /\ BatchInv /\ MatchInv

-----------------------------------------------------------------------------
(* Lists of lines.                                                         *)

(* Named keeps lines that have a name.                                     *)
LEMMA NamedIsList ==
    ASSUME NEW q, AreLines(q)
    PROVE  \E k \in Nat : /\ DOMAIN Named(q) = 1..k
                          /\ \A i \in 1..k : Named(q)[i].name \in Name
<1> DEFINE I == {i \in DOMAIN q : q[i].name # NoName}
<1>1. Len(q) \in Nat /\ DOMAIN q = 1..Len(q)
  BY LenProperties DEF AreLines
<1>2. I \in SUBSET (1..Len(q)) /\ \A i \in I : q[i].name \in Name
  BY <1>1 DEF AreLines
<1>3. Named(q) = [n \in 1..Cardinality(I) |-> q[Nth(I, n)]]
  BY DEF Named, AtPlaces
<1> HIDE DEF I
<1>4. Cardinality(I) \in Nat /\ \A n \in 1..Cardinality(I) : Nth(I, n) \in I
  BY <1>1, <1>2, NthFacts
<1>5. \A n \in 1..Cardinality(I) : Named(q)[n].name \in Name
  BY <1>2, <1>3, <1>4
<1> QED
  BY <1>3, <1>4, <1>5

(* Parsed requirements are a list, and their names are normalised.         *)
LEMMA ParsedIsList ==
    ASSUME NEW q, AreLines(q)
    PROVE  /\ \E k \in Nat : DOMAIN loadRequirements(q) = 1..k
           /\ \A i \in DOMAIN loadRequirements(q) :
                 LET n == loadRequirements(q)[i].name IN n \in Name /\ Norm[n] = n
           /\ \E k \in Nat : DOMAIN parseRequiresDist(q) = 1..k
           /\ Len(parseRequiresDist(q)) \in Nat
           /\ \A i \in DOMAIN parseRequiresDist(q) :
                 LET n == parseRequiresDist(q)[i].name IN n \in Name /\ Norm[n] = n
<1>1. PICK k \in Nat : /\ DOMAIN Named(q) = 1..k
                       /\ \A i \in 1..k : Named(q)[i].name \in Name
  BY NamedIsList
<1>2. \A n \in Name : Norm[n] \in Name /\ Norm[Norm[n]] = Norm[n]
  BY ResolverAssumption
<1>3. loadRequirements(q) =
        [i \in 1..k |-> [name |-> Norm[Named(q)[i].name], version |-> TrimEq(Named(q)[i].version)]]
  BY <1>1 DEF loadRequirements
<1>4. parseRequiresDist(q) =
        [i \in 1..k |-> [name |-> Norm[Named(q)[i].name], version |-> Named(q)[i].version]]
  BY <1>1 DEF parseRequiresDist
<1>5. Len(parseRequiresDist(q)) = k
  BY <1>4
<1> QED
  BY <1>1, <1>2, <1>3, <1>4, <1>5

-----------------------------------------------------------------------------
(* The resolver.                                                           *)

(* What AddBuild and AddNode do to the package at hand.                    *)
Planning(n, v) ==
    /\ adding = NoPackage /\ plan' = plan /\ calls' = calls
    /\ \/ <<n, v>> \in seen /\ seen' = seen /\ adding' = adding
       \/ /\ <<n, v>> \notin seen /\ seen' = seen \cup {<<n, v>>}
          /\ adding'.name = n /\ adding'.version = v

LEMMA PlanningFacts ==
    ASSUME NEW n \in Name, NEW v, FlatInv, Planning(n, v)
    PROVE  FlatInv' /\ InPlan(n)' /\ (\A m : InPlan(m) => InPlan(m)')
<1>1. AddingPair = {} /\ calls' = <<>>
  BY DEF AddingPair, Planning, FlatInv
<1>2. CASE <<n, v>> \in seen /\ seen' = seen /\ adding' = adding
  <2>1. PICK i \in DOMAIN plan : PairAt(i) = <<n, v>>
    BY <1>1, <1>2 DEF FlatInv
  <2>2. plan[i].name = n
    BY <2>1 DEF PairAt
  <2>3. plan' = plan
    BY DEF Planning
  <2> QED
    BY <1>1, <1>2, <2>1, <2>2, <2>3 DEF FlatInv, InPlan, PairAt, AddingPair
<1>3. CASE /\ <<n, v>> \notin seen /\ seen' = seen \cup {<<n, v>>}
           /\ adding'.name = n /\ adding'.version = v
  <2>1. plan' = plan /\ adding = NoPackage
    BY DEF Planning
  <2>2. adding' # NoPackage
    BY <1>3, ResolverAssumption DEF NoPackage
  <2>3. AddingPair' = {<<n, v>>}
    BY <1>3, <2>2 DEF AddingPair
  <2>4. FlatInv'
    BY <1>1, <1>3, <2>1, <2>2, <2>3 DEF FlatInv, PairAt
  <2> QED
    BY <1>3, <2>1, <2>2, <2>4 DEF InPlan
<1> QED
  BY <1>2, <1>3 DEF Planning

(* A step that leaves the plan and the package at hand.                    *)
LEMMA FlatFrame ==
    ASSUME FlatInv, UNCHANGED nodeVars
    PROVE  FlatInv' /\ \A m : InPlan(m)' <=> InPlan(m)
BY DEF nodeVars, FlatInv, PairAt, AddingPair, InPlan

(* A name is put among the dependencies.                                   *)
LEMMA PutFacts ==
    ASSUME NEW f, NEW n, NEW v
    PROVE  DOMAIN Put(f, n, v) = DOMAIN f \cup {n}
BY DEF Put

(* Input lines are what ResolverAssumption says.                           *)
LEMMA InputFacts ==
    ASSUME LoopInv
    PROVE  /\ \E k \in Nat : DOMAIN reqs = 1..k
           /\ \A i \in DOMAIN reqs : reqs[i].name \in Name /\ Norm[reqs[i].name] = reqs[i].name
           /\ \E k \in Nat : DOMAIN wheels = 1..k
           /\ \A i \in DOMAIN wheels : /\ wheels[i].name \in Name \cup {NoName}
                                       /\ AreLines(wheels[i].requires)
<1>1. /\ AreLines(input.reqs) /\ AreLines(input.wheels)
      /\ \A i \in DOMAIN input.wheels : AreLines(input.wheels[i].requires)
  BY ResolverAssumption DEF LoopInv
<1>2. \E k \in Nat : DOMAIN wheels = 1..k
  BY <1>1, LenProperties DEF AreLines, wheels
<1> QED
  BY <1>1, <1>2, ParsedIsList DEF reqs, wheels, AreLines

LEMMA StepRequirement ==
    ASSUME ResolverInv, PlanRequirement
    PROVE  ResolverInv'
<1> USE DEF ResolverInv
<1>1. PICK answer \in (IF IsOpen(reqs[at].version) THEN Answers ELSE {NoVersion}) :
          /\ depSeen' = Put(depSeen, reqs[at].name, Resolved(reqs[at].version, answer))
          /\ AddBuild(reqs[at].name, Resolved(reqs[at].version, answer))
  BY DEF PlanRequirement
<1>2. PICK n, v : n = reqs[at].name /\ v = Resolved(reqs[at].version, answer)
  OBVIOUS
<1>3. Planning(n, v)
  BY <1>1, <1>2 DEF PlanRequirement, In, AddBuild, AddNode, Planning
<1>5. /\ pc = "reqs" /\ pc' = pc /\ at \in DOMAIN reqs /\ at' = at + 1 /\ depAt' = 1
      /\ input' = input /\ reqs' = reqs /\ todo' = todo
  BY DEF PlanRequirement, In, Advance, reqs
<1>6. DOMAIN depSeen' = DOMAIN depSeen \cup {n}
  BY <1>1, <1>2, PutFacts
<1>7. n \in Name /\ Norm[n] = n
  BY <1>2, <1>5, InputFacts
<1>4. FlatInv' /\ \A m : InPlan(m) => InPlan(m)'
  BY <1>3, <1>7, PlanningFacts
<1>8. at \in Nat \ {0} /\ at + 1 \in Nat \ {0} /\ \A i \in Nat : i < at + 1 => i < at \/ i = at
  BY DEF LoopInv
<1>9. DOMAIN reqs \subseteq Nat
  BY InputFacts
<1>10. \A i \in DOMAIN reqs : i < at + 1 => reqs[i].name \in DOMAIN depSeen'
  BY <1>2, <1>5, <1>6, <1>8, <1>9 DEF LoopInv
<1>11. LoopInv'
  BY <1>5, <1>6, <1>7, <1>8, <1>10 DEF LoopInv
<1> QED
  BY <1>4, <1>11

LEMMA StepRequirementsDone ==
    ASSUME ResolverInv, RequirementsDone
    PROVE  ResolverInv'
<1> USE DEF ResolverInv
<1>1. /\ pc = "reqs" /\ pc' = "wheels" /\ at \notin DOMAIN reqs /\ at' = 1 /\ depAt' = depAt
      /\ input' = input /\ reqs' = reqs /\ wheels' = wheels /\ todo' = todo /\ depSeen' = depSeen
      /\ UNCHANGED nodeVars /\ adding = NoPackage
  BY DEF RequirementsDone, In, reqs, wheels
<1>2. FlatInv' /\ \A m : InPlan(m)' <=> InPlan(m)
  BY <1>1, FlatFrame
<1>3. \A i \in DOMAIN reqs : reqs[i].name \in DOMAIN depSeen
  <2>1. PICK k \in Nat : DOMAIN reqs = 1..k
    BY InputFacts
  <2>2. \A i \in 1..k : i < at
    BY <1>1, <2>1 DEF LoopInv
  <2> QED
    BY <1>1, <2>1, <2>2 DEF LoopInv
<1>4. DOMAIN wheels \subseteq Nat \ {0}
  BY InputFacts
<1>5. \A i \in DOMAIN wheels : Known(wheels[i], 1)'
  <2> SUFFICES ASSUME NEW i \in DOMAIN wheels PROVE Known(wheels[i], 1)'
    OBVIOUS
  <2>1. PICK w : w = wheels[i]
    OBVIOUS
  <2>2. \E k \in Nat : DOMAIN parseRequiresDist(w.requires) = 1..k
    BY <2>1, InputFacts, ParsedIsList
  <2>3. \A l \in DOMAIN parseRequiresDist(w.requires) : ~(l < 1)
    BY <2>2
  <2>4. Known(w, 1)'
    BY <2>3 DEF Known
  <2> QED
    BY <1>1, <2>1, <2>4 DEF Known
<1>6. LoopInv'
  BY <1>1, <1>3, <1>4, <1>5 DEF LoopInv
<1> QED
  BY <1>2, <1>6

LEMMA NoneBeforeFirst ==
    ASSUME LoopInv, NEW i \in DOMAIN wheels
    PROVE  \A l \in DOMAIN parseRequiresDist(wheels[i].requires) : l \in Nat /\ ~(l < 1)
<1>1. \E k \in Nat : DOMAIN parseRequiresDist(wheels[i].requires) = 1..k
  BY InputFacts, ParsedIsList
<1> QED
  BY <1>1

(* A wheel that is done stays so while the plan, the dependencies and the
   mark of a cut grow.                                                     *)
LEMMA DoneStays ==
    ASSUME wheels' = wheels, DOMAIN depSeen \subseteq DOMAIN depSeen',
           \A m : InPlan(m) => InPlan(m)', depTruncated => depTruncated'
    PROVE  \A i \in DOMAIN wheels : WheelDone(wheels[i]) => WheelDone(wheels[i])'
<1> SUFFICES ASSUME NEW i \in DOMAIN wheels, WheelDone(wheels[i]) PROVE WheelDone(wheels[i])'
  OBVIOUS
<1>1. PICK w : w = wheels[i]
  OBVIOUS
<1>2. WheelDone(w)'
  BY <1>1 DEF WheelDone
<1> QED
  BY <1>1, <1>2 DEF WheelDone

(* The loops stand still while the plan grows.                             *)
LEMMA LoopFrame ==
    ASSUME LoopInv, UNCHANGED <<input, loopVars>>, \A m : InPlan(m) => InPlan(m)',
           adding' \in {adding, NoPackage}
    PROVE  LoopInv'
<1>1. /\ pc' = pc /\ at' = at /\ depAt' = depAt /\ depSeen' = depSeen /\ todo' = todo
      /\ (depTruncated' <=> depTruncated) /\ reqs' = reqs /\ wheels' = wheels /\ input' = input
  BY DEF loopVars, reqs, wheels
<1>2. \A i \in DOMAIN wheels : WheelDone(wheels[i]) => WheelDone(wheels[i])'
  BY <1>1, DoneStays
<1>3. Known(wheels[at], depAt)' <=> Known(wheels[at], depAt)
  BY <1>1 DEF Known
<1> QED
  BY <1>1, <1>2, <1>3 DEF LoopInv

LEMMA StepSkipWheel ==
    ASSUME ResolverInv, SkipWheel
    PROVE  ResolverInv'
<1> USE DEF ResolverInv
<1>1. /\ pc = "wheels" /\ pc' = pc /\ at \in DOMAIN wheels /\ wheels[at].name = NoName
      /\ at' = at + 1 /\ depAt' = 1
      /\ input' = input /\ reqs' = reqs /\ wheels' = wheels /\ todo' = todo /\ depSeen' = depSeen
      /\ UNCHANGED nodeVars /\ adding = NoPackage /\ depTruncated' = depTruncated
  BY DEF SkipWheel, In, Advance, reqs, wheels
<1>2. FlatInv' /\ \A m : InPlan(m)' <=> InPlan(m)
  BY <1>1, FlatFrame
<1>3. DOMAIN wheels \subseteq Nat
  BY InputFacts
<1>4. at \in Nat \ {0} /\ at + 1 \in Nat \ {0} /\ \A i \in Nat : i < at + 1 => i < at \/ i = at
  BY DEF LoopInv
<1>5. \A i \in DOMAIN wheels : i < at + 1 => WheelDone(wheels[i])
  BY <1>1, <1>3, <1>4 DEF LoopInv, WheelDone
<1>6. \A i \in DOMAIN wheels : WheelDone(wheels[i]) => WheelDone(wheels[i])'
  BY <1>1, <1>2, DoneStays
<1>7. \A i \in DOMAIN wheels : Known(wheels[i], 1)'
  BY <1>1, NoneBeforeFirst DEF Known
<1>8. LoopInv'
  BY <1>1, <1>4, <1>5, <1>6, <1>7 DEF LoopInv
<1> QED
  BY <1>2, <1>8

LEMMA StepRequireDep ==
    ASSUME ResolverInv, RequireDep
    PROVE  ResolverInv'
<1> USE DEF ResolverInv
<1>1. /\ pc = "wheels" /\ pc' = pc /\ at \in DOMAIN wheels /\ at' = at /\ depAt \in DOMAIN requires
      /\ input' = input /\ reqs' = reqs /\ wheels' = wheels /\ todo' = todo /\ UNCHANGED nodeVars
      /\ adding = NoPackage
  BY DEF RequireDep, AtWheel, In, reqs, wheels
<1>2. FlatInv' /\ \A m : InPlan(m)' <=> InPlan(m)
  BY <1>1, FlatFrame
<1>3. PICK w, q : w = wheels[at] /\ q = requires /\ q = parseRequiresDist(w.requires)
  BY DEF requires
<1>4. AreLines(w.requires)
  BY <1>1, <1>3, InputFacts
<1>5. /\ Len(q) \in Nat /\ DOMAIN q \subseteq Nat
      /\ \A i \in DOMAIN q : q[i].name \in Name /\ Norm[q[i].name] = q[i].name
  BY <1>3, <1>4, ParsedIsList
<1>6. depAt \in Nat \ {0} /\ depAt + 1 \in Nat \ {0} /\ Len(q) + 1 \in Nat \ {0}
      /\ \A i \in Nat : i < depAt + 1 => i < depAt \/ i = depAt
  BY <1>5 DEF LoopInv
<1>7. /\ DOMAIN depSeen \subseteq DOMAIN depSeen' /\ (depTruncated => depTruncated')
      /\ \A n \in DOMAIN depSeen' : n \in Name /\ Norm[n] = n
      /\ depAt' \in Nat \ {0}
      /\ Known(w, depAt)'
  <2>1. CASE Cardinality(DOMAIN depSeen) >= opts.maxDeps
    <3>1. depTruncated' /\ depAt' = Len(q) + 1 /\ depSeen' = depSeen
      BY <1>3, <2>1 DEF RequireDep
    <3> QED
      BY <1>6, <3>1 DEF LoopInv, Known
  <2>2. CASE ~(Cardinality(DOMAIN depSeen) >= opts.maxDeps)
    <3>1. Expand(requires[depAt])
      BY <2>2 DEF RequireDep
    <3>2. PICK n : n = q[depAt].name
      OBVIOUS
    <3>3. /\ depAt' = depAt + 1 /\ (depTruncated <=> depTruncated')
          /\ \/ n \in DOMAIN depSeen /\ depSeen' = depSeen
             \/ \E v : depSeen' = Put(depSeen, n, v)
      BY <1>3, <3>1, <3>2 DEF Expand
    <3>4. DOMAIN depSeen' = DOMAIN depSeen \cup {n}
      BY <3>3, PutFacts
    <3>5. n \in Name /\ Norm[n] = n
      BY <1>1, <1>3, <1>5, <3>2
    <3>6. depTruncated \/ \A i \in DOMAIN q : i < depAt => q[i].name \in DOMAIN depSeen
      BY <1>1, <1>3 DEF LoopInv, Known
    <3>7. depTruncated' \/ \A i \in DOMAIN q : i < depAt + 1 => q[i].name \in DOMAIN depSeen'
      BY <1>5, <1>6, <3>2, <3>3, <3>4, <3>6
    <3>8. Known(w, depAt)'
      BY <1>3, <3>3, <3>7 DEF Known
    <3> QED
      BY <1>6, <3>3, <3>4, <3>5, <3>8 DEF LoopInv
  <2> QED
    BY <2>1, <2>2
<1>9. \A i \in DOMAIN wheels : i < at => WheelDone(wheels[i])'
  BY <1>1, <1>2, <1>7, DoneStays DEF LoopInv
<1>10. Known(wheels[at], depAt)'
  BY <1>1, <1>3, <1>7 DEF Known
<1>11. LoopInv'
  BY <1>1, <1>7, <1>9, <1>10 DEF LoopInv
<1> QED
  BY <1>2, <1>11

LEMMA StepPlanWheel ==
    ASSUME ResolverInv, PlanWheel
    PROVE  ResolverInv'
<1> USE DEF ResolverInv
<1>1. /\ pc = "wheels" /\ pc' = pc /\ at \in DOMAIN wheels /\ depAt \notin DOMAIN requires
      /\ at' = at + 1 /\ depAt' = 1
      /\ input' = input /\ reqs' = reqs /\ wheels' = wheels /\ todo' = todo /\ depSeen' = depSeen
      /\ (depTruncated' <=> depTruncated)
  BY DEF PlanWheel, AtWheel, In, Advance, reqs, wheels
<1>2. PICK w, q : w = wheels[at] /\ q = requires /\ q = parseRequiresDist(w.requires)
  BY DEF requires
<1>3. \E v : Planning(w.name, v)
  <2>1. PICK o : o = TrimEq(overrides[Norm[w.name]])
    OBVIOUS
  <2>2. Planning(w.name, o) \/ Planning(w.name, w.version)
    BY <1>2, <2>1 DEF PlanWheel, AtWheel, In, AddBuild, AddNode, Planning
  <2> QED
    BY <2>2
<1>4. FlatInv' /\ InPlan(w.name)' /\ \A m : InPlan(m) => InPlan(m)'
  <2>1. w.name \in Name
    BY <1>1, <1>2, InputFacts DEF PlanWheel, AtWheel
  <2> QED
    BY <1>3, <2>1, PlanningFacts
<1>5. WheelDone(w)'
  <2>1. AreLines(w.requires)
    BY <1>1, <1>2, InputFacts
  <2>2. PICK k \in Nat : DOMAIN q = 1..k
    BY <1>2, <2>1, ParsedIsList
  <2>3. \A i \in DOMAIN q : i < depAt
    BY <1>1, <1>2, <2>2 DEF LoopInv
  <2>4. depTruncated \/ \A i \in DOMAIN q : q[i].name \in DOMAIN depSeen
    BY <1>1, <1>2, <2>3 DEF LoopInv, Known
  <2> QED
    BY <1>1, <1>2, <1>4, <2>4 DEF WheelDone
<1>6. at \in Nat \ {0} /\ at + 1 \in Nat \ {0} /\ \A i \in Nat : i < at + 1 => i < at \/ i = at
  BY DEF LoopInv
<1>7. DOMAIN wheels \subseteq Nat
  BY InputFacts
<1>8. \A i \in DOMAIN wheels : i < at + 1 => WheelDone(wheels[i])'
  <2>1. \A i \in DOMAIN wheels : i < at => WheelDone(wheels[i])'
    BY <1>1, <1>4, DoneStays DEF LoopInv
  <2>2. \A i \in DOMAIN wheels : i = at => WheelDone(wheels[i])'
    BY <1>1, <1>2, <1>5 DEF WheelDone
  <2> QED
    BY <1>1, <1>6, <1>7, <2>1, <2>2
<1>9. \A i \in DOMAIN wheels : Known(wheels[i], 1)'
  BY <1>1, NoneBeforeFirst DEF Known
<1>10. LoopInv'
  BY <1>1, <1>6, <1>8, <1>9 DEF LoopInv
<1> QED
  BY <1>4, <1>10

LEMMA StepWheelsDone ==
    ASSUME ResolverInv, WheelsDone
    PROVE  ResolverInv'
<1> USE DEF ResolverInv
<1>1. /\ pc = "wheels" /\ pc' = "deps" /\ at \notin DOMAIN wheels /\ todo' = DOMAIN depSeen
      /\ at' = at /\ depAt' = depAt
      /\ input' = input /\ reqs' = reqs /\ wheels' = wheels /\ depSeen' = depSeen
      /\ UNCHANGED nodeVars /\ adding = NoPackage /\ (depTruncated' <=> depTruncated)
  BY DEF WheelsDone, In, reqs, wheels
<1>2. FlatInv' /\ \A m : InPlan(m)' <=> InPlan(m)
  BY <1>1, FlatFrame
<1>3. \A i \in DOMAIN wheels : WheelDone(wheels[i])
  <2>1. PICK k \in Nat : DOMAIN wheels = 1..k
    BY InputFacts
  <2>2. \A i \in 1..k : i < at
    BY <1>1, <2>1 DEF LoopInv
  <2> QED
    BY <1>1, <2>1, <2>2 DEF LoopInv
<1>4. \A i \in DOMAIN wheels : WheelDone(wheels[i])'
  BY <1>1, <1>2, <1>3, DoneStays
<1>5. LoopInv'
  BY <1>1, <1>4 DEF LoopInv
<1> QED
  BY <1>2, <1>5

LEMMA StepPlanDep ==
    ASSUME ResolverInv, NEW n \in todo, PlanDep(n)
    PROVE  ResolverInv'
<1> USE DEF ResolverInv
<1>1. /\ pc = "deps" /\ pc' = pc /\ todo' = todo \ {n} /\ at' = at /\ depAt' = depAt
      /\ input' = input /\ reqs' = reqs /\ wheels' = wheels /\ depSeen' = depSeen
      /\ (depTruncated' <=> depTruncated)
  BY DEF PlanDep, In, reqs, wheels
<1>2. \E v : Planning(n, v)
  <2> DEFINE chosen == IF n \in DOMAIN constraints /\ constraints[n] # NoVersion THEN constraints[n]
                       ELSE IF n \in DOMAIN overrides /\ overrides[n] # NoVersion
                       THEN TrimEq(overrides[n]) ELSE depSeen[n]
  <2>1. PICK a1 \in (IF chosen = NoVersion THEN Answers ELSE {chosen}),
             a2 \in (IF opts.eager THEN Answers ELSE {NoVersion}) :
             AddBuild(n, Resolved(IF a1 = NoVersion THEN Latest ELSE a1, a2))
    BY DEF PlanDep
  <2>2. PICK v : v = Resolved(IF a1 = NoVersion THEN Latest ELSE a1, a2)
    OBVIOUS
  <2>3. Planning(n, v)
    BY <2>1, <2>2 DEF PlanDep, In, AddBuild, AddNode, Planning
  <2> QED
    BY <2>3
<1>3. FlatInv' /\ InPlan(n)' /\ \A m : InPlan(m) => InPlan(m)'
  <2>1. n \in Name
    BY <1>1 DEF LoopInv
  <2> QED
    BY <1>2, <2>1, PlanningFacts
<1>4. \A i \in DOMAIN wheels : WheelDone(wheels[i])'
  BY <1>1, <1>3, DoneStays DEF LoopInv
<1>5. \A m \in DOMAIN depSeen : m \in todo' \/ InPlan(m)'
  BY <1>1, <1>3 DEF LoopInv
<1>6. LoopInv'
  BY <1>1, <1>4, <1>5 DEF LoopInv
<1> QED
  BY <1>3, <1>6

LEMMA StepFinish ==
    ASSUME ResolverInv, Finish
    PROVE  ResolverInv'
<1> USE DEF ResolverInv
<1>1. /\ pc = "deps" /\ todo = {} /\ pc' \in {"planned", "failed"}
      /\ pc' = "planned" => ~depTruncated
      /\ at' = at /\ depAt' = depAt /\ todo' = todo
      /\ input' = input /\ reqs' = reqs /\ wheels' = wheels /\ depSeen' = depSeen
      /\ UNCHANGED nodeVars /\ adding = NoPackage /\ adding' = adding
      /\ (depTruncated' <=> depTruncated)
  BY DEF nodeVars, Finish, In, reqs, wheels
<1>2. FlatInv' /\ \A m : InPlan(m)' <=> InPlan(m)
  BY <1>1, FlatFrame
<1>3. /\ \A i \in DOMAIN wheels : WheelDone(wheels[i])'
      /\ \A n \in DOMAIN depSeen : n \in todo \/ InPlan(n)'
  BY <1>1, <1>2, DoneStays DEF LoopInv
<1>4. LoopInv'
  BY <1>1, <1>3 DEF LoopInv
<1> QED
  BY <1>2, <1>4

(* A step of addPack leaves the loops and the flat plan alone.             *)
LEMMA StepPacks ==
    ASSUME ResolverInv, CallAddPack \/ addPack
    PROVE  ResolverInv'
<1> USE DEF ResolverInv
<1>1. /\ UNCHANGED <<input, loopVars, seen, plan, adding>> /\ adding # NoPackage
  BY DEF CallAddPack, addPack, FlatInv
<1>2. /\ pc' = pc /\ at' = at /\ depAt' = depAt /\ depSeen' = depSeen /\ todo' = todo
      /\ (depTruncated' <=> depTruncated) /\ reqs' = reqs /\ wheels' = wheels
  BY <1>1 DEF loopVars, reqs, wheels
<1>3. FlatInv' /\ \A m : InPlan(m)' <=> InPlan(m)
  BY <1>1 DEF FlatInv, PairAt, AddingPair, InPlan
<1>4. LoopInv'
  BY <1>1, <1>2, <1>3, LoopFrame
<1> QED
  BY <1>3, <1>4

LEMMA StepAddWheel ==
    ASSUME ResolverInv, AddWheel
    PROVE  ResolverInv'
<1> USE DEF ResolverInv
<1>1. PICK a, e : a = adding /\ e = [name |-> a.name, version |-> a.version, action |-> a.action]
  OBVIOUS
<1>2. /\ UNCHANGED <<input, loopVars, seen, calls>> /\ adding # NoPackage /\ calls = <<>>
      /\ plan' = Append(plan, e) /\ adding' = NoPackage
  BY <1>1 DEF AddWheel
<1>3. PICK l \in Nat : l = Len(plan) /\ DOMAIN plan = 1..l
  BY LenProperties DEF FlatInv
<1>4. /\ plan' \in Seq(ToSet(plan) \cup {e}) /\ Len(plan') = l + 1
      /\ \A k \in 1..l : plan'[k] = plan[k]
      /\ plan'[l + 1] = e
  <2>1. plan \in Seq(ToSet(plan) \cup {e})
    BY SeqMonotonic DEF FlatInv
  <2> QED
    BY <1>2, <1>3, <2>1, AppendProperties
<1>5. DOMAIN plan' = 1..(l + 1)
  BY <1>4, LenProperties
<1>6. plan' \in Seq(ToSet(plan'))
  <2>1. \A k \in 1..Len(plan') : plan'[k] \in ToSet(plan')
    BY <1>4, <1>5 DEF ToSet
  <2> QED
    BY <1>4, <1>5, <2>1
<1>7. /\ l + 1 \in 1..(l + 1) /\ \A k \in 1..(l + 1) : k \in 1..l \/ k = l + 1
      /\ 1..l \subseteq 1..(l + 1)
  OBVIOUS
<1>8. AddingPair = {<<a.name, a.version>>} /\ AddingPair' = {}
  BY <1>1, <1>2 DEF AddingPair
<1>9. /\ \A k \in 1..l : PairAt(k)' = PairAt(k)
      /\ PairAt(l + 1)' = <<a.name, a.version>>
  BY <1>1, <1>4 DEF PairAt
<1>10. FlatInv'
  <2>1. seen' = {PairAt(i)' : i \in 1..(l + 1)}
    BY <1>2, <1>3, <1>7, <1>8, <1>9 DEF FlatInv
  <2>2. \A i, j \in 1..(l + 1) : i # j => PairAt(i)' # PairAt(j)'
    BY <1>3, <1>7, <1>8, <1>9 DEF FlatInv
  <2> QED
    BY <1>2, <1>5, <1>6, <1>8, <2>1, <2>2 DEF FlatInv
<1>11. \A m : InPlan(m) => InPlan(m)'
  BY <1>1, <1>2, <1>3, <1>4, <1>5, <1>7 DEF InPlan
<1>12. LoopInv'
  BY <1>2, <1>11, LoopFrame
<1> QED
  BY <1>10, <1>12

(* The resolver stands still.                                              *)
LEMMA ResolverFrame ==
    ASSUME ResolverInv, UNCHANGED resolverVars
    PROVE  ResolverInv' /\ plan' = plan /\ pc' = pc /\ dag' = dag /\ opts' = opts /\ seen' = seen
<1>1. UNCHANGED <<input, opts, loopVars, nodeVars>>
  BY DEF resolverVars
<1>2. adding' = adding /\ plan' = plan /\ pc' = pc /\ dag' = dag /\ opts' = opts /\ seen' = seen
  BY <1>1 DEF nodeVars, loopVars
<1> QED
  BY <1>1, <1>2, FlatFrame, LoopFrame DEF ResolverInv

(* A run of the resolver, from its start to its end.                       *)
LEMMA ResolverStep ==
    ResolverInv /\ ResolverNext => ResolverInv'
BY StepRequirement, StepRequirementsDone, StepSkipWheel, StepRequireDep, StepPlanWheel,
   StepWheelsDone, StepPlanDep, StepFinish, StepPacks, StepAddWheel
   DEF ResolverNext

LEMMA ResolverStart ==
    ResolverInit => ResolverInv
<1> SUFFICES ASSUME ResolverInit PROVE ResolverInv
  OBVIOUS
<1>1. FlatInv
  BY DEF ResolverInit, FlatInv, AddingPair
<1>2. /\ \E k \in Nat : DOMAIN reqs = 1..k
      /\ DOMAIN depSeen = {}
  <2>1. AreLines(input.reqs)
    BY ResolverAssumption DEF ResolverInit
  <2> QED
    BY <2>1, ParsedIsList DEF reqs, ResolverInit
<1>3. LoopInv
  BY <1>2 DEF ResolverInit, LoopInv
<1> QED
  BY <1>1, <1>3 DEF ResolverInv

(* What is known of a finished plan.                                       *)
LEMMA PlanIsComplete ==
    ResolverInv => NothingLeftOut
<1> SUFFICES ASSUME ResolverInv, pc = "planned", NEW n \in Asked
             PROVE  \E i \in DOMAIN plan : Norm[plan[i].name] = n
  BY DEF NothingLeftOut
<1> USE DEF ResolverInv
<1>1. ASSUME n \in DOMAIN depSeen PROVE \E i \in DOMAIN plan : Norm[plan[i].name] = n
  BY <1>1 DEF LoopInv, InPlan
<1>2. CASE n \in {reqs[i].name : i \in DOMAIN reqs}
  BY <1>1, <1>2 DEF LoopInv
<1>3. ASSUME NEW i \in DOMAIN wheels, wheels[i].name # NoName,
             n \in {Norm[wheels[i].name]} \cup {d.name : d \in ToSet(parseRequiresDist(wheels[i].requires))}
      PROVE  \E k \in DOMAIN plan : Norm[plan[k].name] = n
  <2>1. /\ InPlan(wheels[i].name)
        /\ \A k \in DOMAIN parseRequiresDist(wheels[i].requires) :
              parseRequiresDist(wheels[i].requires)[k].name \in DOMAIN depSeen
    BY <1>3 DEF LoopInv, WheelDone
  <2>2. CASE n = Norm[wheels[i].name]
    BY <2>1, <2>2 DEF InPlan, LoopInv
  <2>3. CASE n \in {d.name : d \in ToSet(parseRequiresDist(wheels[i].requires))}
    BY <1>1, <2>1, <2>3 DEF ToSet
  <2> QED
    BY <1>3, <2>2, <2>3
<1> QED
  BY <1>2, <1>3 DEF Asked

-----------------------------------------------------------------------------
(* The drain.                                                              *)

LEMMA BeforeFacts ==
    /\ \A x \in Nat \X Nat : ~Before(x, x)
    /\ \A x, y \in Nat \X Nat : Before(x, y) \/ x = y \/ Before(y, x)
    /\ \A x, y, z \in Nat \X Nat : Before(x, y) /\ Before(y, z) => Before(x, z)
    /\ \A x, y \in Nat \X Nat : ~(Before(x, y) /\ Before(y, x))
<1>1. \A x, y \in Nat \X Nat : x[1] = y[1] /\ x[2] = y[2] => x = y
  OBVIOUS
<1>2. \A x \in Nat \X Nat : x[1] \in Nat /\ x[2] \in Nat
  OBVIOUS
<1>3. \A a, b, c, d \in Nat : a < c \/ (a = c /\ b < d) \/ (a = c /\ b = d) \/ c < a \/ (c = a /\ d < b)
  OBVIOUS
<1>4. \A x, y \in Nat \X Nat : Before(x, y) \/ x = y \/ Before(y, x)
  BY <1>1, <1>2, <1>3 DEF Before
<1> QED
  BY <1>2, <1>4 DEF Before

LEMMA MatchFacts ==
    ASSUME FlatInv, BatchInv
    PROVE  /\ Matches \subseteq Nat \X Nat
           /\ \A x \in Matches : /\ x[1] \in DOMAIN batch /\ x[2] \in DOMAIN plan
                                 /\ Wants(batch[x[1]], plan[x[2]])
<1>1. DOMAIN plan \subseteq Nat
  BY LenProperties DEF FlatInv
<1>2. DOMAIN batch \subseteq Nat
  BY DEF BatchInv
<1> QED
  BY <1>1, <1>2 DEF Matches

(* The resolver has not finished when it takes a step.                     *)
LEMMA ResolverBefore ==
    ASSUME ResolverInv, ResolverNext
    PROVE  pc # "planned"
BY DEF ResolverInv, ResolverNext, PlanRequirement, RequirementsDone, SkipWheel, RequireDep, PlanWheel, AtWheel,
   WheelsDone, PlanDep, Finish, In, CallAddPack, addPack, AddWheel, FlatInv, LoopInv

(* A step of the drain leaves the plan alone, one of the resolver comes
   before the drain.                                                       *)
LEMMA StepResolver ==
    ASSUME PrepInv, ResolverNext, UNCHANGED prepVars
    PROVE  PrepInv'
<1> USE DEF PrepInv, ResolverInv
<1>1. ResolverInv'
  BY ResolverStep
<1>2. pc # "planned"
  BY ResolverBefore
<1>3. /\ stage = "plan" /\ queued = {} /\ batch = <<>> /\ reached = <<0, 0>> /\ jobs = <<>>
      /\ stage' = "plan" /\ queued' = {} /\ batch' = <<>> /\ reached' = <<0, 0>> /\ jobs' = <<>>
  BY <1>2 DEF BatchInv, MatchInv, prepVars
<1>4. DOMAIN batch' = {} /\ DOMAIN jobs' = {} /\ jobs' \in Seq(ToSet(jobs'))
  BY <1>3
<1>5. BatchInv'
  BY <1>3, <1>4 DEF BatchInv
<1>6. Matches' = {}
  BY <1>4 DEF Matches
<1>7. MatchInv'
  BY <1>3, <1>4, <1>6 DEF MatchInv, Ahead, Preparing
<1> QED
  BY <1>1, <1>5, <1>7

LEMMA StepQueueBuilds ==
    ASSUME PrepInv, QueueBuilds
    PROVE  PrepInv'
<1> USE DEF PrepInv, ResolverInv
<1>1. /\ pc = "planned" /\ stage = "plan" /\ stage' = "queued" /\ UNCHANGED resolverVars
      /\ batch' = batch /\ reached' = reached /\ job' = job /\ jobs' = jobs
      /\ queued' = {<<m.name, m.version>> :
                      m \in {o \in ToSet(plan) : o.action = "build" /\ o.version # NoVersion}}
  BY DEF QueueBuilds
<1>2. /\ plan' = plan /\ pc' = pc /\ seen' = seen
  BY <1>1, ResolverFrame
<1>3. ResolverInv'
  BY <1>1, ResolverFrame
<1>4. queued' \subseteq {PairAt(i) : i \in {j \in DOMAIN plan : plan[j].version # NoVersion}}
  BY <1>1 DEF PairAt, ToSet
<1>5. batch' = <<>> /\ DOMAIN batch' = {} /\ reached' = <<0, 0>> /\ jobs' = <<>> /\ DOMAIN jobs' = {}
      /\ jobs' \in Seq(ToSet(jobs'))
  BY <1>1 DEF BatchInv, MatchInv, Preparing
<1>6. BatchInv'
  BY <1>1, <1>2, <1>4, <1>5 DEF BatchInv, PairAt
<1>7. Matches' = {}
  BY <1>5 DEF Matches
<1>8. MatchInv'
  BY <1>1, <1>5, <1>7 DEF MatchInv, Preparing, Ahead
<1> QED
  BY <1>3, <1>6, <1>8

LEMMA StepDrain ==
    ASSUME PrepInv, Drain
    PROVE  PrepInv'
<1> USE DEF PrepInv, ResolverInv
<1>1. /\ stage = "queued" /\ stage' = "match" /\ UNCHANGED resolverVars /\ queued' = queued
      /\ reached' = reached /\ job' = job /\ jobs' = jobs
  BY DEF Drain
<1>2. /\ plan' = plan /\ pc' = pc /\ seen' = seen
  BY <1>1, ResolverFrame
<1>3. ResolverInv'
  BY <1>1, ResolverFrame
<1>4. /\ DOMAIN batch' \subseteq Nat \ {0}
      /\ \/ \A i, k \in DOMAIN batch' : i = k
         \/ \A i, k \in DOMAIN batch' : batch'[i] \in queued /\ (i # k => batch'[i] # batch'[k])
  <2>1. CASE \E S \in SUBSET queued : /\ S # {} /\ Cardinality(S) <= BatchMax
                                      /\ batch' \in SetToSeqs(S)
    <3>1. PICK S \in SUBSET queued : batch' \in SetToSeqs(S)
      BY <2>1
    <3>2. /\ DOMAIN batch' = 1..Cardinality(S)
          /\ \A i, k \in DOMAIN batch' : batch'[i] \in queued /\ (i # k => batch'[i] # batch'[k])
      BY <3>1 DEF SetToSeqs
    <3>3. \A c : 1..c \subseteq Nat \ {0}
      OBVIOUS
    <3> QED
      BY <3>2, <3>3
  <2>2. CASE \E n \in Name, v \in {NoVersion, Latest} : batch' = <<<<n, v>>>>
    <3>1. DOMAIN batch' = {1}
      BY <2>2
    <3> QED
      BY <3>1
  <2> QED
    BY <2>1, <2>2 DEF Drain
<1>5. BatchInv'
  BY <1>1, <1>2, <1>4 DEF BatchInv, PairAt
<1>6. reached' = <<0, 0>> /\ jobs' = <<>> /\ DOMAIN jobs' = {} /\ jobs' \in Seq(ToSet(jobs'))
  BY <1>1 DEF MatchInv, Preparing
<1>7. Matches' \subseteq (Nat \ {0}) \X Nat
  <2>1. DOMAIN plan' \subseteq Nat
    BY <1>2, LenProperties DEF FlatInv
  <2> QED
    BY <1>4, <2>1 DEF Matches
<1>8. \A x \in Matches' : Before(<<0, 0>>, x)
  BY <1>7 DEF Before
<1>9. MatchInv'
  BY <1>1, <1>6, <1>8 DEF MatchInv, Preparing, Ahead, Before
<1> QED
  BY <1>3, <1>5, <1>9

(* The steps of match and of the packs leave plan, rows and batch alone.   *)
LEMMA Settled ==
    ASSUME PrepInv, UNCHANGED <<resolverVars, queued, batch>>,
           stage \in {"match", "topo", "packs"}, stage' \in {"match", "topo", "packs", "done"}
    PROVE  /\ ResolverInv' /\ BatchInv' /\ Matches' = Matches
           /\ \A j, x : JobOf(j, x)' <=> JobOf(j, x)
<1> USE DEF PrepInv
<1>1. ResolverInv' /\ UNCHANGED <<queued, batch>>
  BY ResolverFrame
<1>2. plan' = plan /\ pc' = pc
  BY ResolverFrame
<1>3. BatchInv'
  BY <1>1, <1>2 DEF BatchInv, PairAt
<1> QED
  BY <1>1, <1>2, <1>3 DEF Matches, JobOf

LEMMA StepBeginJob ==
    ASSUME PrepInv, BeginJob
    PROVE  PrepInv'
<1>1. PICK x \in Ahead :
        /\ \A y \in Ahead \ {x} : Before(x, y)
        /\ reached' = x
        /\ JobOf(job', x)
        /\ {"req", "name", "version"} \subseteq DOMAIN job'
  BY DEF BeginJob, NoJob, JobOf
<1>2. stage = "match" /\ stage' = "topo" /\ UNCHANGED <<resolverVars, queued, batch>> /\ jobs' = jobs
  BY DEF BeginJob
<1>0. ~Preparing /\ Preparing'
  BY <1>2 DEF Preparing
<1>3. /\ ResolverInv' /\ BatchInv' /\ Matches' = Matches
      /\ \A j, y : JobOf(j, y)' <=> JobOf(j, y)
  BY <1>2, Settled
<1>4. Matches \subseteq Nat \X Nat
  BY MatchFacts DEF PrepInv, ResolverInv
<1>5. x \in Matches /\ Before(reached, x) /\ reached \in Nat \X Nat
  BY <1>1 DEF Ahead, PrepInv, MatchInv, Preparing
<1>6. \A k \in DOMAIN jobs : \E y \in Matches : JobOf(jobs[k], y) /\ Before(y, x)
  BY <1>2, <1>4, <1>5, BeforeFacts DEF PrepInv, MatchInv, Preparing
<1>7. \A y \in Matches : Before(x, y) \/ y = x \/ \E k \in DOMAIN jobs : JobOf(jobs[k], y)
  <2> SUFFICES ASSUME NEW y \in Matches, ~(\E k \in DOMAIN jobs : JobOf(jobs[k], y)), y # x
               PROVE  Before(x, y)
    OBVIOUS
  <2>1. y \in Ahead
    BY <1>2 DEF PrepInv, MatchInv, Preparing
  <2> QED
    BY <1>1, <2>1
<1>8. Ahead' = {y \in Matches : Before(x, y)}
  BY <1>1, <1>3 DEF Ahead, Before
<1>9. \A k \in DOMAIN jobs' : \E y \in Matches' :
          JobOf(jobs[k], y)' /\ (Before(y, reached)' \/ (y = reached' /\ ~Preparing'))
  BY <1>1, <1>2, <1>3, <1>6 DEF Preparing, JobOf, Before
<1>10. reached' \in Matches' /\ JobOf(job, reached)'
  <2>1. Matches' = Matches /\ plan' = plan
    BY <1>2, <1>3, ResolverFrame DEF PrepInv
  <2> QED
    BY <1>1, <1>5, <2>1 DEF JobOf
<1>11. \A y \in Matches' : y \in Ahead' \/ (y = reached' /\ Preparing')
                           \/ \E k \in DOMAIN jobs' : JobOf(jobs[k], y)'
  <2>1. plan' = plan
    BY <1>2, ResolverFrame DEF PrepInv
  <2> QED
    BY <1>1, <1>2, <1>3, <1>7, <1>8, <2>1 DEF Preparing, JobOf
<1>12. MatchInv'
  <2>1. reached' \in Nat \X Nat /\ jobs' \in Seq(ToSet(jobs'))
    BY <1>1, <1>2, <1>4, <1>5 DEF PrepInv, MatchInv, Preparing
  <2>2. \A i, k \in DOMAIN jobs' : i # k =>
          ~(/\ jobs'[i].req = jobs'[k].req /\ jobs'[i].name = jobs'[k].name
            /\ jobs'[i].version = jobs'[k].version)
    BY <1>2 DEF PrepInv, MatchInv, Preparing
  <2> QED
    BY <1>1, <1>2, <1>9, <1>10, <1>11, <2>1, <2>2 DEF MatchInv, Preparing
<1> QED
  BY <1>3, <1>12 DEF PrepInv

(* The steps that prepare a job.                                           *)
LEMMA StepPrepare ==
    ASSUME PrepInv, Visit \/ EndVisit \/ BeginPacks \/ ResolvePack
    PROVE  PrepInv'
<1>1. /\ stage \in {"topo", "packs"} /\ stage' \in {"topo", "packs"}
      /\ UNCHANGED <<resolverVars, queued, batch>> /\ reached' = reached /\ jobs' = jobs
  BY DEF Visit, EndVisit, BeginPacks, ResolvePack
<1>2. /\ ResolverInv' /\ BatchInv' /\ Matches' = Matches
      /\ \A j, y : JobOf(j, y)' <=> JobOf(j, y)
  BY <1>1, Settled
<1>3. /\ DOMAIN job' = DOMAIN job /\ job'.req = job.req
      /\ job'.name = job.name /\ job'.version = job.version
  <2>1. CASE Visit
    BY <2>1 DEF Visit
  <2>2. CASE EndVisit \/ BeginPacks \/ ResolvePack
    BY <1>1, <2>2 DEF EndVisit, BeginPacks, ResolvePack, PrepInv, MatchInv, Preparing
  <2> QED
    BY <2>1, <2>2
<1>4. plan' = plan
  BY <1>1, ResolverFrame DEF PrepInv
<1>5. MatchInv'
  BY <1>1, <1>2, <1>3, <1>4 DEF PrepInv, MatchInv, JobOf, Ahead, Before, Preparing
<1> QED
  BY <1>2, <1>5 DEF PrepInv

LEMMA StepEndJob ==
    ASSUME PrepInv, EndJob
    PROVE  PrepInv'
<1>1. /\ stage = "packs" /\ stage' = "match" /\ UNCHANGED <<resolverVars, queued, batch>>
      /\ reached' = reached /\ jobs' = Append(jobs, job)
  BY DEF EndJob
<1>2. /\ ResolverInv' /\ BatchInv' /\ Matches' = Matches
      /\ \A j, y : JobOf(j, y)' <=> JobOf(j, y)
  BY <1>1, Settled
<1>3. plan' = plan
  BY <1>1, ResolverFrame DEF PrepInv
<1>4. PICK l \in Nat : l = Len(jobs) /\ DOMAIN jobs = 1..l
  BY LenProperties DEF PrepInv, MatchInv, Preparing
<1>5. /\ jobs' \in Seq(ToSet(jobs) \cup {job}) /\ Len(jobs') = l + 1
      /\ \A k \in 1..l : jobs'[k] = jobs[k]
      /\ jobs'[l + 1] = job
  <2>1. jobs \in Seq(ToSet(jobs) \cup {job})
    BY SeqMonotonic DEF PrepInv, MatchInv, Preparing
  <2> QED
    BY <1>1, <1>4, <2>1, AppendProperties
<1>6. DOMAIN jobs' = 1..(l + 1)
  BY <1>5, LenProperties
<1>7. jobs' \in Seq(ToSet(jobs'))
  <2>1. \A k \in 1..Len(jobs') : jobs'[k] \in ToSet(jobs')
    BY <1>5, <1>6 DEF ToSet
  <2> QED
    BY <1>5, <1>6, <2>1
<1>8. l + 1 \in 1..(l + 1) /\ \A k \in 1..(l + 1) : k \in 1..l \/ k = l + 1
  OBVIOUS
<1>9. 1..l \subseteq 1..(l + 1)
  OBVIOUS
<1>10. reached \in Matches /\ JobOf(job, reached)
  BY <1>1 DEF PrepInv, MatchInv, Preparing
<1>11. \A k \in 1..l : \E x \in Matches : JobOf(jobs[k], x) /\ Before(x, reached)
  BY <1>1, <1>4 DEF PrepInv, MatchInv, Preparing
<1>12. \A k \in 1..(l + 1) : \E x \in Matches :
          JobOf(jobs'[k], x) /\ (Before(x, reached) \/ x = reached)
  BY <1>5, <1>8, <1>10, <1>11
<1>13. \A x \in Matches : x \in Ahead \/ \E k \in 1..(l + 1) : JobOf(jobs'[k], x)
  BY <1>1, <1>4, <1>5, <1>8, <1>9, <1>10 DEF PrepInv, MatchInv, Preparing
<1>14. ASSUME NEW k \in 1..l
       PROVE  ~(jobs[k].req = job.req /\ jobs[k].name = job.name /\ jobs[k].version = job.version)
  <2>1. PICK x \in Matches : JobOf(jobs[k], x) /\ Before(x, reached)
    BY <1>11
  <2>2. Matches \subseteq Nat \X Nat /\ x[2] \in DOMAIN plan /\ reached[2] \in DOMAIN plan
    BY <1>10, MatchFacts DEF PrepInv, ResolverInv
  <2>3. x # reached
    BY <1>10, <2>1, <2>2, BeforeFacts
  <2>4. x[1] # reached[1] \/ x[2] # reached[2]
    BY <1>10, <2>2, <2>3
  <2>5. x[2] # reached[2] => PairAt(x[2]) # PairAt(reached[2])
    BY <2>2 DEF PrepInv, ResolverInv, FlatInv
  <2> QED
    BY <1>10, <2>1, <2>4, <2>5 DEF JobOf, PairAt
<1>15. \A i, k \in 1..(l + 1) : i # k =>
          ~(/\ jobs'[i].req = jobs'[k].req /\ jobs'[i].name = jobs'[k].name
            /\ jobs'[i].version = jobs'[k].version)
  <2>1. \A i, k \in 1..l : i # k =>
          ~(/\ jobs[i].req = jobs[k].req /\ jobs[i].name = jobs[k].name
            /\ jobs[i].version = jobs[k].version)
    BY <1>4 DEF PrepInv, MatchInv, Preparing
  <2> QED
    BY <1>5, <1>8, <1>14, <2>1
<1>16. MatchInv'
  <2>1. Ahead' = Ahead /\ \A x : Before(x, reached)' <=> Before(x, reached)
    BY <1>1, <1>2 DEF Ahead, Before
  <2>2. reached' \in Nat \X Nat
    BY <1>1 DEF PrepInv, MatchInv, Preparing
  <2>3. \A k \in DOMAIN jobs' : \E x \in Matches' :
          JobOf(jobs[k], x)' /\ (Before(x, reached)' \/ (x = reached' /\ ~Preparing'))
    BY <1>1, <1>2, <1>3, <1>6, <1>12, <2>1 DEF Preparing, JobOf
  <2>4. \A x \in Matches' : x \in Ahead' \/ \E k \in DOMAIN jobs' : JobOf(jobs[k], x)'
    BY <1>2, <1>3, <1>6, <1>13, <2>1 DEF JobOf
  <2> QED
    BY <1>1, <1>6, <1>7, <1>15, <2>2, <2>3, <2>4 DEF MatchInv, Preparing
<1> QED
  BY <1>2, <1>16 DEF PrepInv

LEMMA StepMatched ==
    ASSUME PrepInv, Matched
    PROVE  PrepInv'
<1>1. /\ stage = "match" /\ stage' = "done" /\ UNCHANGED <<resolverVars, queued, batch>>
      /\ reached' = reached /\ jobs' = jobs /\ Ahead = {}
  BY DEF Matched
<1>2. /\ ResolverInv' /\ BatchInv' /\ Matches' = Matches
      /\ \A j, y : JobOf(j, y)' <=> JobOf(j, y)
  BY <1>1, Settled
<1>3. plan' = plan
  BY <1>1, ResolverFrame DEF PrepInv
<1>4. MatchInv'
  BY <1>1, <1>2, <1>3 DEF PrepInv, MatchInv, Preparing, JobOf, Ahead, Before
<1> QED
  BY <1>2, <1>4 DEF PrepInv

-----------------------------------------------------------------------------
(* The invariant of the plan and the matches.                              *)

LEMMA PrepStart ==
    Init => PrepInv
<1> SUFFICES ASSUME Init PROVE PrepInv
  OBVIOUS
<1>1. ResolverInv
  BY ResolverStart DEF Init
<1>2. /\ stage = "plan" /\ queued = {} /\ batch = <<>> /\ reached = <<0, 0>> /\ jobs = <<>>
      /\ DOMAIN batch = {} /\ DOMAIN jobs = {} /\ jobs \in Seq(ToSet(jobs))
  BY DEF Init
<1>3. Matches = {}
  BY <1>2 DEF Matches
<1>4. BatchInv
  BY <1>2 DEF BatchInv
<1>5. MatchInv
  BY <1>2, <1>3 DEF MatchInv, Ahead, Preparing
<1> QED
  BY <1>1, <1>4, <1>5 DEF PrepInv

LEMMA PrepStep ==
    PrepInv /\ [Next]_vars => PrepInv'
<1> SUFFICES ASSUME PrepInv, [Next]_vars PROVE PrepInv'
  OBVIOUS
<1>1. CASE UNCHANGED vars
  <2>1. UNCHANGED resolverVars /\ UNCHANGED prepVars
    BY <1>1 DEF vars
  <2>2. ResolverInv' /\ plan' = plan /\ pc' = pc
    BY <2>1, ResolverFrame DEF PrepInv
  <2> QED
    BY <2>1, <2>2 DEF prepVars, PrepInv, PairAt, BatchInv, MatchInv, Matches, Ahead, Before, JobOf, Preparing
<1>2. CASE ResolverNext /\ UNCHANGED prepVars
  BY <1>2, StepResolver
<1>3. CASE QueueBuilds
  BY <1>3, StepQueueBuilds
<1>4. CASE Drain
  BY <1>4, StepDrain
<1>5. CASE BeginJob
  BY <1>5, StepBeginJob
<1>6. CASE Visit \/ EndVisit \/ BeginPacks \/ ResolvePack
  BY <1>6, StepPrepare
<1>7. CASE EndJob
  BY <1>7, StepEndJob
<1>8. CASE Matched
  BY <1>8, StepMatched
<1> QED
  BY <1>1, <1>2, <1>3, <1>4, <1>5, <1>6, <1>7, <1>8 DEF Next

LEMMA PrepInvariant ==
    Spec => []PrepInv
BY PrepStart, PrepStep, PTL DEF Spec

-----------------------------------------------------------------------------
(* The DAG: its order, and what it and the flat plan say.                  *)

(* The packs by what they need: a pack needs only packs of a lower rank.    *)
PackRank(p) == IF p = "cpython" THEN 18 ELSE Priority(PackId(p))
DependsOn(p) == IF p \in DOMAIN PackTable THEN ToSet(PackTable[p]) ELSE {}

(* A node is what its type says; a pack's inputs are packs it depends on.   *)
GoodNode(n) ==
    /\ n.inputs \in Seq(ToSet(n.inputs))
    /\ \/ n.type = "runtime" /\ n.id = RuntimeId /\ n.inputs = <<>>
       \/ /\ n.type = "pack" /\ n.id = PackId(n.name)
          /\ ToSet(n.inputs) \subseteq {PackId(d) : d \in DependsOn(n.name)}
       \/ n.type = "wheel" /\ n.id[1] = "wheel"
       \/ n.type = "repair" /\ n.id[1] = "repair"

(* A DAG is in order.                                                      *)
Ordered(q) ==
    \A i \in DOMAIN q :
        /\ GoodNode(q[i])
        /\ q[i].type = "runtime" => i = 1
        /\ \A id \in ToSet(q[i].inputs) : \E j \in 1..(i - 1) : q[j].id = id
        /\ q[i].type \in {"pack", "runtime"} => \A j \in 1..(i - 1) : q[j].id # q[i].id

(* A DAG and a flat plan say the same.                                     *)
Places(q, t) == {i \in DOMAIN q : q[i].type = t}
SameForms(q, p) ==
    LET w == AtPlaces(q, Places(q, "wheel"))  r == AtPlaces(q, Places(q, "repair")) IN
    /\ Len(w) = Len(p) /\ Len(r) = Len(p)
    /\ \A i \in DOMAIN p : /\ w[i].name = p[i].name /\ w[i].version = p[i].version
                           /\ r[i].inputs = <<w[i].id>>

(* The calls of addPack under way are for packs that are not in the DAG yet,
   and go down in rank.                                                    *)
NodesInv ==
    /\ dag \in Seq(ToSet(dag))
    /\ 1 \in DOMAIN dag /\ dag[1].id = RuntimeId
    /\ Ordered(dag) /\ SameForms(dag, plan)
    /\ calls \in Seq(ToSet(calls))
    /\ \A i \in DOMAIN calls, j \in DOMAIN dag : dag[j].id # PackId(calls[i])
    /\ \A i, j \in DOMAIN calls : i < j => PackRank(calls[j]) < PackRank(calls[i])
    /\ adding # NoPackage => adding.packs \in Seq(ToSet(adding.packs))

-----------------------------------------------------------------------------
LEMMA AppendFacts ==
    ASSUME NEW q, q \in Seq(ToSet(q)), NEW e
    PROVE  /\ Append(q, e) \in Seq(ToSet(Append(q, e)))
           /\ Len(q) \in Nat /\ DOMAIN q = 1..Len(q)
           /\ Len(Append(q, e)) = Len(q) + 1 /\ DOMAIN Append(q, e) = 1..(Len(q) + 1)
           /\ \A i \in 1..Len(q) : Append(q, e)[i] = q[i]
           /\ Append(q, e)[Len(q) + 1] = e
           /\ ToSet(Append(q, e)) = ToSet(q) \cup {e}
           /\ \A i \in 1..(Len(q) + 1) : i \in 1..Len(q) \/ i = Len(q) + 1
<1>1. Len(q) \in Nat /\ DOMAIN q = 1..Len(q)
  BY LenProperties
<1>2. q \in Seq(ToSet(q) \cup {e})
  BY SeqMonotonic
<1>3. PICK r : r = Append(q, e)
  OBVIOUS
<1>4. /\ r \in Seq(ToSet(q) \cup {e}) /\ Len(r) = Len(q) + 1
      /\ \A i \in 1..Len(q) : r[i] = q[i]
      /\ r[Len(q) + 1] = e
  BY <1>2, <1>3, AppendProperties
<1>5. DOMAIN r = 1..(Len(q) + 1)
  BY <1>4, LenProperties
<1>6. /\ \A i \in 1..(Len(q) + 1) : i \in 1..Len(q) \/ i = Len(q) + 1
      /\ 1..Len(q) \subseteq 1..(Len(q) + 1) /\ Len(q) + 1 \in 1..(Len(q) + 1)
  BY <1>1
<1>7. ToSet(r) = ToSet(q) \cup {e}
  BY <1>1, <1>4, <1>5, <1>6 DEF ToSet
<1> QED
  BY <1>1, <1>3, <1>4, <1>5, <1>6, <1>7

LEMMA IsOwnList ==
    ASSUME NEW X, NEW q \in Seq(X)
    PROVE  q \in Seq(ToSet(q)) /\ ToSet(q) \subseteq X
<1>1. Len(q) \in Nat /\ DOMAIN q = 1..Len(q) /\ \A i \in 1..Len(q) : q[i] \in X
  BY LenProperties, ElementOfSeq
<1>2. \A i \in 1..Len(q) : q[i] \in ToSet(q)
  BY <1>1 DEF ToSet
<1>3. q \in Seq(ToSet(q))
  BY <1>1, <1>2
<1>4. ToSet(q) \subseteq X
  BY <1>1 DEF ToSet
<1> QED
  BY <1>3, <1>4

LEMMA FrontFacts ==
    ASSUME NEW q, q \in Seq(ToSet(q)), q # <<>>
    PROVE  /\ Front(q) \in Seq(ToSet(Front(q)))
           /\ Len(q) \in Nat \ {0} /\ DOMAIN q = 1..Len(q) /\ Len(q) - 1 \in Nat
           /\ DOMAIN Front(q) = 1..(Len(q) - 1)
           /\ \A i \in 1..(Len(q) - 1) : Front(q)[i] = q[i] /\ i \in DOMAIN q /\ i < Len(q)
           /\ Last(q) = q[Len(q)] /\ Len(q) \in DOMAIN q
           /\ ToSet(q) = ToSet(Front(q)) \cup {Last(q)}
<1>1. Len(q) \in Nat \ {0} /\ DOMAIN q = 1..Len(q) /\ Len(q) - 1 \in Nat
  BY LenProperties, EmptySeq
<1>2. PICK n \in Nat : n = Len(q) - 1
  BY <1>1
<1>3. /\ n + 1 = Len(q) /\ 1..n \subseteq 1..(n + 1) /\ n + 1 \in 1..(n + 1)
      /\ \A i \in 1..(n + 1) : i \in 1..n \/ i = n + 1
      /\ \A i \in 1..n : i < n + 1
  <2>1. n + 1 = Len(q)
    BY <1>1, <1>2
  <2>2. /\ 1..n \subseteq 1..(n + 1) /\ n + 1 \in 1..(n + 1)
        /\ \A i \in 1..(n + 1) : i \in 1..n \/ i = n + 1
        /\ \A i \in 1..n : i < n + 1
    OBVIOUS
  <2> QED
    BY <2>1, <2>2
<1>4. PICK f : f = Front(q)
  OBVIOUS
<1>5. f = [i \in 1..n |-> q[i]]
  <2>1. f = SubSeq(q, 1, n)
    BY <1>2, <1>4 DEF Front
  <2>2. SubSeq(q, 1, n) = [i \in 1..(1 + n - 1) |-> q[1 + i - 1]]
    BY <1>1, <1>2, SubSeqProperties
  <2>3. 1 + n - 1 = n /\ \A i \in 1..n : 1 + i - 1 = i
    OBVIOUS
  <2> QED
    BY <2>1, <2>2, <2>3
<1>6. f \in Seq(ToSet(f)) /\ DOMAIN f = 1..n
  BY <1>5 DEF ToSet
<1>7. ToSet(q) = ToSet(f) \cup {q[n + 1]}
  BY <1>1, <1>3, <1>5 DEF ToSet
<1>8. Last(q) = q[Len(q)]
  BY DEF Last
<1>9. 1..(Len(q) - 1) = 1..n
  BY <1>2
<1> QED
  BY <1>1, <1>2, <1>3, <1>4, <1>5, <1>6, <1>7, <1>8, <1>9

LEMMA IdKinds ==
    /\ RuntimeId[1] = "runtime"
    /\ \A p : PackId(p)[1] = "pack" /\ PackId(p)[2] = p
    /\ \A s, q : WheelId(s, q)[1] = "wheel"
    /\ \A w : RepairId(w)[1] = "repair"
BY DEF RuntimeId, PackId, WheelId, RepairId

(* A pack depends on packs of a lower rank.                                *)
LEMMA DepsRankLower ==
    \A p : PackRank(p) \in Nat /\ \A d \in DependsOn(p) : PackRank(d) < PackRank(p)
<1>1. ASSUME NEW p PROVE PackRank(p) \in Nat
  BY DEF PackRank, Priority, PriorityTable, PackId
<1>2. /\ PackRank("zlib") = 2 /\ PackRank("openssl") = 6 /\ PackRank("libpng") = 11
      /\ PackRank("freetype") = 13 /\ PackRank("jpeg") = 12 /\ PackRank("libxslt") = 10
      /\ PackRank("libxml2") = 9 /\ PackRank("cpython") = 18 /\ PackRank("libffi") = 7
      /\ PackRank("xz") = 3 /\ PackRank("bzip2") = 4 /\ PackRank("sqlite") = 8
  BY DEF PackRank, Priority, PriorityTable, PackId
<1>3. ASSUME NEW p, NEW d \in DependsOn(p) PROVE PackRank(d) < PackRank(p)
  <2>1. p \in {"openssl", "libpng", "freetype", "libxslt", "libxml2", "cpython"}
    BY <1>3 DEF DependsOn, PackTable
  <2>2. /\ p \in {"openssl", "libpng", "libxml2"} => d = "zlib"
        /\ p = "freetype" => d \in {"libpng", "jpeg"}
        /\ p = "libxslt" => d = "libxml2"
        /\ p = "cpython" => d \in {"openssl", "libffi", "zlib", "xz", "bzip2", "sqlite"}
    BY <1>3 DEF DependsOn, PackTable, ToSet
  <2> QED
    BY <1>2, <2>1, <2>2
<1> QED
  BY <1>1, <1>3

LEMMA TableIsList ==
    ASSUME NEW p
    PROVE  \E k \in Nat : DOMAIN (IF p \in DOMAIN PackTable THEN PackTable[p] ELSE <<>>) = 1..k
<1> DEFINE q == IF p \in DOMAIN PackTable THEN PackTable[p] ELSE <<>>
<1>1. CASE p \notin DOMAIN PackTable
  <2>1. DOMAIN q = 1..0
    BY <1>1
  <2> QED
    BY <2>1
<1>2. CASE p \in DOMAIN PackTable
  <2>1. p \in {"openssl", "libpng", "freetype", "libxslt", "libxml2", "cpython"}
    BY <1>2 DEF PackTable
  <2>2. DOMAIN q = 1..1 \/ DOMAIN q = 1..2 \/ DOMAIN q = 1..6
    BY <1>2, <2>1 DEF PackTable
  <2> QED
    BY <2>2
<1> QED
  BY <1>1, <1>2

LEMMA PackDependenciesFacts ==
    ASSUME NEW p
    PROVE  /\ packDependencies(p) \in Seq(ToSet(packDependencies(p)))
           /\ ToSet(packDependencies(p)) \subseteq DependsOn(p)
<1> DEFINE q == IF p \in DOMAIN PackTable THEN PackTable[p] ELSE <<>>
           S == {i \in DOMAIN q : q[i] \in opts.catalog}
<1>1. \E k \in Nat : DOMAIN q = 1..k
  BY TableIsList
<1>2. PICK k \in Nat : S \in SUBSET (1..k)
  BY <1>1
<1>3. {q[i] : i \in S} \subseteq DependsOn(p)
  BY DEF DependsOn, ToSet
<1>4. packDependencies(p) = AtPlaces(q, S)
  BY DEF packDependencies
<1> HIDE DEF q, S
<1>5. /\ AtPlaces(q, S) \in Seq({q[i] : i \in S}) /\ DOMAIN AtPlaces(q, S) = 1..Cardinality(S)
      /\ {AtPlaces(q, S)[n] : n \in 1..Cardinality(S)} = {q[i] : i \in S}
  BY <1>2, AtPlacesIsList
<1> QED
  BY <1>3, <1>4, <1>5 DEF ToSet

LEMMA SelectPacksIsList ==
    ASSUME NEW n
    PROVE  /\ selectPacks(n) \in Seq(ToSet(selectPacks(n)))
           /\ ToSet(selectPacks(n)) \subseteq ToSet(Pack) \cap opts.catalog
<1> DEFINE S == {i \in DOMAIN Pack : Pack[i] \in Select(n)}
<1>1. PICK k \in Nat : DOMAIN Pack = 1..k
  BY ResolverAssumption, LenProperties
<1>2. S \in SUBSET (1..k) /\ selectPacks(n) = AtPlaces(Pack, S)
  BY <1>1 DEF selectPacks
<1>3. {Pack[i] : i \in S} \subseteq ToSet(Pack) \cap opts.catalog
  BY DEF ToSet, Select
<1> HIDE DEF S
<1>4. /\ AtPlaces(Pack, S) \in Seq({Pack[i] : i \in S}) /\ DOMAIN AtPlaces(Pack, S) = 1..Cardinality(S)
      /\ {AtPlaces(Pack, S)[m] : m \in 1..Cardinality(S)} = {Pack[i] : i \in S}
  BY <1>2, AtPlacesIsList
<1> QED
  BY <1>2, <1>3, <1>4 DEF ToSet

LEMMA PackIdsFacts ==
    ASSUME NEW q, q \in Seq(ToSet(q))
    PROVE  /\ packIds(q) \in Seq(ToSet(packIds(q))) /\ DOMAIN packIds(q) = DOMAIN q
           /\ ToSet(packIds(q)) = {PackId(d) : d \in ToSet(q)}
<1>1. Len(q) \in Nat /\ DOMAIN q = 1..Len(q)
  BY LenProperties
<1>2. packIds(q) = [i \in 1..Len(q) |-> PackId(q[i])]
  BY <1>1 DEF packIds
<1>3. PICK r : r = packIds(q)
  OBVIOUS
<1>4. DOMAIN r = 1..Len(q) /\ \A i \in 1..Len(q) : r[i] = PackId(q[i])
  BY <1>2, <1>3
<1>5. ToSet(r) = {PackId(d) : d \in ToSet(q)}
  BY <1>1, <1>4 DEF ToSet
<1>6. r = [i \in 1..Len(q) |-> r[i]] /\ \A i \in 1..Len(q) : r[i] \in ToSet(r)
  BY <1>2, <1>3, <1>4 DEF ToSet
<1>7. r \in Seq(ToSet(r))
  BY <1>1, <1>6
<1> QED
  BY <1>1, <1>3, <1>4, <1>5, <1>7

(* A node whose inputs are there is added.                                 *)
LEMMA OrderedGrows ==
    ASSUME NEW q, q \in Seq(ToSet(q)), Ordered(q), NEW n, GoodNode(n), n.type # "runtime",
           \A id \in ToSet(n.inputs) : \E j \in DOMAIN q : q[j].id = id,
           n.type = "pack" => \A j \in DOMAIN q : q[j].id # n.id
    PROVE  Ordered(Append(q, n))
<1>1. PICK r, k : r = Append(q, n) /\ k = Len(q)
  OBVIOUS
<1>2. /\ k \in Nat /\ DOMAIN q = 1..k /\ DOMAIN r = 1..(k + 1)
      /\ \A i \in 1..k : r[i] = q[i]
      /\ r[k + 1] = n
      /\ \A i \in 1..(k + 1) : i \in 1..k \/ i = k + 1
  BY <1>1, AppendFacts
<1>3. ASSUME NEW i \in 1..k
      PROVE  /\ GoodNode(r[i]) /\ (r[i].type = "runtime" => i = 1)
             /\ \A id \in ToSet(r[i].inputs) : \E j \in 1..(i - 1) : r[j].id = id
             /\ r[i].type \in {"pack", "runtime"} => \A j \in 1..(i - 1) : r[j].id # r[i].id
  <2>1. \A j \in 1..(i - 1) : r[j] = q[j]
    BY <1>2
  <2>2. r[i] = q[i] /\ i \in DOMAIN q
    BY <1>2
  <2>3. /\ GoodNode(q[i]) /\ (q[i].type = "runtime" => i = 1)
        /\ \A id \in ToSet(q[i].inputs) : \E j \in 1..(i - 1) : q[j].id = id
        /\ q[i].type \in {"pack", "runtime"} => \A j \in 1..(i - 1) : q[j].id # q[i].id
    BY <2>2 DEF Ordered
  <2>4. \A id \in ToSet(q[i].inputs) : \E j \in 1..(i - 1) : r[j].id = id
    BY <2>1, <2>3
  <2> QED
    BY <2>1, <2>2, <2>3, <2>4
<1>4. (k + 1) - 1 = k
  BY <1>2
<1>5. /\ \A id \in ToSet(n.inputs) : \E j \in 1..k : r[j].id = id
      /\ n.type \in {"pack", "runtime"} => \A j \in 1..k : r[j].id # n.id
  BY <1>2
<1>6. Ordered(r)
  <2> SUFFICES ASSUME NEW i \in 1..(k + 1)
               PROVE  /\ GoodNode(r[i]) /\ (r[i].type = "runtime" => i = 1)
                      /\ \A id \in ToSet(r[i].inputs) : \E j \in 1..(i - 1) : r[j].id = id
                      /\ r[i].type \in {"pack", "runtime"} => \A j \in 1..(i - 1) : r[j].id # r[i].id
    BY <1>2 DEF Ordered
  <2>1. CASE i \in 1..k
    BY <1>3, <2>1
  <2>2. CASE i = k + 1
    BY <1>2, <1>4, <1>5, <2>2
  <2> QED
    BY <1>2, <2>1, <2>2
<1> QED
  BY <1>1, <1>6

(* A pack is not in the flat plan.                                         *)
LEMMA FormsWithPack ==
    ASSUME NEW q, q \in Seq(ToSet(q)), NEW p, SameForms(q, p), NEW n, n.type = "pack"
    PROVE  SameForms(Append(q, n), p)
<1>1. PICK r, k : r = Append(q, n) /\ k = Len(q)
  OBVIOUS
<1>2. /\ k \in Nat /\ DOMAIN q = 1..k /\ DOMAIN r = 1..(k + 1)
      /\ \A i \in 1..k : r[i] = q[i]
      /\ r[k + 1] = n
      /\ \A i \in 1..(k + 1) : i \in 1..k \/ i = k + 1
  BY <1>1, AppendFacts
<1>3. ASSUME NEW t \in {"wheel", "repair"}
      PROVE  AtPlaces(r, Places(r, t)) = AtPlaces(q, Places(q, t))
  <2>1. PICK S : S = Places(q, t)
    OBVIOUS
  <2>2. Places(r, t) = S /\ S \in SUBSET (1..k)
    BY <1>2, <2>1 DEF Places
  <2>3. k \in Nat /\ \A i \in 1..k : r[i] = q[i]
    BY <1>2
  <2>4. AtPlaces(r, S) = AtPlaces(q, S)
    BY ONLY <2>2, <2>3, AtPlacesStays
  <2> QED
    BY <2>1, <2>2, <2>4
<1> QED
  BY <1>1, <1>3 DEF SameForms

(* A flat node comes with its wheel and the repair of it.                  *)
LEMMA FormsWithWheel ==
    ASSUME NEW q, q \in Seq(ToSet(q)), NEW p, p \in Seq(ToSet(p)), SameForms(q, p),
           NEW w, NEW r, NEW e, w.type = "wheel", r.type = "repair",
           w.name = e.name, w.version = e.version, r.inputs = <<w.id>>
    PROVE  SameForms(Append(Append(q, w), r), Append(p, e))
<1>1. PICK q1, q2, k : q1 = Append(q, w) /\ q2 = Append(q1, r) /\ k = Len(q)
  OBVIOUS
<1>2. /\ k \in Nat /\ DOMAIN q = 1..k /\ DOMAIN q1 = 1..(k + 1) /\ Len(q1) = k + 1
      /\ \A i \in 1..k : q1[i] = q[i]
      /\ q1[k + 1] = w
      /\ \A i \in 1..(k + 1) : i \in 1..k \/ i = k + 1
      /\ q1 \in Seq(ToSet(q1))
  BY <1>1, AppendFacts
<1>3. /\ DOMAIN q2 = 1..((k + 1) + 1)
      /\ \A i \in 1..(k + 1) : q2[i] = q1[i]
      /\ q2[(k + 1) + 1] = r
      /\ \A i \in 1..((k + 1) + 1) : i \in 1..(k + 1) \/ i = (k + 1) + 1
  BY <1>1, <1>2, AppendFacts
<1>4. PICK p1, l : p1 = Append(p, e) /\ l = Len(p)
  OBVIOUS
<1>5. /\ l \in Nat /\ DOMAIN p = 1..l /\ DOMAIN p1 = 1..(l + 1) /\ Len(p1) = l + 1
      /\ \A i \in 1..l : p1[i] = p[i]
      /\ p1[l + 1] = e
      /\ \A i \in 1..(l + 1) : i \in 1..l \/ i = l + 1
  BY <1>4, AppendFacts
<1>6. PICK W, R : W = Places(q, "wheel") /\ R = Places(q, "repair")
  OBVIOUS
<1>7. W \in SUBSET (1..k) /\ R \in SUBSET (1..k) /\ R \in SUBSET (1..(k + 1)) /\ k + 1 \in Nat
  <2>1. 1..k \subseteq 1..(k + 1) /\ k + 1 \in Nat
    BY <1>2
  <2> QED
    BY <1>2, <1>6, <2>1 DEF Places
<1>8. /\ k + 1 \in 1..((k + 1) + 1) /\ (k + 1) + 1 \in 1..((k + 1) + 1) /\ k + 1 # (k + 1) + 1
      /\ k + 1 \in 1..(k + 1) /\ 1..k \subseteq 1..(k + 1) /\ 1..k \subseteq 1..((k + 1) + 1)
  BY <1>2
<1>9. \A i \in 1..((k + 1) + 1) : i \in 1..k \/ i = k + 1 \/ i = (k + 1) + 1
  BY <1>2, <1>3
<1>10. q2[k + 1] = w /\ \A i \in 1..k : q2[i] = q[i]
  BY <1>2, <1>3, <1>8
<1>11. Places(q2, "wheel") = W \cup {k + 1}
  BY <1>2, <1>3, <1>6, <1>8, <1>9, <1>10 DEF Places
<1>12. Places(q2, "repair") = R \cup {(k + 1) + 1}
  BY <1>2, <1>3, <1>6, <1>8, <1>9, <1>10 DEF Places
<1>13. PICK aw, ar, bw, br :
         /\ aw = AtPlaces(q, W) /\ ar = AtPlaces(q, R)
         /\ bw = AtPlaces(q2, W \cup {k + 1}) /\ br = AtPlaces(q2, R \cup {(k + 1) + 1})
  OBVIOUS
<1>14. Len(aw) = l /\ Len(ar) = l
  BY <1>4, <1>6, <1>13 DEF SameForms
<1>15. Cardinality(W) = l /\ Cardinality(R) = l
  BY <1>2, <1>7, <1>13, <1>14, AtPlacesIsList
<1>16. /\ DOMAIN bw = 1..(l + 1) /\ \A i \in 1..l : bw[i] = aw[i]
       /\ bw[l + 1] = w
  <2>1. PICK T : T = W \cup {k + 1}
    OBVIOUS
  <2>3. k \in Nat /\ W \in SUBSET (1..k) /\ \A i \in 1..k : q2[i] = q[i]
    BY <1>2, <1>7, <1>10
  <2>4. /\ DOMAIN AtPlaces(q2, T) = 1..(Cardinality(W) + 1)
        /\ \A n \in 1..Cardinality(W) : AtPlaces(q2, T)[n] = AtPlaces(q2, W)[n]
        /\ AtPlaces(q2, T)[Cardinality(W) + 1] = q2[k + 1]
    BY ONLY <2>1, <2>3, AtPlacesGrows
  <2>5. AtPlaces(q2, W) = AtPlaces(q, W)
    BY ONLY <2>3, AtPlacesStays
  <2>2. bw = AtPlaces(q2, T)
    BY <1>13, <2>1
  <2> QED
    BY <1>10, <1>13, <1>15, <2>2, <2>4, <2>5
<1>17. /\ DOMAIN br = 1..(l + 1) /\ \A i \in 1..l : br[i] = ar[i]
       /\ br[l + 1] = r
  <2>1. AtPlaces(q2, R) = ar
    <3>1. k \in Nat /\ R \in SUBSET (1..k) /\ \A i \in 1..k : q2[i] = q[i]
      BY <1>2, <1>7, <1>10
    <3>2. AtPlaces(q2, R) = AtPlaces(q, R)
      BY ONLY <3>1, AtPlacesStays
    <3> QED
      BY <1>13, <3>2
  <2>2. PICK k1 \in Nat : k1 = k + 1
    BY <1>7
  <2>3. PICK T : T = R \cup {k1 + 1}
    OBVIOUS
  <2>4. k1 \in Nat /\ R \in SUBSET (1..k1)
    BY <1>7, <2>2
  <2>5. /\ DOMAIN AtPlaces(q2, T) = 1..(Cardinality(R) + 1)
        /\ \A n \in 1..Cardinality(R) : AtPlaces(q2, T)[n] = AtPlaces(q2, R)[n]
        /\ AtPlaces(q2, T)[Cardinality(R) + 1] = q2[k1 + 1]
    BY ONLY <2>3, <2>4, AtPlacesGrows
  <2>6. br = AtPlaces(q2, T)
    BY <1>13, <2>2, <2>3
  <2> QED
    BY <1>3, <1>13, <1>15, <2>1, <2>2, <2>5, <2>6
<1>18. Len(bw) = l + 1 /\ Len(br) = l + 1
  <2>1. W \cup {k + 1} \in SUBSET (1..((k + 1) + 1)) /\ R \cup {(k + 1) + 1} \in SUBSET (1..((k + 1) + 1))
    BY <1>7, <1>8
  <2>2. (k + 1) + 1 \in Nat
    BY <1>2
  <2>3. Len(bw) = Cardinality(W \cup {k + 1}) /\ Len(br) = Cardinality(R \cup {(k + 1) + 1})
    BY <1>13, <2>1, <2>2, AtPlacesIsList
  <2>4. /\ Cardinality(W \cup {k + 1}) = Cardinality(W) + 1
        /\ Cardinality(R \cup {(k + 1) + 1}) = Cardinality(R) + 1
    BY <1>2, <1>7, NthNext
  <2> QED
    BY <1>15, <2>3, <2>4
<1>19. \A i \in 1..l : aw[i].name = p[i].name /\ aw[i].version = p[i].version /\ ar[i].inputs = <<aw[i].id>>
  BY <1>5, <1>6, <1>13 DEF SameForms
<1>20. \A i \in 1..(l + 1) : bw[i].name = p1[i].name /\ bw[i].version = p1[i].version /\ br[i].inputs = <<bw[i].id>>
  BY <1>5, <1>16, <1>17, <1>19
<1>21. SameForms(q2, p1)
  BY <1>5, <1>11, <1>12, <1>13, <1>18, <1>20 DEF SameForms
<1> QED
  BY <1>1, <1>4, <1>21

-----------------------------------------------------------------------------
(* The nodes.                                                              *)

LEMMA NodesStart ==
    ResolverInit => NodesInv
<1> SUFFICES ASSUME ResolverInit PROVE NodesInv
  OBVIOUS
<1>1. PICK n : n = Node("runtime", RuntimeId, <<>>, NoName, NoVersion, Action("runtime"))
  OBVIOUS
<1>2. dag = <<n>> /\ calls = <<>> /\ adding = NoPackage /\ plan = <<>>
  BY <1>1 DEF ResolverInit
<1>3. n.type = "runtime" /\ n.id = RuntimeId /\ n.inputs = <<>> /\ GoodNode(n)
  BY <1>1 DEF Node, GoodNode, ToSet
<1>4. /\ DOMAIN dag = {1} /\ dag[1] = n /\ dag \in Seq(ToSet(dag)) /\ ToSet(n.inputs) = {}
      /\ DOMAIN calls = {} /\ calls \in Seq(ToSet(calls)) /\ DOMAIN plan = {} /\ Len(plan) = 0
  BY <1>2, <1>3 DEF ToSet
<1>5. \A j \in 1..(1 - 1) : FALSE
  OBVIOUS
<1>6. Ordered(dag)
  BY <1>3, <1>4, <1>5 DEF Ordered
<1>7. \A t \in {"wheel", "repair"} : Len(AtPlaces(dag, Places(dag, t))) = 0
  <2> SUFFICES ASSUME NEW t \in {"wheel", "repair"} PROVE Len(AtPlaces(dag, Places(dag, t))) = 0
    OBVIOUS
  <2>1. Places(dag, t) = {}
    BY <1>3, <1>4 DEF Places
  <2>2. 0 \in Nat /\ {} \in SUBSET (1..0) /\ Cardinality({}) = 0
    BY FS_EmptySet
  <2> QED
    BY <2>1, <2>2, AtPlacesIsList
<1>8. SameForms(dag, plan)
  BY <1>4, <1>7 DEF SameForms
<1> QED
  BY <1>2, <1>3, <1>4, <1>6, <1>8 DEF NodesInv

(* A step of the loops adds no node, but may turn to a package.            *)
LEMMA LoopStepNodes ==
    ASSUME ResolverNext
    PROVE  \/ CallAddPack \/ addPack \/ AddWheel
           \/ /\ dag' = dag /\ calls' = calls /\ plan' = plan /\ opts' = opts
              /\ adding' = adding \/ \E n : adding'.packs = selectPacks(n)
<1>1. CASE RequirementsDone \/ SkipWheel \/ RequireDep \/ WheelsDone \/ Finish
  BY <1>1 DEF RequirementsDone, SkipWheel, RequireDep, WheelsDone, Finish, nodeVars
<1>2. ASSUME NEW n, NEW v, AddBuild(n, v)
      PROVE  adding' = adding \/ \E m : adding'.packs = selectPacks(m)
  BY <1>2 DEF AddBuild, AddNode
<1>3. ASSUME NEW n, NEW v, NEW s, NEW a, NEW b, AddNode(n, v, s, a, b)
      PROVE  \E m : adding'.packs = selectPacks(m)
  BY <1>3 DEF AddNode
<1>4. CASE PlanRequirement
  BY <1>2, <1>4 DEF PlanRequirement
<1>5. CASE PlanWheel
  BY <1>2, <1>3, <1>5 DEF PlanWheel
<1>6. CASE \E n \in todo : PlanDep(n)
  BY <1>2, <1>6 DEF PlanDep
<1> QED
  BY <1>1, <1>4, <1>5, <1>6 DEF ResolverNext

LEMMA NodesLoop ==
    ASSUME NodesInv, dag' = dag, calls' = calls, plan' = plan,
           adding' \in {adding, NoPackage} \/ \E n : adding'.packs = selectPacks(n)
    PROVE  NodesInv'
<1>1. adding' # NoPackage => adding'.packs \in Seq(ToSet(adding'.packs))
  BY SelectPacksIsList DEF NodesInv
<1> QED
  BY <1>1 DEF NodesInv

(* What is missing among what is wanted.                                   *)
LEMMA WantedFacts ==
    ASSUME NodesInv, adding # NoPackage
    PROVE  /\ Wanted \in Seq(ToSet(Wanted))
           /\ \A i \in DOMAIN Wanted : i \in Missing \/ \E j \in DOMAIN dag : dag[j].id = PackId(Wanted[i])
           /\ \A i \in Missing : i \in DOMAIN Wanted /\ \A j \in DOMAIN dag : dag[j].id # PackId(Wanted[i])
<1>1. Wanted \in Seq(ToSet(Wanted))
  BY PackDependenciesFacts DEF NodesInv, Wanted
<1> QED
  BY <1>1 DEF Missing, InDag

LEMMA NodesCall ==
    ASSUME FlatInv, NodesInv, CallAddPack
    PROVE  NodesInv'
<1>1. PICK i \in Missing : calls' = Append(calls, Wanted[i])
  BY DEF CallAddPack
<1>2. adding # NoPackage /\ dag' = dag /\ plan' = plan /\ adding' = adding
  BY DEF CallAddPack
<1>3. PICK p, l : p = Wanted[i] /\ l = Len(calls)
  OBVIOUS
<1>4. \A j \in DOMAIN dag : dag[j].id # PackId(p)
  BY <1>2, <1>3, WantedFacts
<1>5. /\ calls' \in Seq(ToSet(calls')) /\ l \in Nat /\ DOMAIN calls = 1..l
      /\ DOMAIN calls' = 1..(l + 1)
      /\ \A k \in 1..l : calls'[k] = calls[k]
      /\ calls'[l + 1] = p
      /\ \A k \in 1..(l + 1) : k \in 1..l \/ k = l + 1
  BY <1>1, <1>3, AppendFacts DEF NodesInv
<1>6. \A k \in 1..l : PackRank(p) < PackRank(calls[k])
  <2>1. CASE l = 0
    BY <2>1
  <2>2. CASE l # 0
    <3>1. l \in 1..l /\ \A k \in 1..l : k = l \/ k < l
      BY <1>5, <2>2
    <3>2. calls # <<>> /\ Last(calls) = calls[l]
      BY <1>3, <2>2 DEF Last
    <3>3. p \in DependsOn(calls[l])
      <4>1. Wanted = packDependencies(calls[l])
        BY <3>2 DEF Wanted
      <4>2. i \in DOMAIN Wanted
        BY <1>2, WantedFacts
      <4> QED
        BY <1>3, <4>1, <4>2, PackDependenciesFacts DEF ToSet
    <3>4. PackRank(p) < PackRank(calls[l])
      BY <3>3, DepsRankLower
    <3>5. \A k \in 1..l : k = l \/ PackRank(calls[l]) < PackRank(calls[k])
      BY <1>5, <3>1 DEF NodesInv
    <3>6. \A a, b, c \in Nat : a < b /\ b < c => a < c
      OBVIOUS
    <3> QED
      BY <3>4, <3>5, <3>6, DepsRankLower
  <2> QED
    BY <2>1, <2>2
<1>7. /\ \A k \in 1..l : k < l + 1 /\ ~(l + 1 < k)
      /\ ~(l + 1 < l + 1)
  BY <1>5
<1>8. \A j, k \in 1..(l + 1) : j < k => PackRank(calls'[k]) < PackRank(calls'[j])
  BY <1>5, <1>6, <1>7 DEF NodesInv
<1>9. \A k \in 1..(l + 1), j \in DOMAIN dag : dag[j].id # PackId(calls'[k])
  BY <1>4, <1>5 DEF NodesInv
<1> QED
  BY <1>2, <1>5, <1>8, <1>9 DEF NodesInv

LEMMA NodesPack ==
    ASSUME FlatInv, NodesInv, addPack
    PROVE  NodesInv'
<1>1. PICK p, n : /\ p = Last(calls)
                  /\ n = Node("pack", PackId(p), packIds(packDependencies(p)), p, NoVersion, Action(p))
  OBVIOUS
<1>2. /\ calls # <<>> /\ Missing = {} /\ dag' = Append(dag, n) /\ calls' = Front(calls)
      /\ plan' = plan /\ adding' = adding
  BY <1>1 DEF addPack
<1>3. adding # NoPackage
  BY <1>2 DEF FlatInv
<1>4. PICK l : l = Len(calls)
  OBVIOUS
<1>5. /\ calls' \in Seq(ToSet(calls')) /\ DOMAIN calls = 1..l /\ l \in DOMAIN calls /\ p = calls[l]
      /\ DOMAIN calls' = 1..(l - 1)
      /\ \A k \in 1..(l - 1) : calls'[k] = calls[k] /\ k \in DOMAIN calls /\ k < l
  BY <1>1, <1>2, <1>4, FrontFacts DEF NodesInv
<1>6. /\ n.type = "pack" /\ n.id = PackId(p) /\ n.name = p
      /\ n.inputs = packIds(packDependencies(p))
  BY <1>1 DEF Node
<1>7. /\ n.inputs \in Seq(ToSet(n.inputs))
      /\ ToSet(n.inputs) = {PackId(d) : d \in ToSet(packDependencies(p))}
      /\ ToSet(packDependencies(p)) \subseteq DependsOn(p)
  BY <1>6, PackIdsFacts, PackDependenciesFacts
<1>8. GoodNode(n)
  BY <1>6, <1>7 DEF GoodNode
<1>9. \A id \in ToSet(n.inputs) : \E j \in DOMAIN dag : dag[j].id = id
  <2>1. Wanted = packDependencies(p)
    BY <1>1, <1>2 DEF Wanted
  <2>2. \A i \in DOMAIN Wanted : \E j \in DOMAIN dag : dag[j].id = PackId(Wanted[i])
    BY <1>2, <1>3, WantedFacts
  <2> QED
    BY <1>7, <2>1, <2>2 DEF ToSet
<1>10. \A j \in DOMAIN dag : dag[j].id # n.id
  BY <1>5, <1>6 DEF NodesInv
<1>11. PICK k : k = Len(dag)
  OBVIOUS
<1>12. /\ dag' \in Seq(ToSet(dag')) /\ k \in Nat /\ DOMAIN dag = 1..k /\ DOMAIN dag' = 1..(k + 1)
       /\ \A i \in 1..k : dag'[i] = dag[i]
       /\ dag'[k + 1] = n
       /\ \A i \in 1..(k + 1) : i \in 1..k \/ i = k + 1
  BY <1>2, <1>11, AppendFacts DEF NodesInv
<1>13. Ordered(dag') /\ SameForms(dag', plan')
  BY <1>2, <1>6, <1>8, <1>9, <1>10, OrderedGrows, FormsWithPack DEF NodesInv
<1>14. 1 \in 1..(k + 1) /\ 1 \in 1..k
  BY <1>12 DEF NodesInv
<1>15. \A i \in DOMAIN calls' : calls'[i] # p
  <2>1. \A i \in 1..(l - 1) : PackRank(p) < PackRank(calls'[i])
    BY <1>5 DEF NodesInv
  <2>2. ~(PackRank(p) < PackRank(p))
    BY DepsRankLower
  <2> QED
    BY <1>5, <2>1, <2>2
<1>16. \A i \in DOMAIN calls', j \in DOMAIN dag' : dag'[j].id # PackId(calls'[i])
  <2>1. \A i \in DOMAIN calls', j \in 1..k : dag[j].id # PackId(calls'[i])
    BY <1>5, <1>12 DEF NodesInv
  <2>2. \A i \in DOMAIN calls' : n.id # PackId(calls'[i])
    BY <1>6, <1>15, IdKinds
  <2> QED
    BY <1>12, <2>1, <2>2
<1>17. \A i, j \in DOMAIN calls' : i < j => PackRank(calls'[j]) < PackRank(calls'[i])
  BY <1>5 DEF NodesInv
<1> QED
  BY <1>2, <1>3, <1>5, <1>12, <1>13, <1>14, <1>16, <1>17 DEF NodesInv

LEMMA NodesWheel ==
    ASSUME FlatInv, NodesInv, AddWheel
    PROVE  NodesInv'
<1>1. PICK p, e : p = adding /\ e = [name |-> p.name, version |-> p.version, action |-> p.action]
  OBVIOUS
<1>2. PICK id, w, r :
        /\ id = WheelId(p.source, p.packs)
        /\ w = Node("wheel", id, <<RuntimeId>> \o packIds(p.packs), p.name, p.version, p.wheelAction)
        /\ r = Node("repair", RepairId(id), <<id>>, p.name, p.version, Action("repair"))
  OBVIOUS
<1>3. /\ adding # NoPackage /\ calls = <<>> /\ Missing = {} /\ calls' = calls /\ adding' = NoPackage
      /\ plan' = Append(plan, e) /\ dag' = Append(Append(dag, w), r)
  BY <1>1, <1>2 DEF AddWheel
<1>4. /\ w.type = "wheel" /\ w.id = id /\ w.inputs = <<RuntimeId>> \o packIds(p.packs)
      /\ w.name = p.name /\ w.version = p.version
      /\ r.type = "repair" /\ r.id = RepairId(id) /\ r.inputs = <<id>>
      /\ e.name = p.name /\ e.version = p.version
  BY <1>1, <1>2 DEF Node
<1>5. /\ w.inputs \in Seq(ToSet(w.inputs))
      /\ ToSet(w.inputs) \subseteq {RuntimeId} \cup {PackId(d) : d \in ToSet(p.packs)}
  <2>1. PICK a, b : a = <<RuntimeId>> /\ b = packIds(p.packs)
    OBVIOUS
  <2>2. /\ b \in Seq(ToSet(b)) /\ ToSet(b) = {PackId(d) : d \in ToSet(p.packs)}
    BY <1>1, <1>3, <2>1, PackIdsFacts DEF NodesInv
  <2>3. PICK X : X = {RuntimeId} \cup ToSet(b)
    OBVIOUS
  <2>4. a \in Seq(X) /\ b \in Seq(X)
    BY <2>1, <2>2, <2>3, SeqMonotonic
  <2>5. a \o b \in Seq(X)
    BY <2>4, ConcatProperties
  <2>6. PICK c : c = a \o b
    OBVIOUS
  <2>8. ToSet(c) \subseteq X /\ c \in Seq(ToSet(c))
    BY <2>5, <2>6, IsOwnList
  <2> QED
    BY <1>4, <2>1, <2>2, <2>3, <2>6, <2>8
<1>6. GoodNode(w)
  BY <1>2, <1>4, <1>5, IdKinds DEF GoodNode
<1>7. ToSet(r.inputs) = {id} /\ r.inputs \in Seq(ToSet(r.inputs))
  BY <1>4 DEF ToSet
<1>8. GoodNode(r)
  BY <1>4, <1>7, IdKinds DEF GoodNode
<1>9. \A x \in ToSet(w.inputs) : \E j \in DOMAIN dag : dag[j].id = x
  <2>1. Wanted = p.packs
    BY <1>1, <1>3 DEF Wanted
  <2>2. \A i \in DOMAIN Wanted : \E j \in DOMAIN dag : dag[j].id = PackId(Wanted[i])
    BY <1>3, WantedFacts
  <2>3. \E j \in DOMAIN dag : dag[j].id = RuntimeId
    BY DEF NodesInv
  <2> QED
    BY <1>5, <2>1, <2>2, <2>3 DEF ToSet
<1>10. PICK q : q = Append(dag, w)
  OBVIOUS
<1>11. Ordered(q)
  BY <1>4, <1>6, <1>9, <1>10, OrderedGrows DEF NodesInv
<1>12. PICK k : k = Len(dag)
  OBVIOUS
<1>13. /\ q \in Seq(ToSet(q)) /\ k \in Nat /\ DOMAIN dag = 1..k /\ DOMAIN q = 1..(k + 1)
       /\ \A i \in 1..k : q[i] = dag[i]
       /\ q[k + 1] = w /\ Len(q) = k + 1
  BY <1>10, <1>12, AppendFacts DEF NodesInv
<1>14. /\ dag' \in Seq(ToSet(dag')) /\ DOMAIN dag' = 1..((k + 1) + 1)
       /\ \A i \in 1..(k + 1) : dag'[i] = q[i]
  <2>1. dag' = Append(q, r)
    BY <1>3, <1>10
  <2>2. q \in Seq(ToSet(q)) /\ Len(q) = k + 1
    BY <1>13
  <2> QED
    BY <2>1, <2>2, AppendFacts
<1>15. \A x \in ToSet(r.inputs) : \E j \in DOMAIN q : q[j].id = x
  <2>1. k + 1 \in DOMAIN q
    BY <1>13
  <2> QED
    BY <1>4, <1>7, <1>13, <2>1
<1>16. Ordered(dag')
  BY <1>3, <1>4, <1>8, <1>10, <1>11, <1>13, <1>15, OrderedGrows
<1>17. SameForms(dag', plan')
  BY <1>3, <1>4, FormsWithWheel DEF NodesInv, FlatInv
<1>18. 1 \in 1..k /\ 1 \in 1..(k + 1) /\ 1 \in 1..((k + 1) + 1)
  BY <1>13 DEF NodesInv
<1>19. dag'[1] = dag[1]
  BY <1>13, <1>14, <1>18
<1> QED
  BY <1>3, <1>14, <1>16, <1>17, <1>18, <1>19 DEF NodesInv

LEMMA NodesStep ==
    FlatInv /\ NodesInv /\ ResolverNext => NodesInv'
BY LoopStepNodes, NodesLoop, NodesCall, NodesPack, NodesWheel

(* What the nodes say of the plan.                                         *)
LEMMA NodesInOrder ==
    FlatInv /\ NodesInv => DagInOrder /\ FormsAgree
<1> SUFFICES ASSUME FlatInv, NodesInv PROVE DagInOrder /\ FormsAgree
  OBVIOUS
<1>1. DagInOrder
  BY DEF NodesInv, Ordered, DagInOrder
<1>2. SameForms(dag, plan)
  BY DEF NodesInv
<1>3. \A i \in DOMAIN plan : \A j \in 1..(i - 1) :
         <<plan[j].name, plan[j].version>> # <<plan[i].name, plan[i].version>>
  <2>1. PICK l \in Nat : DOMAIN plan = 1..l
    BY LenProperties DEF FlatInv
  <2>2. \A i \in 1..l : \A j \in 1..(i - 1) : j \in 1..l /\ j # i
    OBVIOUS
  <2> QED
    BY <2>1, <2>2 DEF FlatInv, PairAt
<1>4. FormsAgree
  BY <1>2, <1>3 DEF FormsAgree, SameForms, OfType, Places
<1> QED
  BY <1>1, <1>4

-----------------------------------------------------------------------------
(* The packs of a job: topoSortFromDag and resolvePacks.                   *)

(* Packs of a DAG, and what one needs.                                     *)
PacksIn(d) == {d[i].id : i \in Places(d, "pack")}
NodeIn(d, id) == d[CHOOSE i \in DOMAIN d : d[i].id = id]
InputsIn(d, id) == ToSet(NodeIn(d, id).inputs)
IdRank(id) == PackRank(id[2])

(* The list q has elements of T, each once and after its inputs in T.      *)
TopoOf(d, T, q) ==
    /\ q \in Seq(T)
    /\ \A i, k \in DOMAIN q : i # k => q[i] # q[k]
    /\ \A k \in DOMAIN q : \A id \in InputsIn(d, q[k]) \cap T : \E i \in DOMAIN q : i < k /\ q[i] = id

(* topoSortFromDag: the visits s under way go down in rank; a target that was
   visited is among them or in the list q.                                 *)
Visiting(d, T, q, s, v) ==
    /\ TopoOf(d, T, q)
    /\ s \in Seq(ToSet(s)) /\ ToSet(s) \subseteq PacksIn(d) \cap v
    /\ \A i, j \in DOMAIN s : i < j => IdRank(s[j]) < IdRank(s[i])
    /\ \A id \in v \cap T : id \in ToSet(s) \cup ToSet(q)
    /\ ToSet(q) \subseteq v \ ToSet(s)

VisitInv ==
    /\ DOMAIN job = DOMAIN NoJob
    /\ job.targets \subseteq PacksIn(dag)
    /\ TopoOf(dag, job.targets, job.topo)
    /\ stage = "topo" => Visiting(dag, job.targets, job.topo, visits, visited)
    /\ stage # "topo" => visits = <<>> /\ visited = {}
    /\ stage = "packs" => ToSet(job.topo) = job.targets
    /\ ~Preparing => job = NoJob

(* Job j has its packs in order, and is through with those before place n. *)
Through(j, n) ==
    /\ j.packs \in Seq(j.targets) /\ ToSet(j.packs) = j.targets
    /\ \A i, k \in DOMAIN j.packs : i # k => j.packs[i] # j.packs[k]
    /\ \A k \in DOMAIN j.packs : \A i \in 1..k : Priority(j.packs[i]) <= Priority(j.packs[k])
    /\ j.paths \in Seq(ToSet(j.paths)) /\ j.ready \in Seq(ToSet(j.ready))
    /\ \A id \in ToSet(j.paths) : \E i \in DOMAIN j.packs : i < n /\ j.packs[i] = id
    /\ \A b \in ToSet(j.ready) : \E k \in DOMAIN j.packs :
          /\ k < n /\ b.pack = j.packs[k]
          /\ \A i \in DOMAIN j.packs : i < k /\ j.packs[i] \in ToSet(j.paths) => j.packs[i] \in ToSet(b.deps)

PacksInv ==
    /\ packAt \in Nat \ {0}
    /\ \A j \in ToSet(jobs) : /\ j.targets \subseteq PacksIn(dag) /\ TopoOf(dag, j.targets, j.topo)
                              /\ Through(j, Len(j.packs) + 1)
    /\ stage = "packs" => Through(job, packAt) /\ packAt <= Len(job.packs) + 1
    /\ stage # "packs" => job.packs = <<>> /\ job.paths = <<>> /\ job.ready = <<>>

-----------------------------------------------------------------------------
LEMMA PackNodeFacts ==
    ASSUME NEW d, d \in Seq(ToSet(d)), Ordered(d), NEW id \in PacksIn(d)
    PROVE  /\ id[1] = "pack" /\ id = PackId(id[2])
           /\ NodeIn(d, id).inputs \in Seq(InputsIn(d, id))
           /\ \A x \in InputsIn(d, id) : x \in PacksIn(d) /\ x[2] \in DependsOn(id[2])
<1>1. PICK k \in Nat : DOMAIN d = 1..k
  BY LenProperties
<1>2. ASSUME NEW i \in DOMAIN d, d[i].id[1] = "pack"
      PROVE  /\ d[i].type = "pack" /\ d[i].id = PackId(d[i].name)
             /\ ToSet(d[i].inputs) \subseteq {PackId(x) : x \in DependsOn(d[i].name)}
  BY <1>2, IdKinds DEF Ordered, GoodNode
<1>3. PICK i \in DOMAIN d : d[i].id = id /\ d[i].type = "pack"
  BY DEF PacksIn, Places
<1>4. id = PackId(d[i].name)
  <2>1. GoodNode(d[i])
    BY DEF Ordered
  <2> QED
    BY <1>3, <2>1 DEF GoodNode
<1>5. id[1] = "pack" /\ id = PackId(id[2])
  BY <1>4, IdKinds
<1>6. PICK c \in DOMAIN d : NodeIn(d, id) = d[c] /\ d[c].id = id
  BY <1>3 DEF NodeIn
<1>7. d[c].name = id[2] /\ ToSet(d[c].inputs) \subseteq {PackId(x) : x \in DependsOn(d[c].name)}
  BY <1>2, <1>5, <1>6, IdKinds
<1>8. ASSUME NEW x \in ToSet(d[c].inputs) PROVE x \in PacksIn(d) /\ x[2] \in DependsOn(id[2])
  <2>1. x[1] = "pack" /\ x[2] \in DependsOn(id[2])
    BY <1>7, IdKinds
  <2>2. PICK j \in 1..(c - 1) : d[j].id = x
    BY DEF Ordered
  <2>3. j \in DOMAIN d
    BY <1>1
  <2> QED
    BY <1>2, <2>1, <2>2, <2>3 DEF PacksIn, Places
<1>9. d[c].inputs \in Seq(ToSet(d[c].inputs))
  BY DEF Ordered, GoodNode
<1> QED
  BY <1>5, <1>6, <1>8, <1>9 DEF InputsIn

LEMMA PackInputsFacts ==
    ASSUME NEW n, n.inputs \in Seq(ToSet(n.inputs))
    PROVE  /\ PackInputs(n) \in Seq(ToSet(PackInputs(n)))
           /\ ToSet(PackInputs(n)) = {x \in ToSet(n.inputs) : x[1] = "pack"}
<1> DEFINE q == n.inputs
           S == {i \in DOMAIN q : q[i][1] = "pack"}
<1>1. PICK k \in Nat : DOMAIN q = 1..k
  BY LenProperties
<1>2. S \in SUBSET (1..k) /\ PackInputs(n) = AtPlaces(q, S)
  BY <1>1 DEF PackInputs
<1>3. {q[i] : i \in S} = {x \in ToSet(q) : x[1] = "pack"}
  BY DEF ToSet
<1> HIDE DEF S, q
<1>4. /\ AtPlaces(q, S) \in Seq({q[i] : i \in S}) /\ DOMAIN AtPlaces(q, S) = 1..Cardinality(S)
      /\ {AtPlaces(q, S)[m] : m \in 1..Cardinality(S)} = {q[i] : i \in S}
  BY <1>2, AtPlacesIsList
<1>5. PICK r : r = AtPlaces(q, S)
  OBVIOUS
<1>6. ToSet(r) = {q[i] : i \in S} /\ r \in Seq({q[i] : i \in S})
  BY <1>4, <1>5 DEF ToSet
<1> QED
  BY <1>2, <1>3, <1>5, <1>6 DEF q

(* The next pack to visit.                                                 *)
LEMMA ToVisitFacts ==
    ASSUME NodesInv, visits \in Seq(ToSet(visits)), ToSet(visits) \subseteq PacksIn(dag)
    PROVE  /\ visits = <<>> => ToVisit = job.targets \ visited
           /\ visits # <<>> =>
                 /\ \A id \in ToVisit : id \notin visited /\ id \in InputsIn(dag, Last(visits))
                 /\ ToVisit = {} => InputsIn(dag, Last(visits)) \subseteq visited
<1>1. visits = <<>> => ToVisit = job.targets \ visited
  BY DEF ToVisit
<1>2. ASSUME visits # <<>>
      PROVE  /\ \A id \in ToVisit : id \notin visited /\ id \in InputsIn(dag, Last(visits))
             /\ ToVisit = {} => InputsIn(dag, Last(visits)) \subseteq visited
  <2>1. PICK last : last = Last(visits)
    OBVIOUS
  <2>2. last \in PacksIn(dag)
    BY <1>2, <2>1, FrontFacts
  <2>3. PICK n : n = PackNode(last)
    OBVIOUS
  <2>4. n = NodeIn(dag, last)
    BY <2>3 DEF PackNode, NodeIn
  <2>5. /\ n.inputs \in Seq(ToSet(n.inputs)) /\ InputsIn(dag, last) = ToSet(n.inputs)
        /\ \A x \in ToSet(n.inputs) : x \in PacksIn(dag)
    BY <2>2, <2>4, PackNodeFacts DEF NodesInv, InputsIn
  <2>6. \A x \in PacksIn(dag) : x[1] = "pack"
    BY PackNodeFacts DEF NodesInv
  <2>7. PICK q : q = PackInputs(n)
    OBVIOUS
  <2>8. q \in Seq(ToSet(q)) /\ ToSet(q) = ToSet(n.inputs)
    BY <2>5, <2>6, <2>7, PackInputsFacts
  <2>9. PICK k \in Nat : DOMAIN q = 1..k
    BY <2>8, LenProperties
  <2>10. PICK new : new = {i \in DOMAIN q : q[i] \notin visited}
    OBVIOUS
  <2>11. ToVisit = {q[i] : i \in {m \in new : \A j \in new : m <= j}}
    BY <1>2, <2>1, <2>3, <2>7, <2>10 DEF ToVisit
  <2>12. new # {} => \E i \in new : \A j \in new : i <= j
    BY <2>9, <2>10, FirstPlace
  <2>13. ToVisit = {} => new = {}
    BY <2>11, <2>12
  <2>14. \A id \in ToVisit : id \notin visited /\ id \in ToSet(q)
    BY <2>10, <2>11 DEF ToSet
  <2>15. new = {} => ToSet(q) \subseteq visited
    BY <2>10 DEF ToSet
  <2> QED
    BY <2>1, <2>5, <2>8, <2>13, <2>14, <2>15
<1> QED
  BY <1>1, <1>2

LEMMA LowerIsLess ==
    \A a, b, c : IdRank(a) < IdRank(b) /\ IdRank(b) < IdRank(c) => IdRank(a) < IdRank(c) /\ a # c
<1>1. \A a : IdRank(a) \in Nat
  BY DepsRankLower DEF IdRank
<1>2. \A i, j, k \in Nat : i < j /\ j < k => i < k /\ i # k
  OBVIOUS
<1> QED
  BY <1>1, <1>2

(* A visit begins, for a pack below the last one.                          *)
LEMMA VisitBegins ==
    ASSUME NEW d, NEW T, NEW q, NEW s, NEW v, Visiting(d, T, q, s, v),
           NEW id \in PacksIn(d), id \notin v, s # <<>> => IdRank(id) < IdRank(Last(s))
    PROVE  Visiting(d, T, q, Append(s, id), v \cup {id})
<1>1. PICK t, u, l : t = Append(s, id) /\ u = v \cup {id} /\ l = Len(s)
  OBVIOUS
<1>2. s \in Seq(ToSet(s))
  BY DEF Visiting
<1>3. /\ t \in Seq(ToSet(t)) /\ l \in Nat /\ DOMAIN s = 1..l /\ DOMAIN t = 1..(l + 1)
      /\ \A i \in 1..l : t[i] = s[i]
      /\ t[l + 1] = id
      /\ ToSet(t) = ToSet(s) \cup {id}
      /\ \A i \in 1..(l + 1) : i \in 1..l \/ i = l + 1
  BY <1>1, <1>2, AppendFacts
<1>4. \A i \in 1..l : IdRank(id) < IdRank(s[i])
  <2>1. CASE l = 0
    BY <2>1
  <2>2. CASE l # 0
    <3>1. l \in 1..l /\ \A k \in 1..l : k = l \/ k < l
      BY <1>3, <2>2
    <3>2. s # <<>> /\ Last(s) = s[l]
      BY <1>1, <2>2 DEF Last
    <3>3. \A k \in 1..l : k = l \/ IdRank(s[l]) < IdRank(s[k])
      BY <1>3, <3>1 DEF Visiting
    <3> QED
      BY <3>2, <3>3, LowerIsLess
  <2> QED
    BY <2>1, <2>2
<1>5. /\ \A k \in 1..l : k < l + 1 /\ ~(l + 1 < k)
      /\ ~(l + 1 < l + 1)
  BY <1>3
<1>6. \A i, j \in 1..(l + 1) : i < j => IdRank(t[j]) < IdRank(t[i])
  BY <1>3, <1>4, <1>5 DEF Visiting
<1>7. Visiting(d, T, q, t, u)
  BY <1>1, <1>3, <1>6 DEF Visiting
<1> QED
  BY <1>1, <1>7

(* A visit ends, after all inputs were visited.                            *)
LEMMA VisitEnds ==
    ASSUME NEW d, d \in Seq(ToSet(d)), Ordered(d), NEW T, T \subseteq PacksIn(d),
           NEW q, NEW s, NEW v, Visiting(d, T, q, s, v), s # <<>>,
           InputsIn(d, Last(s)) \subseteq v
    PROVE  Visiting(d, T, IF Last(s) \in T THEN Append(q, Last(s)) ELSE q, Front(s), v)
<1>1. PICK id, t, l : id = Last(s) /\ t = Front(s) /\ l = Len(s)
  OBVIOUS
<1>2. s \in Seq(ToSet(s))
  BY DEF Visiting
<1>3. /\ t \in Seq(ToSet(t)) /\ DOMAIN s = 1..l /\ l \in DOMAIN s /\ id = s[l]
      /\ DOMAIN t = 1..(l - 1)
      /\ \A i \in 1..(l - 1) : t[i] = s[i] /\ i \in DOMAIN s /\ i < l
      /\ ToSet(s) = ToSet(t) \cup {id}
  BY <1>1, <1>2, FrontFacts
<1>4. \A i \in 1..(l - 1) : IdRank(id) < IdRank(t[i]) /\ t[i] # id
  <2>1. \A i \in 1..(l - 1) : IdRank(id) < IdRank(t[i])
    BY <1>3 DEF Visiting
  <2>2. ~(IdRank(id) < IdRank(id))
    BY DepsRankLower DEF IdRank
  <2> QED
    BY <2>1, <2>2
<1>5. id \notin ToSet(t) /\ id \in PacksIn(d) /\ id \in v
  BY <1>3, <1>4 DEF ToSet, Visiting
<1>6. \A x \in InputsIn(d, id) : x \notin ToSet(s)
  <2> SUFFICES ASSUME NEW x \in InputsIn(d, id), NEW i \in DOMAIN s, x = s[i] PROVE FALSE
    BY DEF ToSet
  <2>1. IdRank(x) < IdRank(id)
    BY <1>5, PackNodeFacts, DepsRankLower DEF IdRank
  <2>2. i = l \/ i \in 1..(l - 1)
    BY <1>3
  <2>3. i = l \/ IdRank(id) < IdRank(x)
    BY <1>3, <1>4, <2>2
  <2> QED
    BY <1>3, <2>1, <2>3, LowerIsLess
<1>7. \A x \in InputsIn(d, id) \cap T : x \in ToSet(q)
  BY <1>1, <1>6 DEF Visiting
<1>8. \A i, j \in DOMAIN t : i < j => IdRank(t[j]) < IdRank(t[i])
  BY <1>3 DEF Visiting
<1>9. ASSUME id \notin T PROVE Visiting(d, T, q, t, v)
  BY <1>3, <1>5, <1>8, <1>9 DEF Visiting
<1>10. ASSUME id \in T PROVE Visiting(d, T, Append(q, id), t, v)
  <2>1. PICK r, k : r = Append(q, id) /\ k = Len(q)
    OBVIOUS
  <2>2. TopoOf(d, T, q) /\ q \in Seq(T) /\ q \in Seq(ToSet(q))
    BY IsOwnList DEF Visiting, TopoOf
  <2>3. /\ k \in Nat /\ DOMAIN q = 1..k /\ DOMAIN r = 1..(k + 1)
        /\ \A i \in 1..k : r[i] = q[i]
        /\ r[k + 1] = id
        /\ ToSet(r) = ToSet(q) \cup {id}
        /\ \A i \in 1..(k + 1) : i \in 1..k \/ i = k + 1
    BY <2>1, <2>2, AppendFacts
  <2>4. r \in Seq(T)
    BY <1>10, <2>1, <2>2, AppendProperties
  <2>5. \A i \in 1..k : q[i] # id
    BY <1>1, <1>3, <2>3 DEF Visiting, ToSet
  <2>6. /\ \A i \in 1..k : i < k + 1 /\ i # k + 1
        /\ 1..k \subseteq 1..(k + 1)
    BY <2>3
  <2>7. \A i, j \in DOMAIN r : i # j => r[i] # r[j]
    BY <2>2, <2>3, <2>5, <2>6 DEF TopoOf
  <2>8. ASSUME NEW m \in DOMAIN r, NEW x \in InputsIn(d, r[m]) \cap T
        PROVE  \E i \in DOMAIN r : i < m /\ r[i] = x
    <3>1. CASE m \in 1..k
      <4>1. r[m] = q[m]
        BY <2>3, <3>1
      <4>2. PICK i \in 1..k : i < m /\ q[i] = x
        BY <2>2, <2>3, <2>8, <3>1, <4>1 DEF TopoOf
      <4> QED
        BY <2>3, <2>6, <4>2
    <3>2. CASE m = k + 1
      <4>1. x \in ToSet(q)
        BY <1>7, <2>3, <2>8, <3>2
      <4>2. PICK i \in 1..k : q[i] = x
        BY <2>3, <4>1 DEF ToSet
      <4> QED
        BY <2>3, <2>6, <3>2, <4>2
    <3> QED
      BY <2>3, <3>1, <3>2
  <2>9. TopoOf(d, T, r)
    BY <2>4, <2>7, <2>8 DEF TopoOf
  <2>10. Visiting(d, T, r, t, v)
    BY <1>3, <1>5, <1>8, <2>3, <2>9 DEF Visiting
  <2> QED
    BY <2>1, <2>10
<1> QED
  BY <1>1, <1>9, <1>10

(* The orders of a finite set have all its elements, each once.            *)
LEMMA OrdersFacts ==
    ASSUME NEW q, q \in Seq(ToSet(q)), NEW s \in SetToSeqs(ToSet(q))
    PROVE  /\ s \in Seq(ToSet(q)) /\ ToSet(s) = ToSet(q)
           /\ \A i, k \in DOMAIN s : i # k => s[i] # s[k]
<1>1. PICK T : T = ToSet(q)
  OBVIOUS
<1>2. IsFiniteSet(T) /\ Cardinality(T) \in Nat
  <2>1. Len(q) \in Nat /\ DOMAIN q = 1..Len(q) /\ q \in [1..Len(q) -> T]
    BY <1>1, LenProperties
  <2>2. q \in Surjection(1..Len(q), T)
    BY <1>1, <2>1 DEF Surjection, ToSet
  <2>3. IsFiniteSet(1..Len(q))
    BY <2>1, FS_Interval
  <2> QED
    BY <2>2, <2>3, FS_Surjection, FS_CardinalityType
<1>3. PICK c \in Nat : c = Cardinality(T)
  BY <1>2
<1>4. /\ s \in [1..c -> T] /\ DOMAIN s = 1..c
      /\ \A i, k \in 1..c : i # k => s[i] # s[k]
  BY <1>1, <1>3 DEF SetToSeqs
<1>5. s \in Injection(1..c, T)
  BY <1>4 DEF Injection, IsInjective
<1>6. Cardinality(1..c) = c
  <2>1. 1 \in Int /\ c \in Int /\ c - 1 + 1 = c /\ (1 > c => c = 0)
    OBVIOUS
  <2> QED
    BY <2>1, FS_Interval
<1>7. s \in Surjection(1..c, T)
  BY <1>2, <1>3, <1>5, <1>6, FS_Injection
<1>8. ToSet(s) = T
  BY <1>4, <1>7 DEF Surjection, ToSet
<1>9. s \in Seq(T)
  BY <1>4
<1> QED
  BY <1>1, <1>4, <1>8, <1>9

LEMMA InputsAreThere ==
    ASSUME NEW d, d \in Seq(ToSet(d)), Ordered(d), NEW c \in DOMAIN d,
           NEW x \in ToSet(d[c].inputs), x[1] = "pack"
    PROVE  x \in PacksIn(d)
<1>1. PICK k \in Nat : DOMAIN d = 1..k
  BY LenProperties
<1>2. PICK j \in 1..(c - 1) : d[j].id = x
  BY DEF Ordered
<1>3. j \in DOMAIN d
  BY <1>1
<1>4. GoodNode(d[j])
  BY <1>3 DEF Ordered
<1>5. d[j].type = "pack"
  BY <1>2, <1>4, IdKinds DEF GoodNode
<1> QED
  BY <1>2, <1>3, <1>5 DEF PacksIn, Places

(* findWheelArtifact finds the wheel of a flat node, and the packs it needs
   are in the DAG.                                                         *)
LEMMA WheelFound ==
    ASSUME FlatInv, NodesInv, NEW k \in DOMAIN plan
    PROVE  /\ \E i \in DOMAIN dag : findWheelArtifact(plan[k]) = dag[i] /\ dag[i].type = "wheel"
           /\ ToSet(PackInputs(findWheelArtifact(plan[k]))) \subseteq PacksIn(dag)
<1>1. PICK n, W, l : n = plan[k] /\ W = Places(dag, "wheel") /\ l = Len(dag)
  OBVIOUS
<1>2. l \in Nat /\ DOMAIN dag = 1..l
  BY <1>1, LenProperties DEF NodesInv
<1>3. W \in SUBSET (1..l)
  BY <1>1, <1>2 DEF Places
<1>4. PICK w : w = AtPlaces(dag, W)
  OBVIOUS
<1>5. Len(w) = Len(plan) /\ w[k].name = n.name /\ w[k].version = n.version
  BY <1>1, <1>4 DEF NodesInv, SameForms
<1>6. Len(w) = Cardinality(W) /\ Cardinality(W) \in Nat
  BY <1>2, <1>3, <1>4, AtPlacesIsList
<1>7. k \in 1..Cardinality(W)
  BY <1>5, <1>6, LenProperties DEF FlatInv
<1>8. PICK m : m = Nth(W, k)
  OBVIOUS
<1>9. m \in W /\ w[k] = dag[m]
  BY <1>2, <1>3, <1>4, <1>7, <1>8, NthFacts DEF AtPlaces
<1>10. PICK hits : hits = {i \in DOMAIN dag : /\ dag[i].type = "wheel" /\ dag[i].version = n.version
                                              /\ equalsIgnoreCase(dag[i].name, n.name)}
  OBVIOUS
<1>11. m \in hits
  BY <1>1, <1>5, <1>9, <1>10 DEF Places, equalsIgnoreCase
<1>12. hits \in SUBSET (1..l)
  BY <1>2, <1>10
<1>13. \E i \in hits : \A j \in hits : i <= j
  BY <1>2, <1>11, <1>12, FirstPlace
<1>14. PICK h : h = Min(hits)
  OBVIOUS
<1>15. h \in hits
  BY <1>13, <1>14 DEF Min
<1>16. findWheelArtifact(plan[k]) = dag[h] /\ h \in DOMAIN dag /\ dag[h].type = "wheel"
  BY <1>1, <1>10, <1>14, <1>15 DEF findWheelArtifact
<1>17. PICK a : a = dag[h]
  OBVIOUS
<1>18. a.inputs \in Seq(ToSet(a.inputs))
  BY <1>16, <1>17 DEF NodesInv, Ordered, GoodNode
<1>19. ToSet(PackInputs(a)) \subseteq PacksIn(dag)
  BY <1>16, <1>17, <1>18, PackInputsFacts, InputsAreThere DEF NodesInv
<1> QED
  BY <1>16, <1>17, <1>19

(* One more pack of a job.                                                 *)
LEMMA ThroughNext ==
    ASSUME NEW j, NEW n \in Nat \ {0}, Through(j, n), n \in DOMAIN j.packs,
           NEW paths \in {j.paths, Append(j.paths, j.packs[n])},
           NEW ready \in {j.ready, Append(j.ready, [pack |-> j.packs[n], deps |-> j.paths])},
           NEW k, k.packs = j.packs, k.targets = j.targets, k.paths = paths, k.ready = ready
    PROVE  Through(k, n + 1)
<1>1. PICK p, id, b : p = j.packs /\ id = p[n] /\ b = [pack |-> id, deps |-> j.paths]
  OBVIOUS
<1>2. PICK l \in Nat : DOMAIN p = 1..l
  BY <1>1, LenProperties DEF Through
<1>3. /\ paths \in Seq(ToSet(paths)) /\ ToSet(paths) \subseteq ToSet(j.paths) \cup {id}
      /\ ToSet(j.paths) \subseteq ToSet(paths)
  <2>1. j.paths \in Seq(ToSet(j.paths))
    BY DEF Through
  <2>2. PICK a : a = Append(j.paths, id)
    OBVIOUS
  <2>3. a \in Seq(ToSet(a)) /\ ToSet(a) = ToSet(j.paths) \cup {id}
    BY <2>1, <2>2, AppendFacts
  <2>4. paths = j.paths \/ paths = a
    BY <1>1, <2>2
  <2> QED
    BY <2>1, <2>3, <2>4
<1>4. ready \in Seq(ToSet(ready)) /\ ToSet(ready) \subseteq ToSet(j.ready) \cup {b}
  <2>1. j.ready \in Seq(ToSet(j.ready))
    BY DEF Through
  <2>2. PICK a : a = Append(j.ready, b)
    OBVIOUS
  <2>3. a \in Seq(ToSet(a)) /\ ToSet(a) = ToSet(j.ready) \cup {b}
    BY <2>1, <2>2, AppendFacts
  <2>4. ready = j.ready \/ ready = a
    BY <1>1, <2>2
  <2> QED
    BY <2>1, <2>3, <2>4
<1>5. /\ \A i \in 1..l : i < n => i < n + 1 /\ i # n
      /\ n < n + 1 /\ n \in 1..l
  BY <1>1, <1>2
<1>6. \A x \in ToSet(paths) : \E i \in DOMAIN p : i < n + 1 /\ p[i] = x
  BY <1>1, <1>2, <1>3, <1>5 DEF Through
<1>7. \A i \in DOMAIN p : i < n => p[i] # id
  BY <1>1, <1>2, <1>5 DEF Through
<1>8. ASSUME NEW r \in ToSet(ready)
      PROVE  \E m \in DOMAIN p : /\ m < n + 1 /\ r.pack = p[m]
                                 /\ \A i \in DOMAIN p : i < m /\ p[i] \in ToSet(paths) => p[i] \in ToSet(r.deps)
  <2>1. CASE r \in ToSet(j.ready)
    <3>1. PICK m \in DOMAIN p : /\ m < n /\ r.pack = p[m]
                                /\ \A i \in DOMAIN p : i < m /\ p[i] \in ToSet(j.paths) => p[i] \in ToSet(r.deps)
      BY <1>1, <2>1 DEF Through
    <3>2. \A i \in DOMAIN p : i < m => p[i] # id
      BY <1>2, <1>7, <3>1
    <3>3. \A i \in DOMAIN p : i < m /\ p[i] \in ToSet(paths) => p[i] \in ToSet(r.deps)
      BY <1>3, <3>1, <3>2
    <3> QED
      BY <1>2, <1>5, <3>1, <3>3
  <2>2. CASE r = b
    <3>1. r.pack = p[n] /\ r.deps = j.paths
      BY <1>1, <2>2
    <3>2. \A i \in DOMAIN p : i < n /\ p[i] \in ToSet(paths) => p[i] \in ToSet(r.deps)
      BY <1>3, <1>7, <3>1
    <3>3. n \in DOMAIN p /\ n < n + 1
      BY <1>2, <1>5
    <3> QED
      BY <3>1, <3>2, <3>3
  <2> QED
    BY <1>4, <2>1, <2>2
<1>9. /\ k.packs \in Seq(k.targets) /\ ToSet(k.packs) = k.targets
      /\ \A i, m \in DOMAIN k.packs : i # m => k.packs[i] # k.packs[m]
      /\ \A m \in DOMAIN k.packs : \A i \in 1..m : Priority(k.packs[i]) <= Priority(k.packs[m])
  BY DEF Through
<1>10. k.packs = p /\ k.paths = paths /\ k.ready = ready
  BY <1>1
<1> QED
  BY ONLY <1>3, <1>4, <1>6, <1>8, <1>9, <1>10 DEF Through

JobsInv == VisitInv /\ PacksInv

(* The fields of a job that is not begun.                                  *)
LEMMA NoJobFacts ==
    /\ NoJob.targets = {} /\ NoJob.topo = <<>> /\ NoJob.packs = <<>> /\ NoJob.paths = <<>>
    /\ NoJob.ready = <<>> /\ \A d : TopoOf(d, NoJob.targets, NoJob.topo)
BY DEF NoJob, TopoOf

LEMMA JobsStart ==
    Init => JobsInv
<1> SUFFICES ASSUME Init PROVE JobsInv
  OBVIOUS
<1>1. /\ stage = "plan" /\ job = NoJob /\ jobs = <<>> /\ visits = <<>> /\ visited = {} /\ packAt = 1
      /\ ToSet(jobs) = {}
  BY DEF Init, ToSet
<1>2. job.targets \subseteq PacksIn(dag)
  BY <1>1, NoJobFacts
<1> QED
  BY <1>1, <1>2, NoJobFacts DEF JobsInv, Preparing, VisitInv, PacksInv

(* The resolver works before there are jobs.                               *)
LEMMA JobsResolver ==
    ASSUME PrepInv, JobsInv, ResolverNext, UNCHANGED prepVars
    PROVE  JobsInv'
<1>1. /\ stage = "plan" /\ jobs = <<>>
  BY ResolverBefore DEF PrepInv, BatchInv, MatchInv
<1>2. /\ stage' = "plan" /\ job' = NoJob /\ jobs' = <<>> /\ visits' = <<>> /\ visited' = {}
      /\ packAt' = packAt /\ ToSet(jobs') = {}
  BY <1>1 DEF prepVars, JobsInv, Preparing, VisitInv, ToSet
<1>3. job'.targets \subseteq PacksIn(dag')
  BY <1>2, NoJobFacts
<1> QED
  BY <1>2, <1>3, NoJobFacts DEF JobsInv, Preparing, VisitInv, PacksInv

(* Steps that leave the job alone.                                         *)
LEMMA JobsAlone ==
    ASSUME PrepInv, JobsInv, QueueBuilds \/ Drain \/ Matched \/ UNCHANGED vars
    PROVE  JobsInv'
<1>1. /\ UNCHANGED resolverVars /\ UNCHANGED <<job, jobs, visits, visited, packAt>>
      /\ \/ stage' = stage
         \/ stage \notin {"topo", "packs"} /\ stage' \in {"queued", "match", "done"}
  BY DEF QueueBuilds, Drain, Matched, vars, prepVars
<1>2. dag' = dag
  BY <1>1, ResolverFrame DEF PrepInv
<1> QED
  BY <1>1, <1>2 DEF JobsInv, Preparing, VisitInv, PacksInv

LEMMA JobsBegin ==
    ASSUME PrepInv, NodesInv, JobsInv, BeginJob
    PROVE  JobsInv'
<1>1. PICK x \in Ahead :
        job' = LET w == findWheelArtifact(plan[x[2]])
               IN  [NoJob EXCEPT !.req = x[1], !.name = plan[x[2]].name, !.version = plan[x[2]].version,
                                 !.wheel = w.id, !.action = w.action, !.targets = ToSet(PackInputs(w))]
  BY DEF BeginJob
<1>2. /\ stage = "match" /\ stage' = "topo" /\ UNCHANGED resolverVars
      /\ UNCHANGED <<visits, visited, jobs, packAt>>
  BY DEF BeginJob
<1>3. dag' = dag
  BY <1>2, ResolverFrame DEF PrepInv
<1>4. x[2] \in DOMAIN plan
  BY MatchFacts DEF PrepInv, ResolverInv, Ahead
<1>5. PICK T : T = ToSet(PackInputs(findWheelArtifact(plan[x[2]])))
  OBVIOUS
<1>6. T \subseteq PacksIn(dag)
  BY <1>4, <1>5, WheelFound DEF PrepInv, ResolverInv
<1>7. /\ DOMAIN job' = DOMAIN NoJob /\ job'.targets = T /\ job'.topo = <<>> /\ job'.packs = <<>>
      /\ job'.paths = <<>> /\ job'.ready = <<>>
  BY <1>1, <1>5 DEF NoJob
<1>8. TopoOf(dag, T, <<>>)
  BY DEF TopoOf
<1>9. visits = <<>> /\ visited = {}
  BY <1>2 DEF JobsInv, Preparing, VisitInv
<1>10. Visiting(dag, T, <<>>, <<>>, {})
  BY <1>8 DEF Visiting, ToSet
<1>11. VisitInv'
  BY <1>2, <1>3, <1>6, <1>7, <1>8, <1>9, <1>10 DEF Preparing, VisitInv
<1>12. PacksInv'
  BY <1>2, <1>3, <1>7 DEF JobsInv, PacksInv
<1> QED
  BY <1>11, <1>12 DEF JobsInv

LEMMA JobsVisit ==
    ASSUME PrepInv, NodesInv, JobsInv, Visit
    PROVE  JobsInv'
<1>1. PICK id \in ToVisit : visits' = Append(visits, id) /\ visited' = visited \cup {id}
  BY DEF Visit
<1>2. /\ stage = "topo" /\ stage' = "topo" /\ UNCHANGED resolverVars
      /\ UNCHANGED <<job, jobs, packAt>>
  BY DEF Visit
<1>3. dag' = dag
  BY <1>2, ResolverFrame DEF PrepInv
<1>4. /\ Visiting(dag, job.targets, job.topo, visits, visited) /\ job.targets \subseteq PacksIn(dag)
      /\ visits \in Seq(ToSet(visits)) /\ ToSet(visits) \subseteq PacksIn(dag)
  BY <1>2 DEF JobsInv, Preparing, VisitInv, Visiting
<1>5. /\ id \in PacksIn(dag) /\ id \notin visited
      /\ visits # <<>> => IdRank(id) < IdRank(Last(visits))
  <2>1. CASE visits = <<>>
    BY <1>4, <2>1, ToVisitFacts
  <2>2. CASE visits # <<>>
    <3>1. id \notin visited /\ id \in InputsIn(dag, Last(visits))
      BY <1>4, <2>2, ToVisitFacts
    <3>2. Last(visits) \in PacksIn(dag)
      BY <1>4, <2>2, FrontFacts
    <3>3. id \in PacksIn(dag) /\ id[2] \in DependsOn(Last(visits)[2])
      BY <3>1, <3>2, PackNodeFacts DEF NodesInv
    <3> QED
      BY <3>1, <3>3, DepsRankLower DEF IdRank
  <2> QED
    BY <2>1, <2>2
<1>6. Visiting(dag, job.targets, job.topo, Append(visits, id), visited \cup {id})
  BY <1>4, <1>5, VisitBegins
<1>7. VisitInv'
  BY <1>1, <1>2, <1>3, <1>6 DEF JobsInv, Preparing, VisitInv
<1>8. PacksInv'
  BY <1>2, <1>3 DEF JobsInv, PacksInv
<1> QED
  BY <1>7, <1>8 DEF JobsInv

LEMMA JobsEndVisit ==
    ASSUME PrepInv, NodesInv, JobsInv, EndVisit
    PROVE  JobsInv'
<1>1. PICK q : q = IF Last(visits) \in job.targets THEN Append(job.topo, Last(visits)) ELSE job.topo
  OBVIOUS
<1>2. /\ stage = "topo" /\ stage' = "topo" /\ UNCHANGED resolverVars /\ visits # <<>> /\ ToVisit = {}
      /\ visits' = Front(visits) /\ UNCHANGED <<visited, jobs, packAt>>
      /\ job' = [job EXCEPT !.topo = q]
  BY <1>1 DEF EndVisit
<1>3. dag' = dag
  BY <1>2, ResolverFrame DEF PrepInv
<1>4. /\ Visiting(dag, job.targets, job.topo, visits, visited) /\ job.targets \subseteq PacksIn(dag)
      /\ visits \in Seq(ToSet(visits)) /\ ToSet(visits) \subseteq PacksIn(dag)
  BY <1>2 DEF JobsInv, Preparing, VisitInv, Visiting
<1>5. InputsIn(dag, Last(visits)) \subseteq visited
  BY <1>2, <1>4, ToVisitFacts
<1>6. Visiting(dag, job.targets, q, Front(visits), visited)
  BY <1>1, <1>2, <1>4, <1>5, VisitEnds DEF NodesInv
<1>7. /\ DOMAIN job' = DOMAIN NoJob /\ job'.targets = job.targets /\ job'.topo = q
      /\ job'.packs = job.packs /\ job'.paths = job.paths /\ job'.ready = job.ready
  BY <1>2 DEF JobsInv, Preparing, VisitInv, NoJob
<1>8. VisitInv'
  BY <1>2, <1>3, <1>4, <1>6, <1>7 DEF Preparing, VisitInv, Visiting
<1>9. PacksInv'
  BY <1>2, <1>3, <1>7 DEF JobsInv, PacksInv
<1> QED
  BY <1>8, <1>9 DEF JobsInv

LEMMA JobsBeginPacks ==
    ASSUME PrepInv, NodesInv, JobsInv, BeginPacks
    PROVE  JobsInv'
<1>1. PICK packs \in sortPacksByPriority(job.topo) : job' = [job EXCEPT !.packs = packs]
  BY DEF BeginPacks
<1>2. /\ stage = "topo" /\ stage' = "packs" /\ UNCHANGED resolverVars /\ visits = <<>> /\ ToVisit = {}
      /\ packAt' = 1 /\ visited' = {} /\ visits' = visits /\ jobs' = jobs
  BY DEF BeginPacks
<1>3. dag' = dag
  BY <1>2, ResolverFrame DEF PrepInv
<1>4. /\ DOMAIN job' = DOMAIN NoJob /\ job'.targets = job.targets /\ job'.topo = job.topo
      /\ job'.packs = packs /\ job'.paths = <<>> /\ job'.ready = <<>>
  BY <1>1, <1>2 DEF JobsInv, Preparing, VisitInv, PacksInv, NoJob
<1>5. PICK T, q : T = job.targets /\ q = job.topo
  OBVIOUS
<1>6. Visiting(dag, T, q, visits, visited) /\ T \subseteq PacksIn(dag)
  BY <1>2, <1>5 DEF JobsInv, Preparing, VisitInv
<1>7. T \subseteq visited
  BY <1>2, <1>5, <1>6, ToVisitFacts DEF Visiting
<1>8. ToSet(q) = T /\ q \in Seq(ToSet(q))
  <2>1. q \in Seq(T)
    BY <1>6 DEF Visiting, TopoOf
  <2>2. ToSet(q) \subseteq T /\ q \in Seq(ToSet(q))
    BY <2>1, IsOwnList
  <2>3. ToSet(visits) = {}
    BY <1>2 DEF ToSet
  <2> QED
    BY <1>6, <1>7, <2>2, <2>3 DEF Visiting
<1>9. /\ packs \in Seq(T) /\ ToSet(packs) = T
      /\ \A i, k \in DOMAIN packs : i # k => packs[i] # packs[k]
      /\ \A k \in DOMAIN packs : \A i \in 1..k : Priority(packs[i]) <= Priority(packs[k])
  BY <1>1, <1>5, <1>8, OrdersFacts DEF sortPacksByPriority
<1>10. ToSet(<<>>) = {} /\ <<>> \in Seq({})
  BY DEF ToSet
<1>11. Through(job', 1)
  BY <1>4, <1>5, <1>9, <1>10 DEF Through
<1>12. packAt' <= Len(packs) + 1
  <2>1. Len(packs) \in Nat
    BY <1>9, LenProperties
  <2> QED
    BY <1>2, <2>1
<1>13. VisitInv'
  BY <1>2, <1>3, <1>4, <1>5, <1>8 DEF JobsInv, Preparing, VisitInv
<1>14. PacksInv'
  BY <1>2, <1>3, <1>4, <1>11, <1>12 DEF JobsInv, PacksInv
<1> QED
  BY <1>13, <1>14 DEF JobsInv

LEMMA JobsResolvePack ==
    ASSUME PrepInv, JobsInv, ResolvePack
    PROVE  JobsInv'
<1>1. /\ stage = "packs" /\ stage' = "packs" /\ UNCHANGED resolverVars /\ packAt \in DOMAIN job.packs
      /\ packAt' = packAt + 1 /\ UNCHANGED <<visits, visited, jobs>>
  BY DEF ResolvePack
<1>2. dag' = dag
  BY <1>1, ResolverFrame DEF PrepInv
<1>3. PICK paths \in {job.paths, Append(job.paths, job.packs[packAt])},
           ready \in {job.ready, Append(job.ready, [pack |-> job.packs[packAt], deps |-> job.paths])} :
           job' = [job EXCEPT !.paths = paths, !.ready = ready]
  BY DEF ResolvePack
<1>4. DOMAIN job = DOMAIN NoJob
  BY DEF JobsInv, Preparing, VisitInv
<1>5. /\ DOMAIN job' = DOMAIN NoJob /\ job'.targets = job.targets /\ job'.topo = job.topo
      /\ job'.packs = job.packs /\ job'.paths = paths /\ job'.ready = ready
  BY <1>3, <1>4 DEF NoJob
<1>6. packAt \in Nat \ {0} /\ Through(job, packAt)
  BY <1>1 DEF JobsInv, PacksInv
<1>7. Through(job', packAt + 1)
  BY <1>1, <1>3, <1>5, <1>6, ThroughNext
<1>8. packAt + 1 <= Len(job.packs) + 1 /\ packAt + 1 \in Nat \ {0}
  <2>1. Len(job.packs) \in Nat /\ DOMAIN job.packs = 1..Len(job.packs)
    BY <1>6, LenProperties DEF Through
  <2> QED
    BY <1>1, <2>1
<1>9. VisitInv'
  BY <1>1, <1>2, <1>5 DEF JobsInv, Preparing, VisitInv
<1>10. PacksInv'
  BY <1>1, <1>2, <1>5, <1>7, <1>8 DEF JobsInv, PacksInv
<1> QED
  BY <1>9, <1>10 DEF JobsInv

LEMMA JobsEnd ==
    ASSUME PrepInv, JobsInv, EndJob
    PROVE  JobsInv'
<1>1. /\ stage = "packs" /\ stage' = "match" /\ UNCHANGED resolverVars /\ packAt \notin DOMAIN job.packs
      /\ jobs' = Append(jobs, job) /\ job' = NoJob /\ UNCHANGED <<visits, visited, packAt>>
  BY DEF EndJob
<1>2. dag' = dag
  BY <1>1, ResolverFrame DEF PrepInv
<1>3. packAt \in Nat \ {0} /\ Through(job, packAt) /\ packAt <= Len(job.packs) + 1
  BY <1>1 DEF JobsInv, PacksInv
<1>4. packAt = Len(job.packs) + 1
  <2>1. Len(job.packs) \in Nat /\ DOMAIN job.packs = 1..Len(job.packs)
    BY <1>3, LenProperties DEF Through
  <2> QED
    BY <1>1, <1>3, <2>1
<1>5. ToSet(jobs') = ToSet(jobs) \cup {job}
  BY <1>1, AppendFacts DEF PrepInv, MatchInv
<1>6. VisitInv'
  <2>1. job'.targets \subseteq PacksIn(dag')
    BY <1>1, NoJobFacts
  <2> QED
    BY <1>1, <1>2, <2>1, NoJobFacts DEF JobsInv, Preparing, VisitInv
<1>7. PacksInv'
  <2>1. \A j \in ToSet(jobs') : /\ j.targets \subseteq PacksIn(dag) /\ TopoOf(dag, j.targets, j.topo)
                                /\ Through(j, Len(j.packs) + 1)
    BY <1>3, <1>4, <1>5 DEF JobsInv, PacksInv, VisitInv
  <2> QED
    BY <1>1, <1>2, <1>3, <2>1, NoJobFacts DEF PacksInv
<1> QED
  BY <1>6, <1>7 DEF JobsInv

-----------------------------------------------------------------------------
(* The types of the plan.                                                  *)

Kinds == {"build", "reuse"}

(* What is known of the package at hand.                                   *)
TypedPackage(a) ==
    /\ IsVersion(a.version) /\ a.action \in Kinds /\ a.wheelAction \in Kinds
    /\ ToSet(a.packs) \subseteq ToSet(Pack)

TypedNode(n) == n.action \in Kinds /\ (n.type = "pack" => n.name \in ToSet(Pack))

TypedLine(n) == n.name \in Name /\ IsVersion(n.version) /\ n.action \in Kinds

TypeInv ==
    /\ opts \in OptionSets
    /\ hasInput \in BOOLEAN /\ depTruncated \in BOOLEAN
    /\ todo \subseteq DOMAIN depSeen
    /\ \A n \in DOMAIN depSeen : IsVersion(depSeen[n])
    /\ adding # NoPackage => TypedPackage(adding)
    /\ ToSet(calls) \subseteq ToSet(Pack)
    /\ \A i \in DOMAIN plan : TypedLine(plan[i])
    /\ \A i \in DOMAIN dag : TypedNode(dag[i])

-----------------------------------------------------------------------------
LEMMA VersionFacts ==
    /\ IsVersion(NoVersion) /\ IsVersion(Latest)
    /\ \A v : IsVersion(v) => IsVersion(TrimEq(v))
    /\ \A v, a : IsVersion(v) /\ IsVersion(a) => IsVersion(Resolved(v, a))
<1>1. \A v : IsVersion(Pin(v))
  BY DEF IsVersion, Pin
<1> QED
  BY <1>1 DEF IsVersion, Latest, TrimEq, Resolved

LEMMA NamedVersions ==
    ASSUME NEW q, AreLines(q)
    PROVE  \A i \in DOMAIN Named(q) : IsVersion(Named(q)[i].version)
<1> DEFINE I == {i \in DOMAIN q : q[i].name # NoName}
<1>1. Len(q) \in Nat /\ DOMAIN q = 1..Len(q)
  BY LenProperties DEF AreLines
<1>2. I \in SUBSET (1..Len(q)) /\ \A i \in I : IsVersion(q[i].version)
  BY <1>1 DEF AreLines
<1>3. Named(q) = [n \in 1..Cardinality(I) |-> q[Nth(I, n)]]
  BY DEF Named, AtPlaces
<1> HIDE DEF I
<1>4. Cardinality(I) \in Nat /\ \A n \in 1..Cardinality(I) : Nth(I, n) \in I
  BY <1>1, <1>2, NthFacts
<1> QED
  BY <1>2, <1>3, <1>4

LEMMA ParsedVersions ==
    ASSUME NEW q, AreLines(q)
    PROVE  /\ \A i \in DOMAIN loadRequirements(q) : IsVersion(loadRequirements(q)[i].version)
           /\ \A i \in DOMAIN parseRequiresDist(q) : IsVersion(parseRequiresDist(q)[i].version)
           /\ \A n \in DOMAIN loadConstraints(q) : IsVersion(loadConstraints(q)[n])
<1>1. PICK r : r = Named(q)
  OBVIOUS
<1>2. \A i \in DOMAIN r : IsVersion(r[i].version)
  BY <1>1, NamedVersions
<1>3. PICK k \in Nat : DOMAIN r = 1..k
  BY <1>1, NamedIsList
<1>4. \A i \in DOMAIN loadRequirements(q) : IsVersion(loadRequirements(q)[i].version)
  <2>1. loadRequirements(q) = [i \in DOMAIN r |-> [name |-> Norm[r[i].name], version |-> TrimEq(r[i].version)]]
    BY <1>1 DEF loadRequirements
  <2> QED
    BY <1>2, <2>1, VersionFacts
<1>5. \A i \in DOMAIN parseRequiresDist(q) : IsVersion(parseRequiresDist(q)[i].version)
  <2>1. parseRequiresDist(q) = [i \in DOMAIN r |-> [name |-> Norm[r[i].name], version |-> r[i].version]]
    BY <1>1 DEF parseRequiresDist
  <2> QED
    BY <1>2, <2>1
<1>6. ASSUME NEW n \in DOMAIN loadConstraints(q) PROVE IsVersion(loadConstraints(q)[n])
  <2>1. PICK S : S = {i \in DOMAIN r : Norm[r[i].name] = n}
    OBVIOUS
  <2>2. PICK l : l = CHOOSE i \in S : \A j \in S : j <= i
    OBVIOUS
  <2>3. /\ DOMAIN loadConstraints(q) = {Norm[r[i].name] : i \in DOMAIN r}
        /\ loadConstraints(q)[n] = TrimEq(r[l].version)
    BY <1>1, <1>6, <2>1, <2>2 DEF loadConstraints
  <2>4. S # {} /\ S \in SUBSET (1..k)
    BY <1>3, <1>6, <2>1, <2>3
  <2>5. \E i \in S : \A j \in S : j <= i
    BY <2>4, LastPlace
  <2>6. l \in S
    BY <2>2, <2>5
  <2> QED
    BY <1>2, <2>1, <2>3, <2>6, VersionFacts
<1> QED
  BY <1>4, <1>5, <1>6

(* The versions the options and the input give.                            *)
LEMMA GivenVersions ==
    ASSUME LoopInv, TypeInv
    PROVE  /\ \A i \in DOMAIN reqs : IsVersion(reqs[i].version)
           /\ \A i \in DOMAIN wheels : /\ IsVersion(wheels[i].version)
                                       /\ \A k \in DOMAIN parseRequiresDist(wheels[i].requires) :
                                             IsVersion(parseRequiresDist(wheels[i].requires)[k].version)
           /\ \A n \in DOMAIN constraints : IsVersion(constraints[n])
           /\ \A n \in DOMAIN overrides : IsVersion(overrides[n])
           /\ \A a \in Answers : IsVersion(a)
<1>1. \A i \in DOMAIN reqs : IsVersion(reqs[i].version)
  <2>1. AreLines(input.reqs)
    BY ResolverAssumption DEF LoopInv
  <2> QED
    BY <2>1, ParsedVersions DEF reqs
<1>2. ASSUME NEW i \in DOMAIN wheels
      PROVE  /\ IsVersion(wheels[i].version)
             /\ \A k \in DOMAIN parseRequiresDist(wheels[i].requires) :
                   IsVersion(parseRequiresDist(wheels[i].requires)[k].version)
  <2>1. AreLines(input.wheels) /\ AreLines(wheels[i].requires)
    BY <1>2, ResolverAssumption DEF LoopInv, wheels
  <2> QED
    BY <1>2, <2>1, ParsedVersions DEF wheels, AreLines
<1>3. \A n \in DOMAIN constraints : IsVersion(constraints[n])
  <2>1. AreLines(opts.constraints)
    BY ResolverAssumption DEF TypeInv
  <2> QED
    BY <2>1, ParsedVersions DEF constraints
<1>4. ASSUME NEW n \in DOMAIN overrides PROVE IsVersion(overrides[n])
  <2>1. PICK f : f = opts.overrides
    OBVIOUS
  <2>2. \A m \in DOMAIN f : IsVersion(f[m])
    BY <2>1, ResolverAssumption DEF TypeInv
  <2>3. /\ DOMAIN overrides = {Norm[m] : m \in DOMAIN f}
        /\ overrides[n] = f[CHOOSE m \in DOMAIN f : Norm[m] = n]
    BY <1>4, <2>1 DEF overrides, loadOverridesFromEnv
  <2> QED
    BY <1>4, <2>2, <2>3
<1> QED
  BY <1>1, <1>2, <1>3, <1>4, ResolverAssumption

LEMMA SelectTyped ==
    ASSUME NEW n
    PROVE  ToSet(selectPacks(n)) \subseteq ToSet(Pack)
BY SelectPacksIsList

LEMMA AddNodeTyped ==
    ASSUME NEW n, NEW v, IsVersion(v), NEW s, NEW a \in Kinds, NEW b \in Kinds, AddNode(n, v, s, a, b)
    PROVE  TypedPackage(adding')
BY SelectTyped DEF AddNode, TypedPackage

LEMMA AddBuildTyped ==
    ASSUME NEW n, NEW v, IsVersion(v), AddBuild(n, v)
    PROVE  adding' = adding \/ TypedPackage(adding')
<1>1. "build" \in Kinds /\ Action("wheel") \in Kinds
  BY DEF Kinds, Action
<1> QED
  BY <1>1, AddNodeTyped DEF AddBuild

(* A step of the loops.                                                    *)
LEMMA TypeLoop ==
    ASSUME TypeInv, UNCHANGED <<opts, plan, dag, calls>>,
           adding' = adding \/ TypedPackage(adding'),
           hasInput' \in BOOLEAN, depTruncated' \in BOOLEAN, todo' \subseteq DOMAIN depSeen',
           \A n \in DOMAIN depSeen' : IsVersion(depSeen'[n])
    PROVE  TypeInv'
BY DEF TypeInv

LEMMA PutVersions ==
    ASSUME NEW f, NEW n, NEW v, \A m \in DOMAIN f : IsVersion(f[m]), IsVersion(v)
    PROVE  /\ \A m \in DOMAIN Put(f, n, v) : IsVersion(Put(f, n, v)[m])
           /\ DOMAIN f \subseteq DOMAIN Put(f, n, v)
BY DEF Put

LEMMA TypeRequirement ==
    ASSUME LoopInv, TypeInv, PlanRequirement
    PROVE  TypeInv'
<1>1. PICK answer \in (IF IsOpen(reqs[at].version) THEN Answers ELSE {NoVersion}) :
          /\ depSeen' = Put(depSeen, reqs[at].name, Resolved(reqs[at].version, answer))
          /\ AddBuild(reqs[at].name, Resolved(reqs[at].version, answer))
  BY DEF PlanRequirement
<1>2. PICK n, v : n = reqs[at].name /\ v = Resolved(reqs[at].version, answer)
  OBVIOUS
<1>3. /\ at \in DOMAIN reqs /\ UNCHANGED <<opts, plan, dag, calls, todo>> /\ hasInput' = TRUE
      /\ (depTruncated' <=> depTruncated) /\ depTruncated' \in BOOLEAN
  BY DEF PlanRequirement, TypeInv
<1>4. IsVersion(v)
  BY <1>1, <1>2, <1>3, GivenVersions, VersionFacts
<1>5. adding' = adding \/ TypedPackage(adding')
  BY <1>1, <1>2, <1>4, AddBuildTyped
<1>6. /\ \A m \in DOMAIN depSeen' : IsVersion(depSeen'[m])
      /\ DOMAIN depSeen \subseteq DOMAIN depSeen'
  BY <1>1, <1>2, <1>4, PutVersions DEF TypeInv
<1> QED
  BY <1>3, <1>5, <1>6, TypeLoop DEF TypeInv

LEMMA TypeRequireDep ==
    ASSUME LoopInv, TypeInv, RequireDep
    PROVE  TypeInv'
<1>1. /\ at \in DOMAIN wheels /\ depAt \in DOMAIN requires /\ UNCHANGED <<opts, plan, dag, calls, todo, adding>>
      /\ hasInput' = TRUE
  BY DEF RequireDep, AtWheel, nodeVars
<1>2. IsVersion(requires[depAt].version)
  BY <1>1, GivenVersions DEF requires
<1>3. /\ depTruncated' \in BOOLEAN
      /\ \/ depSeen' = depSeen
         \/ \E answer \in Answers \cup {NoVersion} :
               depSeen' = Put(depSeen, requires[depAt].name, Resolved(requires[depAt].version, answer))
  BY DEF RequireDep, Expand, TypeInv
<1>4. \A a \in Answers \cup {NoVersion} : IsVersion(Resolved(requires[depAt].version, a))
  BY <1>2, GivenVersions, VersionFacts
<1>5. /\ \A m \in DOMAIN depSeen' : IsVersion(depSeen'[m])
      /\ DOMAIN depSeen \subseteq DOMAIN depSeen'
  BY <1>3, <1>4, PutVersions DEF TypeInv
<1> QED
  BY <1>1, <1>3, <1>5, TypeLoop DEF TypeInv

LEMMA TypePlanWheel ==
    ASSUME LoopInv, TypeInv, PlanWheel
    PROVE  TypeInv'
<1>1. /\ at \in DOMAIN wheels /\ UNCHANGED <<opts, plan, dag, calls, todo, depSeen>>
      /\ hasInput' = TRUE /\ (depTruncated' <=> depTruncated) /\ depTruncated' \in BOOLEAN
  BY DEF PlanWheel, AtWheel, TypeInv
<1>2. PICK w, s, o : /\ w = wheels[at] /\ o = TrimEq(overrides[Norm[w.name]])
                     /\ s = IF w.digest THEN <<"file", w.name, w.version>> ELSE sourceDigest(w.name, w.version)
  OBVIOUS
<1>3. IsVersion(w.version)
  BY <1>1, <1>2, GivenVersions
<1>4. Norm[w.name] \in DOMAIN overrides => IsVersion(o)
  BY <1>2, GivenVersions, VersionFacts
<1>5. "build" \in Kinds /\ "reuse" \in Kinds /\ Action("wheel") \in Kinds
  BY DEF Kinds, Action
<1>6. \/ Norm[w.name] \in DOMAIN overrides /\ AddBuild(w.name, o)
      \/ adding' = adding
      \/ AddNode(w.name, w.version, s, "reuse", "reuse")
      \/ AddNode(w.name, w.version, s, "build", Action("wheel"))
  BY <1>2 DEF PlanWheel
<1>7. adding' = adding \/ TypedPackage(adding')
  BY <1>3, <1>4, <1>5, <1>6, AddBuildTyped, AddNodeTyped
<1> QED
  BY <1>1, <1>7, TypeLoop DEF TypeInv

LEMMA TypePlanDep ==
    ASSUME LoopInv, TypeInv, NEW n \in todo, PlanDep(n)
    PROVE  TypeInv'
<1> DEFINE chosen == IF n \in DOMAIN constraints /\ constraints[n] # NoVersion THEN constraints[n]
                     ELSE IF n \in DOMAIN overrides /\ overrides[n] # NoVersion
                     THEN TrimEq(overrides[n]) ELSE depSeen[n]
<1>1. PICK a1 \in (IF chosen = NoVersion THEN Answers ELSE {chosen}),
           a2 \in (IF opts.eager THEN Answers ELSE {NoVersion}) :
           AddBuild(n, Resolved(IF a1 = NoVersion THEN Latest ELSE a1, a2))
  BY DEF PlanDep
<1>2. /\ UNCHANGED <<opts, plan, dag, calls, depSeen>> /\ todo' \subseteq todo
      /\ (depTruncated' <=> depTruncated) /\ depTruncated' \in BOOLEAN
      /\ (hasInput' <=> hasInput) /\ hasInput' \in BOOLEAN
  BY DEF PlanDep, TypeInv
<1>3. IsVersion(chosen)
  <2>1. IsVersion(depSeen[n])
    BY DEF TypeInv
  <2> QED
    BY <2>1, GivenVersions, VersionFacts
<1> HIDE DEF chosen
<1>4. IsVersion(a1) /\ IsVersion(a2)
  BY <1>1, <1>3, GivenVersions, VersionFacts
<1>5. PICK v : v = Resolved(IF a1 = NoVersion THEN Latest ELSE a1, a2)
  OBVIOUS
<1>6. IsVersion(v)
  BY <1>4, <1>5, VersionFacts
<1>7. adding' = adding \/ TypedPackage(adding')
  BY <1>1, <1>5, <1>6, AddBuildTyped
<1> QED
  BY <1>2, <1>7, TypeLoop DEF TypeInv

LEMMA TypeOther ==
    ASSUME TypeInv, RequirementsDone \/ SkipWheel \/ WheelsDone \/ Finish
    PROVE  TypeInv'
<1>1. /\ UNCHANGED <<opts, plan, dag, calls, adding, depSeen>> /\ todo' \subseteq DOMAIN depSeen
      /\ depTruncated' \in BOOLEAN /\ hasInput' \in BOOLEAN
  BY DEF RequirementsDone, SkipWheel, WheelsDone, Finish, nodeVars, TypeInv
<1> QED
  BY <1>1, TypeLoop DEF TypeInv

LEMMA WantedTyped ==
    ASSUME TypeInv, adding # NoPackage, NEW i \in DOMAIN Wanted
    PROVE  Wanted[i] \in ToSet(Pack)
<1>1. opts.catalog \subseteq ToSet(Pack)
  BY ResolverAssumption DEF TypeInv
<1>2. CASE calls = <<>>
  BY <1>2 DEF Wanted, TypeInv, TypedPackage, ToSet
<1>3. CASE calls # <<>>
  <2>1. PICK p : p = Last(calls)
    OBVIOUS
  <2>2. Wanted = packDependencies(p)
    BY <1>3, <2>1 DEF Wanted
  <2> DEFINE q == IF p \in DOMAIN PackTable THEN PackTable[p] ELSE <<>>
             S == {m \in DOMAIN q : q[m] \in opts.catalog}
  <2>3. PICK k \in Nat : DOMAIN q = 1..k
    BY TableIsList
  <2>4. S \in SUBSET (1..k) /\ packDependencies(p) = AtPlaces(q, S) /\ {q[m] : m \in S} \subseteq ToSet(Pack)
    BY <1>1, <2>3 DEF packDependencies
  <2> HIDE DEF q, S
  <2>5. /\ DOMAIN AtPlaces(q, S) = 1..Cardinality(S)
        /\ {AtPlaces(q, S)[m] : m \in 1..Cardinality(S)} = {q[m] : m \in S}
    BY <2>3, <2>4, AtPlacesIsList
  <2> QED
    BY <2>2, <2>4, <2>5
<1> QED
  BY <1>2, <1>3

LEMMA TypeCall ==
    ASSUME NodesInv, TypeInv, CallAddPack
    PROVE  TypeInv'
<1>1. PICK i \in Missing : calls' = Append(calls, Wanted[i])
  BY DEF CallAddPack
<1>2. adding # NoPackage /\ UNCHANGED <<opts, loopVars, plan, dag, adding>>
  BY DEF CallAddPack
<1>3. PICK p : p = Wanted[i]
  OBVIOUS
<1>4. p \in ToSet(Pack)
  BY <1>2, <1>3, WantedTyped DEF Missing
<1>5. ToSet(calls') = ToSet(calls) \cup {p}
  BY <1>1, <1>3, AppendFacts DEF NodesInv
<1> QED
  BY <1>2, <1>4, <1>5 DEF TypeInv, loopVars

LEMMA TypePack ==
    ASSUME NodesInv, TypeInv, addPack
    PROVE  TypeInv'
<1>1. PICK p, n : /\ p = Last(calls)
                  /\ n = Node("pack", PackId(p), packIds(packDependencies(p)), p, NoVersion, Action(p))
  OBVIOUS
<1>2. /\ calls # <<>> /\ dag' = Append(dag, n) /\ calls' = Front(calls)
      /\ UNCHANGED <<opts, loopVars, plan, adding>>
  BY <1>1 DEF addPack
<1>3. p \in ToSet(Pack) /\ ToSet(calls') \subseteq ToSet(Pack)
  BY <1>1, <1>2, FrontFacts DEF NodesInv, TypeInv
<1>4. TypedNode(n)
  BY <1>1, <1>3 DEF Node, TypedNode, Action, Kinds
<1>5. \A i \in DOMAIN dag' : TypedNode(dag'[i])
  BY <1>2, <1>4, AppendFacts DEF NodesInv, TypeInv
<1> QED
  BY <1>2, <1>3, <1>5 DEF TypeInv, loopVars

LEMMA TypeWheel ==
    ASSUME FlatInv, NodesInv, TypeInv, AddWheel
    PROVE  TypeInv'
<1>1. PICK p, e : p = adding /\ e = [name |-> p.name, version |-> p.version, action |-> p.action]
  OBVIOUS
<1>2. PICK id, w, r :
        /\ id = WheelId(p.source, p.packs)
        /\ w = Node("wheel", id, <<RuntimeId>> \o packIds(p.packs), p.name, p.version, p.wheelAction)
        /\ r = Node("repair", RepairId(id), <<id>>, p.name, p.version, Action("repair"))
  OBVIOUS
<1>3. /\ adding # NoPackage /\ calls = <<>> /\ calls' = calls /\ adding' = NoPackage
      /\ plan' = Append(plan, e) /\ dag' = Append(Append(dag, w), r) /\ UNCHANGED <<opts, loopVars>>
  BY <1>1, <1>2 DEF AddWheel
<1>4. TypedPackage(p) /\ p.name \in Name
  BY <1>1, <1>3 DEF TypeInv, FlatInv
<1>5. TypedNode(w) /\ TypedNode(r)
  BY <1>2, <1>4 DEF TypedPackage, TypedNode, Node, Action, Kinds
<1>6. TypedLine(e)
  BY <1>1, <1>4 DEF TypedPackage, TypedLine
<1>7. \A i \in DOMAIN plan' : TypedLine(plan'[i])
  BY <1>3, <1>6, AppendFacts DEF FlatInv, TypeInv
<1>8. PICK q : q = Append(dag, w)
  OBVIOUS
<1>9. (\A i \in DOMAIN q : TypedNode(q[i])) /\ q \in Seq(ToSet(q))
  BY <1>5, <1>8, AppendFacts DEF NodesInv, TypeInv
<1>10. \A i \in DOMAIN dag' : TypedNode(dag'[i])
  <2>1. dag' = Append(q, r)
    BY <1>3, <1>8
  <2> QED
    BY <1>5, <1>9, <2>1, AppendFacts
<1> QED
  BY <1>3, <1>7, <1>10 DEF TypeInv, loopVars

LEMMA TypeStart ==
    ResolverInit => TypeInv
<1> SUFFICES ASSUME ResolverInit PROVE TypeInv
  OBVIOUS
<1>1. PICK n : n = Node("runtime", RuntimeId, <<>>, NoName, NoVersion, Action("runtime"))
  OBVIOUS
<1>2. TypedNode(n)
  BY <1>1 DEF Node, TypedNode, Action, Kinds
<1>3. dag = <<n>> /\ DOMAIN dag = {1} /\ dag[1] = n
  BY <1>1 DEF ResolverInit
<1>4. DOMAIN depSeen = {} /\ DOMAIN plan = {} /\ ToSet(calls) = {} /\ todo = {} /\ adding = NoPackage
      /\ hasInput = FALSE /\ depTruncated = FALSE /\ opts \in OptionSets
  BY DEF ResolverInit, ToSet
<1> QED
  BY <1>2, <1>3, <1>4 DEF TypeInv

LEMMA TypeStep ==
    ResolverInv /\ NodesInv /\ TypeInv /\ ResolverNext => TypeInv'
BY TypeRequirement, TypeRequireDep, TypePlanWheel, TypePlanDep, TypeOther, TypeCall, TypePack, TypeWheel
   DEF ResolverNext, ResolverInv

-----------------------------------------------------------------------------
(* The whole invariant.                                                    *)

(* All that is invariant from the input set to the jobs.                   *)
PathInv == packPath \subseteq PackIds
PlanJobsInv == PrepInv /\ NodesInv /\ JobsInv /\ TypeInv /\ PathInv

-----------------------------------------------------------------------------
(* The packs of the DAG are packs.                                         *)
LEMMA PacksAreKnown ==
    ASSUME NodesInv, TypeInv
    PROVE  PacksIn(dag) \subseteq PackIds
<1> SUFFICES ASSUME NEW i \in DOMAIN dag, dag[i].type = "pack" PROVE dag[i].id \in PackIds
  BY DEF PacksIn, Places
<1>1. GoodNode(dag[i]) /\ TypedNode(dag[i])
  BY DEF NodesInv, Ordered, TypeInv
<1>2. dag[i].id = PackId(dag[i].name) /\ dag[i].name \in ToSet(Pack)
  BY <1>1 DEF GoodNode, TypedNode
<1> QED
  BY <1>2 DEF PackIds

(* A drain leaves the plan alone.                                          *)
LEMMA DrainFrame ==
    ASSUME PlanJobsInv, UNCHANGED resolverVars
    PROVE  NodesInv' /\ TypeInv'
<1>1. UNCHANGED <<opts, loopVars, plan, dag, calls, adding>>
  BY DEF resolverVars, nodeVars
<1>2. NodesInv'
  BY <1>1, NodesLoop DEF PlanJobsInv
<1>3. TypeInv'
  BY <1>1 DEF PlanJobsInv, TypeInv, loopVars
<1> QED
  BY <1>2, <1>3

LEMMA PathStep ==
    ASSUME PlanJobsInv, ResolvePack
    PROVE  PathInv'
<1>1. PICK id : id = job.packs[packAt]
  OBVIOUS
<1>2. packAt \in DOMAIN job.packs /\ stage = "packs" /\ packPath' \in {packPath, packPath \cup {id}}
  BY <1>1 DEF ResolvePack
<1>3. job.packs \in Seq(job.targets) /\ job.targets \subseteq PacksIn(dag)
  BY <1>2 DEF PlanJobsInv, JobsInv, VisitInv, PacksInv, Through
<1>4. id \in PackIds
  BY <1>1, <1>2, <1>3, ElementOfSeq, LenProperties, PacksAreKnown DEF PlanJobsInv
<1> QED
  BY <1>2, <1>4 DEF PlanJobsInv, PathInv

LEMMA PlanJobsStep ==
    PlanJobsInv /\ [Next]_vars => PlanJobsInv'
<1> SUFFICES ASSUME PlanJobsInv, [Next]_vars PROVE PlanJobsInv'
  OBVIOUS
<1>1. PrepInv /\ NodesInv /\ JobsInv /\ TypeInv /\ PathInv
  BY DEF PlanJobsInv
<1>2. PrepInv'
  BY <1>1, PrepStep
<1>3. CASE ResolverNext /\ UNCHANGED prepVars
  <2>1. ResolverInv /\ FlatInv
    BY <1>1 DEF PrepInv, ResolverInv
  <2>2. NodesInv' /\ TypeInv' /\ JobsInv'
    BY <1>1, <1>3, <2>1, NodesStep, TypeStep, JobsResolver
  <2>3. PathInv'
    BY <1>1, <1>3 DEF prepVars, PathInv
  <2> QED
    BY <1>2, <2>2, <2>3 DEF PlanJobsInv
<1>4. CASE ~ResolverNext \/ ~UNCHANGED prepVars
  <2>1. \/ QueueBuilds \/ Drain \/ BeginJob \/ Visit \/ EndVisit \/ BeginPacks
        \/ ResolvePack \/ EndJob \/ Matched \/ UNCHANGED vars
    BY <1>4 DEF Next
  <2>2. UNCHANGED resolverVars
    BY <2>1 DEF QueueBuilds, Drain, BeginJob, Visit, EndVisit, BeginPacks, ResolvePack, EndJob, Matched, vars
  <2>3. NodesInv' /\ TypeInv'
    BY <2>2, DrainFrame
  <2>4. JobsInv'
    BY <1>1, <2>1, JobsAlone, JobsBegin, JobsVisit, JobsEndVisit, JobsBeginPacks, JobsResolvePack, JobsEnd
  <2>5. PathInv'
    <3>1. CASE ResolvePack
      BY <3>1, PathStep
    <3>2. CASE ~ResolvePack
      <4>1. packPath' = packPath
        BY <2>1, <3>2
           DEF QueueBuilds, Drain, BeginJob, Visit, EndVisit, BeginPacks, EndJob, Matched, vars, prepVars
      <4> QED
        BY <1>1, <4>1 DEF PathInv
    <3> QED
      BY <3>1, <3>2
  <2> QED
    BY <1>2, <2>3, <2>4, <2>5 DEF PlanJobsInv
<1> QED
  BY <1>3, <1>4

LEMMA PlanJobsInvariant ==
    Spec => []PlanJobsInv
<1>1. Init => PlanJobsInv
  <2>1. Init => ResolverInit /\ PathInv
    BY DEF Init, PathInv
  <2> QED
    BY <2>1, PrepStart, NodesStart, JobsStart, TypeStart DEF PlanJobsInv
<1> QED
  BY <1>1, PlanJobsStep, PTL DEF Spec

-----------------------------------------------------------------------------
(* The theorems.                                                           *)

(* A plan that computeWithResolverInputs reports as planned holds every
   requirement, every wheel and everything a wheel requires, for any input
   set and cap, however the index answers and in any order of the map.     *)
THEOREM PlanLeavesNothingOut ==
    Spec => []NothingLeftOut
<1>1. PrepInv => NothingLeftOut
  BY PlanIsComplete DEF PrepInv
<1> QED
  BY <1>1, PrepInvariant, PTL

(* match gives every leased row of the plan a job for exactly its package
   and version.                                                            *)
THEOREM LeasesHaveJobs ==
    Spec => []LeaseHasJob
<1>1. PrepInv => LeaseHasJob
  <2> SUFFICES ASSUME PrepInv, stage = "done", NEW i \in DOMAIN batch, batch[i] \in queued
               PROVE  \E j \in ToSet(jobs) : j.req = i /\ <<j.name, j.version>> = batch[i]
    BY DEF LeaseHasJob
  <2>1. PICK p \in DOMAIN plan : plan[p].version # NoVersion /\ batch[i] = PairAt(p)
    BY DEF PrepInv, BatchInv
  <2>2. Wants(batch[i], plan[p])
    BY <2>1 DEF Wants, equalsIgnoreCase, PairAt
  <2>3. <<i, p>> \in Matches
    BY <2>1, <2>2 DEF Matches
  <2>4. PICK k \in DOMAIN jobs : JobOf(jobs[k], <<i, p>>)
    BY <2>3 DEF PrepInv, MatchInv, Preparing
  <2>5. jobs[k].req = i /\ <<jobs[k].name, jobs[k].version>> = batch[i]
    BY <2>1, <2>4 DEF JobOf, PairAt
  <2> QED
    BY <2>5 DEF ToSet
<1> QED
  BY <1>1, PrepInvariant, PTL

(* match makes at most one job for a package at one version, unless two
   requests differ only in the case of the name or one asks for "latest".  *)
THEOREM DrainBuildsOnce ==
    Spec => []BuiltOnce
<1>1. PrepInv => BuiltOnce
  <2> SUFFICES ASSUME PrepInv, stage = "done", NEW i \in DOMAIN jobs, NEW k \in DOMAIN jobs, i # k,
                      jobs[i].name = jobs[k].name, jobs[i].version = jobs[k].version,
                      Latest \notin {batch[jobs[i].req][2], batch[jobs[k].req][2]}
               PROVE  /\ batch[jobs[i].req][1] # batch[jobs[k].req][1]
                      /\ equalsIgnoreCase(batch[jobs[i].req][1], batch[jobs[k].req][1])
    BY DEF BuiltOnce
  <2>1. PICK x \in Matches, y \in Matches : JobOf(jobs[i], x) /\ JobOf(jobs[k], y)
    BY DEF PrepInv, MatchInv
  <2>2. /\ x[1] \in DOMAIN batch /\ x[2] \in DOMAIN plan /\ Wants(batch[x[1]], plan[x[2]])
        /\ y[1] \in DOMAIN batch /\ y[2] \in DOMAIN plan /\ Wants(batch[y[1]], plan[y[2]])
    BY MatchFacts DEF PrepInv, ResolverInv
  <2>3. PairAt(x[2]) = PairAt(y[2])
    BY <2>1 DEF JobOf, PairAt
  <2>4. x[2] = y[2]
    BY <2>2, <2>3 DEF PrepInv, ResolverInv, FlatInv
  <2>5. jobs[i].req = x[1] /\ jobs[k].req = y[1] /\ x[1] # y[1]
    <3>1. jobs[i].req = x[1] /\ jobs[k].req = y[1]
      BY <2>1 DEF JobOf
    <3>2. jobs[i].req # jobs[k].req
      BY DEF PrepInv, MatchInv
    <3> QED
      BY <3>1, <3>2
  <2>6. equalsIgnoreCase(batch[x[1]][1], batch[y[1]][1])
    BY <2>2, <2>4 DEF Wants, equalsIgnoreCase
  <2>7. batch[x[1]] \in queued /\ batch[y[1]] \in queued /\ batch[x[1]] # batch[y[1]]
    BY <2>2, <2>5 DEF PrepInv, BatchInv
  <2>8. \A r \in queued : r = <<r[1], r[2]>> /\ r[2] # NoVersion
    BY DEF PrepInv, BatchInv, PairAt
  <2>9. batch[x[1]][2] = plan[x[2]].version /\ batch[y[1]][2] = plan[x[2]].version
    BY <2>2, <2>4, <2>5, <2>7, <2>8 DEF Wants
  <2>10. batch[x[1]][1] # batch[y[1]][1]
    BY <2>7, <2>8, <2>9
  <2> QED
    BY <2>5, <2>6, <2>10
<1> QED
  BY <1>1, PrepInvariant, PTL

(* DagInOrder: whatever the catalogue and the input set, addPack and the
   wheels put every node after what it needs, and no pack twice.           *)
THEOREM DagIsInOrder ==
    Spec => []DagInOrder
<1>1. PlanJobsInv => DagInOrder
  BY NodesInOrder DEF PlanJobsInv, PrepInv, ResolverInv
<1> QED
  BY <1>1, PlanJobsInvariant, PTL

(* FormsAgree: the flat plan and the wheels of the DAG, with their repairs,
   stay the same list while the resolver adds to both.                     *)
THEOREM PlanFormsAgree ==
    Spec => []FormsAgree
<1>1. PlanJobsInv => FormsAgree
  BY NodesInOrder DEF PlanJobsInv, PrepInv, ResolverInv
<1> QED
  BY <1>1, PlanJobsInvariant, PTL

(* DepsFirst: topoSortFromDag puts a pack after the targets it needs, in
   every order in which the targets are visited.                           *)
THEOREM PackDepsFirst ==
    Spec => []DepsFirst
<1>1. PlanJobsInv => DepsFirst
  <2> SUFFICES ASSUME PlanJobsInv, NEW i \in DOMAIN job.topo, NEW k \in DOMAIN job.topo,
                      job.topo[i] \in ToSet(PackNode(job.topo[k]).inputs)
               PROVE  i < k
    BY DEF DepsFirst
  <2>1. TopoOf(dag, job.targets, job.topo)
    BY DEF PlanJobsInv, JobsInv, VisitInv
  <2>2. job.topo[i] \in InputsIn(dag, job.topo[k])
    BY DEF InputsIn, NodeIn, PackNode
  <2>3. job.topo[i] \in job.targets
    BY <2>1, ElementOfSeq, LenProperties DEF TopoOf
  <2>4. PICK n \in DOMAIN job.topo : n < k /\ job.topo[n] = job.topo[i]
    BY <2>1, <2>2, <2>3 DEF TopoOf
  <2>5. n = i
    BY <2>1, <2>4 DEF TopoOf
  <2> QED
    BY <2>4, <2>5
<1> QED
  BY <1>1, PlanJobsInvariant, PTL

(* BuiltWithDeps: sortPacksByPriority, which sorts the packs of a job again
   and forgets topoSortFromDag's order, still builds every pack of its table
   after what it depends on.                                               *)
THEOREM PacksBuiltWithDeps ==
    Spec => []BuiltWithDeps
<1>1. PlanJobsInv => BuiltWithDeps
  <2> SUFFICES ASSUME PlanJobsInv, NEW j \in ToSet(jobs), NEW b \in ToSet(j.ready),
                      Priority(b.pack) > 0, NEW id \in ToSet(PackNode(b.pack).inputs),
                      id \in ToSet(j.paths)
               PROVE  id \in ToSet(b.deps)
    BY DEF BuiltWithDeps
  <2>1. j.targets \subseteq PacksIn(dag) /\ Through(j, Len(j.packs) + 1)
    BY DEF PlanJobsInv, JobsInv, PacksInv
  <2>2. PICK k \in DOMAIN j.packs :
          /\ b.pack = j.packs[k]
          /\ \A i \in DOMAIN j.packs : i < k /\ j.packs[i] \in ToSet(j.paths) => j.packs[i] \in ToSet(b.deps)
    BY <2>1 DEF Through
  <2>3. PICK i \in DOMAIN j.packs : j.packs[i] = id
    BY <2>1 DEF Through
  <2>4. PICK l \in Nat : DOMAIN j.packs = 1..l
    BY <2>1, LenProperties DEF Through
  <2>5. b.pack \in PacksIn(dag)
    BY <2>1, <2>2, ElementOfSeq, LenProperties DEF Through
  <2>6. id[2] \in DependsOn(b.pack[2])
    <3>1. id \in InputsIn(dag, b.pack)
      BY DEF InputsIn, NodeIn, PackNode
    <3> QED
      BY <2>5, <3>1, PackNodeFacts DEF PlanJobsInv, NodesInv
  <2>7. Priority(id) < Priority(b.pack)
    <3>1. \A p : Priority(PackId(p)) \in Nat /\ (p = "cpython" => Priority(PackId(p)) = 0)
      BY DEF Priority, PriorityTable, PackId
    <3>2. Priority(b.pack) = Priority(PackId(b.pack[2])) /\ Priority(id) = Priority(PackId(id[2]))
      BY DEF Priority, PackId
    <3>3. PackRank(b.pack[2]) = Priority(b.pack)
      BY <3>1, <3>2 DEF PackRank
    <3>4. PackRank(id[2]) < PackRank(b.pack[2]) /\ PackRank(b.pack[2]) \in Nat
      BY <2>6, DepsRankLower
    <3>5. PackRank(id[2]) = Priority(id) \/ (Priority(id) = 0 /\ Priority(b.pack) \in Nat)
      BY <3>1, <3>2 DEF PackRank
    <3> QED
      BY <3>3, <3>4, <3>5
  <2>8. i < k
    <3>1. ~(i < k) => k \in 1..i
      BY <2>2, <2>3, <2>4
    <3>2. k \in 1..i => Priority(b.pack) <= Priority(id)
      BY <2>1, <2>2, <2>3 DEF Through
    <3>3. Priority(b.pack) \in Nat /\ Priority(id) \in Nat
      BY DEF Priority, PriorityTable
    <3> QED
      BY <2>7, <3>1, <3>2, <3>3
  <2> QED
    BY <2>2, <2>3, <2>8
<1> QED
  BY <1>1, PlanJobsInvariant, PTL

(* TypeOK: the resolver's names are normalised and its versions well formed,
   and the jobs, their packs and their paths stay within the batch, the DAG
   and the catalogue.                                                      *)
THEOREM PrepTypeCorrect ==
    Spec => []TypeOK
<1>1. PlanJobsInv => TypeOK
  <2> SUFFICES ASSUME PlanJobsInv PROVE TypeOK
    OBVIOUS
  <2>1. PrepInv /\ NodesInv /\ JobsInv /\ TypeInv /\ PathInv /\ FlatInv /\ LoopInv /\ BatchInv /\ MatchInv
    BY DEF PlanJobsInv, PrepInv, ResolverInv
  <2>2. ResolverTypeOK
    <3>1. \A i \in DOMAIN dag : dag[i].type \in {"runtime", "pack", "wheel", "repair"}
      BY <2>1 DEF NodesInv, Ordered, GoodNode
    <3> QED
      BY <2>1, <3>1 DEF ResolverTypeOK, LoopInv, TypeInv, TypedNode, TypedLine, Kinds
  <2>3. queued \subseteq seen
    BY <2>1 DEF BatchInv, FlatInv
  <2>4. ASSUME NEW j \in ToSet(jobs)
        PROVE  /\ j.req \in DOMAIN batch /\ ToSet(j.paths) \subseteq ToSet(j.packs)
               /\ j.targets \subseteq PackIds /\ ToSet(j.packs) = j.targets
               /\ ToSet(j.topo) \subseteq j.targets
    <3>1. PICK k \in DOMAIN jobs : j = jobs[k]
      BY DEF ToSet
    <3>2. PICK x \in Matches : JobOf(jobs[k], x)
      BY <2>1 DEF MatchInv
    <3>3. j.req \in DOMAIN batch
      BY <2>1, <3>1, <3>2, MatchFacts DEF JobOf
    <3>4. j.targets \subseteq PacksIn(dag) /\ Through(j, Len(j.packs) + 1)
      BY <2>1 DEF JobsInv, PacksInv
    <3>5. ToSet(j.paths) \subseteq ToSet(j.packs)
      BY <3>4 DEF Through, ToSet
    <3>6. ToSet(j.topo) \subseteq j.targets
      BY <2>1, IsOwnList DEF JobsInv, PacksInv, TopoOf
    <3> QED
      BY <2>1, <3>3, <3>4, <3>5, <3>6, PacksAreKnown DEF Through
  <2>5. /\ job.req \in DOMAIN batch \cup {0} /\ ToSet(job.paths) \subseteq ToSet(job.packs)
        /\ job.targets \subseteq PackIds
    <3>1. job.targets \subseteq PackIds
      BY <2>1, PacksAreKnown DEF JobsInv, VisitInv
    <3>2. CASE Preparing
      <4>1. job.req \in DOMAIN batch
        BY <2>1, <3>2, MatchFacts DEF MatchInv, JobOf
      <4>2. ToSet(job.paths) \subseteq ToSet(job.packs)
        <5>1. CASE stage = "packs"
          <6>1. \A id \in ToSet(job.paths) : \E i \in DOMAIN job.packs : job.packs[i] = id
            BY <2>1, <5>1 DEF JobsInv, PacksInv, Through
          <6> QED
            BY <6>1 DEF ToSet
        <5>2. CASE stage # "packs"
          BY <2>1, <5>2 DEF JobsInv, PacksInv
        <5> QED
          BY <5>1, <5>2
      <4> QED
        BY <3>1, <4>1, <4>2
    <3>3. CASE ~Preparing
      <4>1. job = NoJob
        BY <2>1, <3>3 DEF JobsInv, VisitInv
      <4> QED
        BY <3>1, <4>1 DEF NoJob
    <3> QED
      BY <3>2, <3>3
  <2>6. ToSet(job.topo) \subseteq job.targets
    BY <2>1, IsOwnList DEF JobsInv, VisitInv, TopoOf
  <2> QED
    BY <2>1, <2>2, <2>3, <2>4, <2>5, <2>6 DEF TypeOK, PathInv, BatchInv
<1> QED
  BY <1>1, PlanJobsInvariant, PTL
=============================================================================
