------------------------------- MODULE Resolver -------------------------------
(***************************************************************************)
(* The plan resolver of the worker (go-worker/internal/plan): one run of   *)
(* computeWithResolverInputs over an input set, from the parsed lines to   *)
(* the flat plan and the artifact DAG.  It goes through the requirements,  *)
(* then the wheels and what they require, then, in the order of a Go map,  *)
(* through the dependencies it has collected.                              *)
(*                                                                         *)
(* Names keep their spelling: Norm is normalizeName.  A version is what    *)
(* follows the name in the input: nothing, an operator with a number, or a *)
(* bare number.  An artifact's id is the key it is the digest of.  Python  *)
(* and platform tags are the same for all nodes and left out.              *)
(***************************************************************************)
EXTENDS Integers, Sequences, SequencesExt, FiniteSets, FiniteSetsExt, Functions, Lists

CONSTANTS
    Name,          \* spellings of package names
    NoName,        \* the empty name
    Lower,         \* strings.ToLower: spelling -> lower case
    Norm,          \* normalizeName: spelling -> lower case, "-" for "_"
    InputSets,     \* the input sets to plan, as lines: see TypeOK
    OptionSets,    \* planner options: see TypeOK
    Answers,       \* what the index may answer: versions, or NoVersion for an error
    Pack,          \* pack names, in alphabetical order
    Rule           \* Catalog.Rules: [matches : SUBSET Name, packs : Seq]

(* A version: none, or an operator, which a bare number has not, and a number. *)
NoVersion == <<"">>
IsVersion(ver) == ver = NoVersion \/ (ver[1] \in {"", "==", ">=", "~="} /\ Len(ver) = 2)

(* Lines as they are parsed: the name of a line may be missing.            *)
AreLines(q) ==
    /\ q \in Seq(ToSet(q))
    /\ \A i \in DOMAIN q : q[i].name \in Name \cup {NoName} /\ IsVersion(q[i].version)

ASSUME ResolverAssumption ==
    /\ NoName \notin Name
    /\ Pack \in Seq(ToSet(Pack)) /\ IsInjective(Pack)
    /\ Norm \in [Name -> Name] /\ \A n \in Name : Norm[Norm[n]] = Norm[n]
    /\ Lower \in [Name -> Name] /\ \A n \in Name : Lower[Lower[n]] = Lower[n]
    /\ \A n \in Name : Norm[Lower[n]] = Norm[n]
    /\ \A s \in InputSets :
          /\ AreLines(s.reqs) /\ AreLines(s.wheels)
          /\ \A i \in DOMAIN s.wheels : AreLines(s.wheels[i].requires)
    /\ \A o \in OptionSets :
          /\ AreLines(o.constraints) /\ o.catalog \subseteq ToSet(Pack)
          /\ \A n \in DOMAIN o.overrides : n \in Name /\ IsVersion(o.overrides[n])
    /\ \A a \in Answers : IsVersion(a)

VARIABLES
    input,      \* the lines of the input set
    opts,       \* Options
    pc,         \* the loop the resolver is in
    at,         \* its position in it
    depAt,      \* position in the Requires of the wheel at hand
    depSeen,    \* name -> version
    todo,       \* names of depSeen the last loop has not visited
    seen,       \* the pairs planned so far
    plan,       \* Snapshot.Plan
    dag,        \* Snapshot.DAG
    adding,     \* the package whose nodes are being added
    calls,      \* the calls of addPack under way, the innermost last
    hasInput,
    depTruncated

loopVars == <<pc, at, depAt, depSeen, todo, hasInput, depTruncated>>
nodeVars == <<seen, plan, dag, adding, calls>>
resolverVars == <<input, opts, loopVars, nodeVars>>

-----------------------------------------------------------------------------
(* Versions and input lines.                                               *)

Pin(v) == <<"", v>>
Latest == Pin("latest")
TrimEq(ver) == IF ver[1] = "==" THEN Pin(ver[2]) ELSE ver
IsOpen(ver) == ver = NoVersion \/ ver[1] \in {">=", "~="}

(* A line without a name is skipped; requirements and constraints lose the
   "==" of a pin, Requires-Dist entries keep it.                           *)
Named(lines) == AtPlaces(lines, {i \in DOMAIN lines : lines[i].name # NoName})

loadRequirements(lines) ==
    LET q == Named(lines)
    IN  [i \in DOMAIN q |-> [name |-> Norm[q[i].name], version |-> TrimEq(q[i].version)]]

(* Mutant of parseRequiresDist: the name is left as it is spelt.           *)
parseRequiresDist_AsSpelt(lines) == Named(lines)

parseRequiresDist(lines) ==
    LET q == Named(lines)
    IN  [i \in DOMAIN q |-> [name |-> Norm[q[i].name], version |-> q[i].version]]

loadConstraints(lines) ==
    LET q == Named(lines)
        places(n) == {i \in DOMAIN q : Norm[q[i].name] = n}
        last(S) == CHOOSE i \in S : \A j \in S : j <= i
    IN  [n \in {Norm[q[i].name] : i \in DOMAIN q} |-> TrimEq(q[last(places(n))].version)]

loadOverridesFromEnv(f) == [n \in {Norm[m] : m \in DOMAIN f} |->
                               f[CHOOSE m \in DOMAIN f : Norm[m] = n]]

reqs == loadRequirements(input.reqs)
wheels == input.wheels
requires == parseRequiresDist(wheels[at].requires)
constraints == loadConstraints(opts.constraints)
overrides == loadOverridesFromEnv(opts.overrides)

(* IndexClient.ResolveLatest may answer differently at every call.  If it
   fails, the version at hand is kept.                                     *)
Resolved(ver, answer) == IF answer = NoVersion THEN ver ELSE answer

-----------------------------------------------------------------------------
(* Packs.                                                                  *)

(* Catalog.Select: the packs of all rules that match the name in lower case
   (an underscore stays one: foo_bar and foo-bar may get different packs). *)
Select(n) ==
    {p \in opts.catalog : \E i \in DOMAIN Rule : Lower[n] \in Rule[i].matches /\ p \in ToSet(Rule[i].packs)}

(* selectPacks sorts them by name.                                         *)
selectPacks(n) == AtPlaces(Pack, {i \in DOMAIN Pack : Pack[i] \in Select(n)})

(* packDependencies; "cpython" stands for all the cpython packs and for
   "runtime".  Only packs of the catalogue count.                          *)
PackTable ==
    [openssl |-> <<"zlib">>, libpng |-> <<"zlib">>, freetype |-> <<"libpng", "jpeg">>,
     libxslt |-> <<"libxml2">>, libxml2 |-> <<"zlib">>,
     cpython |-> <<"openssl", "libffi", "zlib", "xz", "bzip2", "sqlite">>]

packDependencies(p) ==
    LET q == IF p \in DOMAIN PackTable THEN PackTable[p] ELSE <<>>
    IN  AtPlaces(q, {i \in DOMAIN q : q[i] \in opts.catalog})

-----------------------------------------------------------------------------
(* Nodes.                                                                  *)

RuntimeId == <<"runtime">>
PackId(p) == <<"pack", p>>
WheelId(source, packs) == <<"wheel", source, packs>>
RepairId(w) == <<"repair", w>>

(* What store.Has finds: opts.has holds the pack names and the node types
   that the artifact store has.                                            *)
Action(what) == IF what \in opts.has THEN "reuse" ELSE "build"

Node(type, id, inputs, name, version, action) ==
    [type |-> type, id |-> id, inputs |-> inputs, name |-> name, version |-> version,
     action |-> action]

packIds(q) == [i \in DOMAIN q |-> PackId(q[i])]

NoPackage == [name |-> NoName]

(* A package that was not seen at this version: selectPacks, and the nodes
   that addPack and AddWheel will add.                                    *)
AddNode(name, version, source, flatAction, wheelAction) ==
    /\ seen' = seen \cup {<<name, version>>}
    /\ adding' = [name |-> name, version |-> version, source |-> source, packs |-> selectPacks(name),
                  action |-> flatAction, wheelAction |-> wheelAction]

sourceDigest(name, version) == <<Norm[name], version>>

(* Mutant of AddBuild: seen is not asked.                                  *)
AddBuild_Again(name, version) ==
    AddNode(name, version, sourceDigest(name, version), "build", Action("wheel"))

AddBuild(name, version) ==
    IF <<name, version>> \in seen
    THEN UNCHANGED <<seen, adding>>
    ELSE AddNode(name, version, sourceDigest(name, version), "build", Action("wheel"))

(* packSeen.                                                               *)
InDag(p) == \E i \in DOMAIN dag : dag[i].id = PackId(p)

(* What addPackNodes, or the innermost call of addPack, goes through, and
   where it stands: a call for a pack that is in the DAG returns at once.  *)
Wanted == IF calls = <<>> THEN adding.packs ELSE packDependencies(Last(calls))
Missing == {i \in DOMAIN Wanted : ~InDag(Wanted[i])}

CallAddPack ==
    /\ adding # NoPackage
    /\ \E i \in Missing : /\ \A j \in Missing : i <= j
                          /\ calls' = Append(calls, Wanted[i])
    /\ UNCHANGED <<input, opts, loopVars, seen, plan, dag, adding>>

(* Mutant of addPack: the pack is added before its dependencies.           *)
addPack_First ==
    LET p == Last(calls) IN
    /\ calls # <<>>
    /\ dag' = Append(dag, Node("pack", PackId(p), packIds(packDependencies(p)), p, NoVersion, Action(p)))
    /\ calls' = Front(calls)
    /\ UNCHANGED <<input, opts, loopVars, seen, plan, adding>>

(* The innermost call has been through the dependencies: the pack's node.  *)
addPack ==
    LET p == Last(calls) IN
    /\ calls # <<>> /\ Missing = {}
    /\ dag' = Append(dag, Node("pack", PackId(p), packIds(packDependencies(p)), p, NoVersion, Action(p)))
    /\ calls' = Front(calls)
    /\ UNCHANGED <<input, opts, loopVars, seen, plan, adding>>

(* After the packs: the flat node, the wheel and the repair of the wheel.  *)
AddWheel ==
    LET p == adding
        wheel == WheelId(p.source, p.packs)
    IN  /\ adding # NoPackage /\ calls = <<>> /\ Missing = {}
        /\ plan' = Append(plan, [name |-> p.name, version |-> p.version, action |-> p.action])
        /\ dag' = Append(Append(dag,
                     Node("wheel", wheel, <<RuntimeId>> \o packIds(p.packs), p.name, p.version, p.wheelAction)),
                     Node("repair", RepairId(wheel), <<wheel>>, p.name, p.version, Action("repair")))
        /\ adding' = NoPackage
        /\ UNCHANGED <<input, opts, loopVars, seen, calls>>

-----------------------------------------------------------------------------
(* The loops.  A loop goes on when the nodes of a package are added.        *)

In(loop) == pc = loop /\ adding = NoPackage

ResolverInit ==
    /\ input \in InputSets
    /\ opts \in OptionSets
    /\ pc = "reqs" /\ at = 1 /\ depAt = 1
    /\ depSeen = <<>> /\ todo = {}
    /\ seen = {} /\ plan = <<>>
    /\ dag = <<Node("runtime", RuntimeId, <<>>, NoName, NoVersion, Action("runtime"))>>
    /\ adding = NoPackage /\ calls = <<>>
    /\ hasInput = FALSE /\ depTruncated = FALSE

Advance == at' = at + 1 /\ depAt' = 1

Put(f, n, v) == [m \in DOMAIN f \cup {n} |-> IF m = n THEN v ELSE f[m]]

PlanRequirement ==
    /\ In("reqs") /\ at \in DOMAIN reqs
    /\ LET r == reqs[at] IN
       \E answer \in (IF IsOpen(r.version) THEN Answers ELSE {NoVersion}) :
          LET ver == Resolved(r.version, answer) IN
          /\ depSeen' = Put(depSeen, r.name, ver)
          /\ AddBuild(r.name, ver)
    /\ hasInput' = TRUE
    /\ Advance
    /\ UNCHANGED <<input, opts, pc, todo, plan, dag, calls, depTruncated>>

RequirementsDone ==
    /\ In("reqs") /\ at \notin DOMAIN reqs
    /\ pc' = "wheels" /\ at' = 1
    /\ UNCHANGED <<input, opts, depAt, depSeen, todo, nodeVars, hasInput, depTruncated>>

(* A wheel whose file name was not parsed has neither name nor version.    *)
SkipWheel ==
    /\ In("wheels") /\ at \in DOMAIN wheels /\ wheels[at].name = NoName
    /\ Advance
    /\ UNCHANGED <<input, opts, pc, depSeen, todo, nodeVars, hasInput, depTruncated>>

AtWheel ==
    /\ In("wheels") /\ at \in DOMAIN wheels /\ wheels[at].name # NoName
    /\ hasInput' = TRUE

(* A name that is known with a version is not asked for again.             *)
Expand(d) ==
    \E answer \in (IF d.version = NoVersion THEN Answers ELSE {NoVersion}) :
        /\ depSeen' = IF d.name \in DOMAIN depSeen /\ depSeen[d.name] # NoVersion
                      THEN depSeen ELSE Put(depSeen, d.name, Resolved(d.version, answer))
        /\ depAt' = depAt + 1
        /\ UNCHANGED depTruncated

(* Mutant of RequireDep: the rest of the wheel's dependencies is forgotten. *)
RequireDep_Silent ==
    LET d == requires[depAt] IN
    /\ AtWheel /\ depAt \in DOMAIN requires
    /\ IF Cardinality(DOMAIN depSeen) >= opts.maxDeps
       THEN depAt' = Len(requires) + 1 /\ UNCHANGED <<depSeen, depTruncated>>
       ELSE Expand(d)
    /\ UNCHANGED <<input, opts, pc, at, todo, nodeVars>>

(* One Requires-Dist entry.  The cap comes first: at the cap even a name
   that is known ends the loop and, in the end, the planning.              *)
RequireDep ==
    LET d == requires[depAt] IN
    /\ AtWheel /\ depAt \in DOMAIN requires
    /\ IF Cardinality(DOMAIN depSeen) >= opts.maxDeps
       THEN /\ depTruncated' = TRUE
            /\ depAt' = Len(requires) + 1
            /\ UNCHANGED depSeen
       ELSE Expand(d)
    /\ UNCHANGED <<input, opts, pc, at, todo, nodeVars>>

(* The wheel itself: an override replaces its version; otherwise it is
   reused if it is compatible, and built from its own file if not.         *)
PlanWheel ==
    LET w == wheels[at]
        source == IF w.digest THEN <<"file", w.name, w.version>>
                              ELSE sourceDigest(w.name, w.version)
    IN
    /\ AtWheel /\ depAt \notin DOMAIN requires
    /\ IF Norm[w.name] \in DOMAIN overrides /\ overrides[Norm[w.name]] # NoVersion
       THEN AddBuild(w.name, TrimEq(overrides[Norm[w.name]]))
       ELSE IF <<w.name, w.version>> \in seen THEN UNCHANGED <<seen, adding>>
       ELSE IF w.compatible THEN AddNode(w.name, w.version, source, "reuse", "reuse")
       ELSE AddNode(w.name, w.version, source, "build", Action("wheel"))
    /\ Advance
    /\ UNCHANGED <<input, opts, pc, depSeen, todo, plan, dag, calls, depTruncated>>

WheelsDone ==
    /\ In("wheels") /\ at \notin DOMAIN wheels
    /\ pc' = "deps" /\ todo' = DOMAIN depSeen
    /\ UNCHANGED <<input, opts, at, depAt, depSeen, nodeVars, hasInput, depTruncated>>

(* A dependency: its override, then its constraint, then what was found, the
   index or "latest"; the eager strategy asks the index in any case.       *)
PlanDep(n) ==
    LET chosen == IF n \in DOMAIN constraints /\ constraints[n] # NoVersion THEN constraints[n]
                  ELSE IF n \in DOMAIN overrides /\ overrides[n] # NoVersion
                  THEN TrimEq(overrides[n]) ELSE depSeen[n]
    IN
    /\ In("deps") /\ n \in todo
    /\ \E a1 \in (IF chosen = NoVersion THEN Answers ELSE {chosen}),
          a2 \in (IF opts.eager THEN Answers ELSE {NoVersion}) :
          LET found == IF a1 = NoVersion THEN Latest ELSE a1
          IN  AddBuild(n, Resolved(found, a2))
    /\ todo' = todo \ {n}
    /\ UNCHANGED <<input, opts, pc, at, depAt, depSeen, plan, dag, calls, hasInput, depTruncated>>

(* No input and a truncated expansion are errors: there is no plan.        *)
Finish ==
    /\ In("deps") /\ todo = {}
    /\ pc' = IF hasInput /\ ~depTruncated THEN "planned" ELSE "failed"
    /\ UNCHANGED <<input, opts, at, depAt, depSeen, todo, nodeVars, hasInput, depTruncated>>

ResolverNext ==
    \/ PlanRequirement \/ RequirementsDone
    \/ SkipWheel \/ RequireDep \/ PlanWheel \/ WheelsDone
    \/ (\E n \in todo : PlanDep(n)) \/ Finish
    \/ CallAddPack \/ addPack \/ AddWheel
-----------------------------------------------------------------------------
(* Properties.                                                             *)

ResolverTypeOK ==
    /\ input \in InputSets /\ opts \in OptionSets
    /\ pc \in {"reqs", "wheels", "deps", "planned", "failed"}
    /\ DOMAIN depSeen \subseteq Name /\ todo \subseteq DOMAIN depSeen
    /\ \A n \in DOMAIN depSeen : Norm[n] = n /\ IsVersion(depSeen[n])
    /\ \A i \in DOMAIN plan : /\ plan[i].name \in Name /\ IsVersion(plan[i].version)
                              /\ plan[i].action \in {"build", "reuse"}
    /\ \A i \in DOMAIN dag : /\ dag[i].type \in {"runtime", "pack", "wheel", "repair"}
                             /\ dag[i].action \in {"build", "reuse"}
    /\ hasInput \in BOOLEAN /\ depTruncated \in BOOLEAN

(* The DAG is closed and in order: what a node needs stands before it, and no
   pack or runtime stands in it twice.                                     *)
DagInOrder ==
    \A i \in DOMAIN dag :
        /\ \A id \in ToSet(dag[i].inputs) : \E j \in 1..(i - 1) : dag[j].id = id
        /\ dag[i].type \in {"pack", "runtime"} => \A j \in 1..(i - 1) : dag[j].id # dag[i].id

OfType(t) == AtPlaces(dag, {i \in DOMAIN dag : dag[i].type = t})

(* The two forms of a plan say the same: the wheels of the DAG are the flat
   nodes, in the same order, each with its repair; no package stands in the
   plan twice at one version as one spells it.                             *)
FormsAgree ==
    LET w == OfType("wheel")  r == OfType("repair") IN
    /\ Len(w) = Len(plan) /\ Len(r) = Len(plan)
    /\ \A i \in DOMAIN plan :
          /\ w[i].name = plan[i].name /\ w[i].version = plan[i].version
          /\ r[i].inputs = <<w[i].id>>
          /\ \A j \in 1..(i - 1) : <<plan[j].name, plan[j].version>> # <<plan[i].name, plan[i].version>>

(* Names an input set asks for.                                            *)
Asked ==
    {reqs[i].name : i \in DOMAIN reqs}
    \cup UNION {{Norm[wheels[i].name]} \cup
                {d.name : d \in ToSet(parseRequiresDist(wheels[i].requires))} :
                i \in {j \in DOMAIN wheels : wheels[j].name # NoName}}

(* A plan that is reported as planned leaves nothing out: every requirement,
   every wheel and everything a wheel requires is in it, however the index
   answers and in whatever order the dependencies come.                    *)
NothingLeftOut == pc = "planned" => Asked \subseteq {Norm[plan[i].name] : i \in DOMAIN plan}
=============================================================================
