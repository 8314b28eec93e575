------------------------------- MODULE JobPrep -------------------------------
(***************************************************************************)
(* From a plan to the jobs of one drain: the builds a plan queues          *)
(* (QueueBuildsFromPlan), the requests a drain gets, Worker.match, which   *)
(* pairs every request with the plan's nodes and looks its wheel up in the *)
(* DAG, and resolvePacks, which fetches or builds the packs of each job    *)
(* one after the other.                                                    *)
(*                                                                         *)
(* The leases themselves are BuildQueue's; here a drain gets any requests  *)
(* the queue may hold.  Fetching, building and extracting a pack may       *)
(* succeed or fail each time: a job goes on without the packs that failed. *)
(***************************************************************************)
EXTENDS Resolver

CONSTANTS
    BatchMax      \* bound: requests in one drain

ASSUME JobPrepAssumption == BatchMax \in Nat \ {0}

VARIABLES
    stage,      \* plan, queued, match, topo, packs, done
    queued,     \* the rows QueueBuildsFromPlan wrote: pairs of name and version
    batch,      \* the requests of the drain, in order
    reached,    \* where match is: the places of a request and of a node
    job,        \* the job being prepared
    visits,     \* topoSortFromDag: the calls of visit under way, the innermost last
    visited,    \* and the packs it has visited
    jobs,       \* the jobs of the drain
    packPath,   \* w.packPath: the packs that have been extracted
    packAt      \* position in job.packs

prepVars == <<stage, queued, batch, reached, job, visits, visited, jobs, packPath, packAt>>
vars == <<resolverVars, prepVars>>

NoJob == [req |-> 0, name |-> NoName, version |-> NoVersion, wheel |-> <<>>, action |-> "",
          targets |-> {}, topo |-> <<>>, packs |-> <<>>, paths |-> <<>>, ready |-> <<>>]

-----------------------------------------------------------------------------
(* The build queue gets every build node that has a version.               *)
QueueBuilds ==
    /\ pc = "planned" /\ stage = "plan"
    /\ queued' = {<<n.name, n.version>> :
                    n \in {m \in ToSet(plan) : m.action = "build" /\ m.version # NoVersion}}
    /\ stage' = "queued"
    /\ UNCHANGED <<resolverVars, batch, reached, job, visits, visited, jobs, packPath, packAt>>

(* A drain: leased rows, in any order, or one request of the request queue,
   whose version may be missing.                                           *)
Drain ==
    /\ stage = "queued"
    /\ \/ \E S \in SUBSET queued : /\ S # {} /\ Cardinality(S) <= BatchMax
                                   /\ batch' \in SetToSeqs(S)
       \/ \E n \in Name, v \in {NoVersion, Latest} : batch' = <<<<n, v>>>>
    /\ stage' = "match"
    /\ UNCHANGED <<resolverVars, queued, reached, job, visits, visited, jobs, packPath, packAt>>

(* strings.EqualFold.                                                      *)
equalsIgnoreCase(a, b) == Lower[a] = Lower[b]

(* A request asks for a node: any version does for "" and "latest".        *)
Wants(r, n) ==
    /\ n.version # NoVersion
    /\ equalsIgnoreCase(n.name, r[1])
    /\ r[2] \in {NoVersion, Latest, n.version}

(* Mutant of Matches: the first node in the plan is taken.                 *)
Matches_First ==
    {x \in (DOMAIN batch) \X (DOMAIN plan) :
        /\ \E j \in DOMAIN plan : Wants(batch[x[1]], plan[j])
        /\ x[2] = Min({j \in DOMAIN plan : equalsIgnoreCase(plan[j].name, batch[x[1]][1])})}

(* Mutant of Matches: the version is not compared.                         *)
Matches_AnyVersion ==
    {x \in (DOMAIN batch) \X (DOMAIN plan) :
        equalsIgnoreCase(plan[x[2]].name, batch[x[1]][1]) /\ plan[x[2]].version # NoVersion}

(* match: for each request, the nodes it asks for; each gives a job.       *)
Matches == {x \in (DOMAIN batch) \X (DOMAIN plan) : Wants(batch[x[1]], plan[x[2]])}

(* Its two loops, nodes inside requests, and what they have yet to reach.  *)
Before(x, y) == x[1] < y[1] \/ (x[1] = y[1] /\ x[2] < y[2])
Ahead == {x \in Matches : Before(reached, x)}

(* findWheelArtifact: the first wheel of that name and version.            *)
findWheelArtifact(n) ==
    LET hits == {i \in DOMAIN dag : /\ dag[i].type = "wheel" /\ dag[i].version = n.version
                                    /\ equalsIgnoreCase(dag[i].name, n.name)}
    IN  dag[Min(hits)]

PackInputs(n) == AtPlaces(n.inputs, {i \in DOMAIN n.inputs : n.inputs[i][1] = "pack"})
PackNode(id) == dag[CHOOSE i \in DOMAIN dag : dag[i].id = id]

PriorityTable ==
    [pkgconf |-> 1, zlib |-> 2, xz |-> 3, bzip2 |-> 4, zstd |-> 5, openssl |-> 6, libffi |-> 7,
     sqlite |-> 8, libxml2 |-> 9, libxslt |-> 10, libpng |-> 11, jpeg |-> 12, freetype |-> 13,
     openblas |-> 14, rust |-> 15, cmake |-> 16, ninja |-> 17]

(* A name that is not in the table counts as 0.                            *)
Priority(id) == IF id[2] \in DOMAIN PriorityTable THEN PriorityTable[id[2]] ELSE 0

(* Mutant of sortPacksByPriority: the highest number first.                *)
sortPacksByPriority_Descending(q) ==
    {s \in SetToSeqs(ToSet(q)) : \A k \in DOMAIN s : \A i \in 1..k : Priority(s[i]) >= Priority(s[k])}

(* sort.Slice: packs of the same priority may come in any order.           *)
sortPacksByPriority(q) ==
    {s \in SetToSeqs(ToSet(q)) : \A k \in DOMAIN s : \A i \in 1..k : Priority(s[i]) <= Priority(s[k])}

(* The next request and node: the wheel and its packs.                     *)
BeginJob ==
    /\ stage = "match"
    /\ \E x \in Ahead :
          /\ \A y \in Ahead \ {x} : Before(x, y)
          /\ reached' = x
          /\ LET n == plan[x[2]]
                 w == findWheelArtifact(n)
             IN  job' = [NoJob EXCEPT !.req = x[1], !.name = n.name, !.version = n.version,
                                      !.wheel = w.id, !.action = w.action,
                                      !.targets = ToSet(PackInputs(w))]
    /\ stage' = "topo"
    /\ UNCHANGED <<resolverVars, queued, batch, visits, visited, jobs, packPath, packAt>>

(* topoSortFromDag: the next pack to visit, any of the targets in the order
   of the map, or the first of the inputs, that was not visited.           *)
ToVisit ==
    IF visits = <<>> THEN job.targets \ visited
    ELSE LET q == PackInputs(PackNode(Last(visits)))
             new == {i \in DOMAIN q : q[i] \notin visited}
         IN  {q[i] : i \in {k \in new : \A j \in new : k <= j}}

Visit ==
    /\ stage = "topo"
    /\ \E id \in ToVisit : visits' = Append(visits, id) /\ visited' = visited \cup {id}
    /\ UNCHANGED <<resolverVars, stage, queued, batch, reached, job, jobs, packPath, packAt>>

(* Mutant of EndVisit: a pack is put before its inputs.                    *)
EndVisit_PreOrder ==
    LET id == Last(visits) IN
    /\ stage = "topo" /\ visits # <<>>
    /\ job' = [job EXCEPT !.topo = IF id \in job.targets THEN Append(@, id) ELSE @]
    /\ visits' = Front(visits)
    /\ UNCHANGED <<resolverVars, stage, queued, batch, reached, visited, jobs, packPath, packAt>>

(* A visit ends after its inputs; only the targets are kept.               *)
EndVisit ==
    LET id == Last(visits) IN
    /\ stage = "topo" /\ visits # <<>> /\ ToVisit = {}
    /\ job' = [job EXCEPT !.topo = IF id \in job.targets THEN Append(@, id) ELSE @]
    /\ visits' = Front(visits)
    /\ UNCHANGED <<resolverVars, stage, queued, batch, reached, visited, jobs, packPath, packAt>>

(* resolvePacks, which sorts them again.                                   *)
BeginPacks ==
    /\ stage = "topo" /\ visits = <<>> /\ ToVisit = {}
    /\ \E packs \in sortPacksByPriority(job.topo) : job' = [job EXCEPT !.packs = packs]
    /\ stage' = "packs" /\ packAt' = 1 /\ visited' = {}
    /\ UNCHANGED <<resolverVars, queued, batch, reached, visits, jobs, packPath>>

(* One pack: extracted before, fetched, or built if the plan says so, with
   the paths so far as DEPS_PREFIXES; then extracted.                      *)
ResolvePack ==
    LET id == job.packs[packAt] IN
    /\ stage = "packs" /\ packAt \in DOMAIN job.packs
    /\ \E got \in {"fetched", "built", "none"} :
          /\ id \in packPath => got = "none"
          /\ got = "built" => PackNode(id).action = "build"
          /\ job' = [job EXCEPT
                       !.paths = IF got # "none" \/ id \in packPath THEN Append(@, id) ELSE @,
                       !.ready = IF got = "built" THEN Append(@, [pack |-> id, deps |-> job.paths])
                                                  ELSE @]
          /\ packPath' = IF got = "none" THEN packPath ELSE packPath \cup {id}
    /\ packAt' = packAt + 1
    /\ UNCHANGED <<resolverVars, stage, queued, batch, reached, visits, visited, jobs>>

EndJob ==
    /\ stage = "packs" /\ packAt \notin DOMAIN job.packs
    /\ jobs' = Append(jobs, job) /\ job' = NoJob
    /\ stage' = "match"
    /\ UNCHANGED <<resolverVars, queued, batch, reached, visits, visited, packPath, packAt>>

Matched ==
    /\ stage = "match" /\ Ahead = {}
    /\ stage' = "done"
    /\ UNCHANGED <<resolverVars, queued, batch, reached, job, visits, visited, jobs, packPath, packAt>>

Init ==
    /\ ResolverInit
    /\ stage = "plan" /\ queued = {} /\ batch = <<>>
    /\ reached = <<0, 0>> /\ job = NoJob /\ jobs = <<>>
    /\ visits = <<>> /\ visited = {}
    /\ packPath = {} /\ packAt = 1

Next ==
    \/ ResolverNext /\ UNCHANGED prepVars
    \/ QueueBuilds \/ Drain \/ BeginJob \/ Visit \/ EndVisit \/ BeginPacks
    \/ ResolvePack \/ EndJob \/ Matched

Spec == Init /\ [][Next]_vars

-----------------------------------------------------------------------------
(* Properties.                                                             *)

PackIds == {PackId(p) : p \in ToSet(Pack)}

TypeOK ==
    /\ ResolverTypeOK
    /\ stage \in {"plan", "queued", "match", "topo", "packs", "done"}
    /\ queued \subseteq seen
    /\ packPath \subseteq PackIds
    /\ \A j \in ToSet(jobs) \cup {job} :
          /\ j.req \in DOMAIN batch \cup {0}
          /\ ToSet(j.paths) \subseteq ToSet(j.packs) /\ ToSet(j.topo) \subseteq j.targets
          /\ j.targets \subseteq PackIds
    /\ \A j \in ToSet(jobs) : ToSet(j.packs) = j.targets

(* Every row a drain leases gives a job for exactly that package and version:
   no queued build is leased for nothing.                                  *)
LeaseHasJob ==
    stage = "done" =>
        \A i \in DOMAIN batch : batch[i] \in queued =>
            \E j \in ToSet(jobs) : j.req = i /\ <<j.name, j.version>> = batch[i]

(* A drain builds a package at one version once, unless two rows differ only
   in the case of the name or one of them asks for "latest".           *)
BuiltOnce ==
    stage = "done" =>
        \A i, k \in DOMAIN jobs :
            (i # k /\ jobs[i].name = jobs[k].name /\ jobs[i].version = jobs[k].version) =>
                LET a == batch[jobs[i].req]  b == batch[jobs[k].req] IN
                (a[1] # b[1] /\ equalsIgnoreCase(a[1], b[1])) \/ Latest \in {a[2], b[2]}

(* topoSortFromDag: dependencies first, in every order of the map.         *)
DepsFirst ==
    \A i, k \in DOMAIN job.topo :
        job.topo[i] \in ToSet(PackNode(job.topo[k]).inputs) => i < k

(* When a pack of the priority table is built, every pack it depends on that
   the job has, and could be had, is among the prefixes it is built with.  *)
BuiltWithDeps ==
    \A j \in ToSet(jobs) : \A b \in ToSet(j.ready) :
        Priority(b.pack) > 0 =>
            ToSet(PackNode(b.pack).inputs) \cap ToSet(j.paths) \subseteq ToSet(b.deps)
=============================================================================
