----------------------------- MODULE HintCatalog -----------------------------
(***************************************************************************)
(* The hint catalogue and its readers: the hints table, the handlers that  *)
(* add, replace, delete and bulk-load hints while the others run, seeding  *)
(* at start-up, the worker's fetchHints, which reads the table page by     *)
(* page, the planner, which attaches hints to the nodes of a plan, and the *)
(* auto-fix of a failed job.                                               *)
(*                                                                         *)
(* Every statement on the table is a step of its own: a bulk upload and a  *)
(* fetch interleave with everything else.  A store error makes a put of a  *)
(* bulk upload or of a seed fail, and a page may fail to arrive.           *)
(***************************************************************************)
EXTENDS HintMatch, FiniteSetsExt, Lists

CONSTANTS
    IdOrder,     \* the ids of hints in the order of the table's key
    Raw,         \* the hints that operators send, as they send them
    Payloads,    \* the bulk uploads: sequences of such hints
    SeedHints,   \* the hints of the seed files, in the order of the files
    Node,        \* the contexts of the nodes of the plan
    Failures,    \* the log of a failed build, the recipes its row in the queue
                 \* brought, and AUTO_FIX_MIN_CONFIDENCE
    FetchLimit,  \* the page size the worker asks for (500)
    PageCap,     \* the page size the handler grants at most (200)
    OffsetCap,   \* the greatest offset it accepts (100000)
    LogTail,     \* lines of a log that are looked at (200)
    MaxEdits,    \* bound: changes of operators and restarts
    MaxFetches   \* bound: fetches of each client

(* A hint as it is sent: its recipes are a list.                           *)
IsHint(h) ==
    /\ DOMAIN h = {"id", "pattern", "recs", "note", "tags", "applies", "conf", "exs"}
    /\ h.recs \in Seq(ToSet(h.recs))

ASSUME HintCatalogAssumption ==
    /\ {FetchLimit, PageCap, LogTail} \subseteq Nat \ {0}
    /\ {OffsetCap, MaxEdits, MaxFetches} \subseteq Nat
    /\ IdOrder \in Seq(ToSet(IdOrder))
    /\ \A f \in Failures : f.log \in Seq(ToSet(f.log))
    /\ SeedHints \in Seq(ToSet(SeedHints))
    /\ \A h \in Raw \cup ToSet(SeedHints) : IsHint(h)
    /\ \A p \in Payloads : p \in Seq(ToSet(p)) /\ \A h \in ToSet(p) : IsHint(h)

Client == {"planner", "drain"}

Slice(s, from, to) == SubSeq(s, from, Min({to, Len(s)}))

VARIABLES
    rows,      \* the table: id -> [hint, deleted]
    bulk,      \* what is left of the bulk upload under way
    edits,     \* changes so far
    pc,        \* client -> idle, fetch, use
    offset,    \* client -> offset of the next page
    got,       \* client -> the hints read
    fetches,   \* client -> fetches so far
    moments,   \* history: client -> the catalogues there were during its fetch
    nodeRecs,  \* node -> the recipes of the plan's node
    job,       \* the failed job of the drain: context, log, recipes, threshold
    fix        \* what auto-fix made of it

catVars == <<rows, bulk, edits>>
clientVars == <<pc, offset, got, fetches>>
vars == <<rows, bulk, edits, pc, offset, got, fetches, moments, nodeRecs, job, fix>>

NoJob == [ctx |-> [pkg |-> "", py |-> <<>>, tag |-> [impl |-> "", digits |-> <<>>], plat |-> <<>>],
          log |-> <<>>, recs |-> {}, threshold |-> {0}]
NoFix == [applied |-> FALSE, recs |-> {}, ids |-> {}, blocked |-> {}, cand |-> NoHint]

Live(tab) == {i \in DOMAIN IdOrder : IdOrder[i] \in DOMAIN tab /\ ~ tab[IdOrder[i]].deleted}

(* The hints that are not deleted, by id.                                  *)
Catalogue(tab) == AtPlaces([i \in DOMAIN IdOrder |-> tab[IdOrder[i]].hint], Live(tab))

-----------------------------------------------------------------------------
(* NormalizeHint: blank recipes and values, and keys left without values,
   are dropped; the confidence is folded.                                  *)
NormalizeHint(h) ==
    LET keep == {k \in DOMAIN h.applies : h.applies[k] # <<>>}
    IN  [h EXCEPT !.recs = AtPlaces(@, {i \in DOMAIN @ : @[i].pkg # <<>>}), !.conf = Fold(@),
                  !.applies = [k \in keep |-> h.applies[k]]]

(* (h.note: there is a note, and the severity is one of those allowed.)  A
   number is refused when it is below 0 or above 1, which NaN is not.       *)
ValidateHint(h) ==
    /\ h.id # <<>>
    /\ h.pattern.kind \notin {"", "bad"}
    /\ h.note
    /\ h.recs # <<>>
    /\ \/ h.conf \in {"", "low", "medium", "high"}
       \/ /\ h.conf \in DOMAIN Tenths
          /\ ~ Below(Tenths[h.conf], {0}) /\ ~ Below({10}, Tenths[h.conf])

(* Insert, or replace the row: a row that was deleted is back.             *)
PutHint(tab, h) ==
    [i \in DOMAIN tab \cup {h.id} |-> IF i = h.id THEN [hint |-> h, deleted |-> FALSE] ELSE tab[i]]

(* A change of the table is seen by the fetches under way.                 *)
SetRows(tab) ==
    /\ rows' = tab
    /\ moments' = [c \in Client |-> IF pc[c] = "fetch" THEN moments[c] \cup {Catalogue(tab)}
                                                      ELSE moments[c]]

Edit == edits < MaxEdits /\ edits' = edits + 1

(* POST /api/hints.                                                        *)
HintsPost(raw) ==
    LET h == NormalizeHint(raw)
    IN  /\ Edit /\ ValidateHint(h)
        /\ SetRows(PutHint(rows, h))
        /\ UNCHANGED <<bulk, clientVars, nodeRecs, job, fix>>

(* Mutant of HintByIDPut: the hint is saved as it came.                    *)
HintByIDPut_Raw(id, raw) ==
    /\ Edit
    /\ SetRows(PutHint(rows, [raw EXCEPT !.id = id]))
    /\ UNCHANGED <<bulk, clientVars, nodeRecs, job, fix>>

(* PUT /api/hints/{id}: the path's id replaces the body's.                 *)
HintByIDPut(id, raw) ==
    LET h == NormalizeHint([raw EXCEPT !.id = id])
    IN  /\ Edit /\ ValidateHint(h)
        /\ SetRows(PutHint(rows, h))
        /\ UNCHANGED <<bulk, clientVars, nodeRecs, job, fix>>

(* DELETE /api/hints/{id} marks the row, if there is one.                  *)
HintByIDDelete(id) ==
    /\ Edit /\ id \in DOMAIN rows
    /\ SetRows([rows EXCEPT ![id].deleted = TRUE])
    /\ UNCHANGED <<bulk, clientVars, nodeRecs, job, fix>>

(* POST /api/hints/bulk: the payload is read, then put hint by hint.       *)
HintsBulk(p) ==
    /\ Edit /\ bulk = <<>>
    /\ bulk' = p
    /\ UNCHANGED <<rows, clientVars, moments, nodeRecs, job, fix>>

(* The next hint of the upload: a hint that is not valid, and one that the
   store refuses, is skipped, and those before it stay.                    *)
BulkNext ==
    LET h == NormalizeHint(Head(bulk))
    IN  /\ bulk # <<>>
        /\ bulk' = Tail(bulk)
        /\ \/ ValidateHint(h) /\ SetRows(PutHint(rows, h))
           \/ UNCHANGED <<rows, moments>>
        /\ UNCHANGED <<edits, clientVars, nodeRecs, job, fix>>

(* SeedHintsFromDir puts every valid hint of the files, some of which the
   store may refuse; the last one of an id stays.                          *)
SeedHintsFromDir(tab, refused) ==
    LET put == {i \in DOMAIN SeedHints : /\ ValidateHint(NormalizeHint(SeedHints[i]))
                                         /\ SeedHints[i].id \notin refused}
        of(id) == {i \in put : SeedHints[i].id = id}
        last(id) == CHOOSE i \in of(id) : \A j \in of(id) : j <= i
    IN  [id \in DOMAIN tab \cup {SeedHints[i].id : i \in put} |->
            IF of(id) = {} THEN tab[id]
            ELSE [hint |-> NormalizeHint(SeedHints[last(id)]), deleted |-> FALSE]]

(* The control plane restarts: an upload under way is lost, and the table is
   seeded before requests are served, so hints that were edited or deleted
   get back what the files say.  The fetches under way fail.               *)
Restart ==
    /\ Edit
    /\ \E refused \in SUBSET {SeedHints[i].id : i \in DOMAIN SeedHints} :
         rows' = SeedHintsFromDir(rows, refused)
    /\ bulk' = <<>>
    /\ pc' = [c \in Client |-> IF pc[c] = "fetch" THEN "use" ELSE pc[c]]
    /\ got' = [c \in Client |-> IF pc[c] = "fetch" /\ c = "drain" THEN <<>> ELSE got[c]]
    /\ UNCHANGED <<offset, fetches, moments, nodeRecs, job, fix>>

-----------------------------------------------------------------------------
parseIntDefault(v, def, max) == IF v <= 0 THEN def ELSE IF v > max THEN max ELSE v

(* GET /api/hints.                                                         *)
ListHintsPaged(limit, off) == Slice(Catalogue(rows), off + 1, off + limit)

(* Mutant of fetchLimit: the worker asks for pages of the granted size.    *)
fetchLimit_Cap == PageCap

fetchLimit == FetchLimit

StartFetch(c) ==
    /\ pc[c] = "idle" /\ fetches[c] < MaxFetches
    /\ fetches' = [fetches EXCEPT ![c] = @ + 1]
    /\ pc' = [pc EXCEPT ![c] = "fetch"]
    /\ offset' = [offset EXCEPT ![c] = 0]
    /\ got' = [got EXCEPT ![c] = <<>>]
    /\ moments' = [moments EXCEPT ![c] = {Catalogue(rows)}]

(* Mutant of FetchPage: a page that is not empty asks for the same again.  *)
FetchPage_Again(c) ==
    LET page == ListHintsPaged(parseIntDefault(fetchLimit, 10, PageCap), 0)
    IN  /\ pc[c] = "fetch"
        /\ got' = [got EXCEPT ![c] = page]
        /\ pc' = [pc EXCEPT ![c] = IF page # <<>> THEN "fetch" ELSE "use"]
        /\ UNCHANGED <<catVars, offset, fetches, moments, nodeRecs, job, fix>>

(* fetchHints asks for a page; an empty one, and one shorter than it asked
   for, is the last.                                                       *)
FetchPage(c) ==
    LET page == ListHintsPaged(parseIntDefault(fetchLimit, 10, PageCap),
                               parseIntDefault(offset[c], 0, OffsetCap))
        more == page # <<>> /\ Len(page) >= fetchLimit
    IN  /\ pc[c] = "fetch"
        /\ got' = [got EXCEPT ![c] = @ \o page]
        /\ pc' = [pc EXCEPT ![c] = IF more THEN "fetch" ELSE "use"]
        /\ offset' = [offset EXCEPT ![c] = IF more THEN @ + Len(page) ELSE @]
        /\ UNCHANGED <<catVars, fetches, moments, nodeRecs, job, fix>>

(* A page does not arrive: the planner goes on with the pages it has, a
   drain without any hint.                                                 *)
FetchFails(c) ==
    /\ pc[c] = "fetch"
    /\ got' = [got EXCEPT ![c] = IF c = "drain" THEN <<>> ELSE @]
    /\ pc' = [pc EXCEPT ![c] = "use"]
    /\ UNCHANGED <<catVars, offset, fetches, moments, nodeRecs, job, fix>>

-----------------------------------------------------------------------------
StartPlan ==
    /\ StartFetch("planner")
    /\ UNCHANGED <<catVars, nodeRecs, job, fix>>

(* AttachHints: every node of the new plan gets the recipes of its hints.  *)
AttachHints ==
    /\ pc["planner"] = "use"
    /\ pc' = [pc EXCEPT !["planner"] = "idle"]
    /\ nodeRecs' = [n \in Node |-> matchHints(got["planner"], n)]
    /\ UNCHANGED <<catVars, offset, got, fetches, moments, job, fix>>

(* A drain's builds are over, and one has failed: its job had the recipes
   of the plan's node.                                                     *)
StartFix(n) ==
    /\ StartFetch("drain")
    /\ job' = [NoJob EXCEPT !.ctx = n, !.recs = nodeRecs[n]]
    /\ fix' = NoFix
    /\ UNCHANGED <<catVars, nodeRecs>>

(* Auto-fix of the failed job.  Its log, the recipes its row in the queue
   brought (Worker.match puts them first) and the worker's setting are
   known before the fetch; nothing depends on them until here.             *)
AutoFix(f) ==
    /\ pc["drain"] = "use"
    /\ pc' = [pc EXCEPT !["drain"] = "idle"]
    /\ job' = [job EXCEPT !.log = f.log, !.recs = mergeRecipes({}, <<SetToSeq(f.recs), SetToSeq(@)>>),
                          !.threshold = autoFixThreshold(f.conf)]
    /\ fix' = autoFix(job'.recs, job.ctx, tailLogLines(f.log, LogTail), got["drain"], job'.threshold)
    /\ UNCHANGED <<catVars, offset, got, fetches, moments, nodeRecs>>

-----------------------------------------------------------------------------
Init ==
    /\ rows = SeedHintsFromDir(<<>>, {})
    /\ bulk = <<>> /\ edits = 0
    /\ pc = [c \in Client |-> "idle"]
    /\ offset = [c \in Client |-> 0]
    /\ got = [c \in Client |-> <<>>]
    /\ fetches = [c \in Client |-> 0]
    /\ moments = [c \in Client |-> {}]
    /\ nodeRecs = [n \in Node |-> {}]
    /\ job = NoJob /\ fix = NoFix

Next ==
    \/ \E raw \in Raw : HintsPost(raw) \/ \E i \in ToSet(IdOrder) : HintByIDPut(i, raw)
    \/ \E i \in ToSet(IdOrder) : HintByIDDelete(i)
    \/ \E p \in Payloads : HintsBulk(p)
    \/ BulkNext \/ Restart
    \/ StartPlan \/ AttachHints
    \/ \E n \in Node : StartFix(n)
    \/ \E f \in Failures : AutoFix(f)
    \/ \E c \in Client : FetchPage(c) \/ FetchFails(c)

(* The loops of the worker take their next step: every request has a
   timeout, after which it has failed.  (Uses stands for AttachHints and
   AutoFix, the only steps by which a client is done.)                       *)
Uses(c) == pc[c] = "use" /\ pc' = [pc EXCEPT ![c] = "idle"]

Fairness == \A c \in Client : WF_vars(FetchPage(c)) /\ WF_pc(Uses(c))

Spec == Init /\ [][Next]_vars /\ Fairness

-----------------------------------------------------------------------------
(* Types; every row holds a hint that NormalizeHint leaves alone and
   ValidateHint accepts, by whatever way it came.                          *)
TypeOK ==
    /\ \A i \in DOMAIN rows : /\ rows[i].deleted \in BOOLEAN
                              /\ rows[i].hint.id = i
                              /\ ValidateHint(rows[i].hint)
                              /\ NormalizeHint(rows[i].hint) = rows[i].hint
    /\ edits \in 0..MaxEdits
    /\ pc \in [Client -> {"idle", "fetch", "use"}]
    /\ \A c \in Client : offset[c] \in Nat /\ fetches[c] \in 0..MaxFetches

(* What a client reads is the catalogue as it was at one moment of its
   fetch, from the first hint on and as far as a page goes at least: however
   the table changes meanwhile, no hint is skipped, none is read twice, and
   none that was deleted before is read.                                   *)
FetchedAtOneMoment ==
    \A c \in Client :
        got[c] # <<>> => \E m \in moments[c] : IsPrefix(got[c], m) /\ Len(got[c]) >= Min({PageCap, Len(m)})

Adds == {r \in fix.recs : \A s \in job.recs : FoldRecipe(s) # FoldRecipe(r)}

(* The hint stands behind recipe r that auto-fix added: it has the recipe,
   and it matches the job's log or was inferred from it.                   *)
Supports(h, r) == r \in ToSet(h.recs) /\ (h = fix.cand \/ MatchHintForLog(h, job.ctx, job.log))

Sources == ToSet(got["drain"]) \cup ({fix.cand} \ {NoHint})

(* The gate: every recipe that auto-fix adds stands in a hint that matches
   the job's log, or was inferred from it, and whose confidence does not
   compare as less than the wanted one (which is all a NaN has to do).     *)
GateHolds ==
    fix.applied =>
        \A r \in Adds : \E h \in Sources :
            Supports(h, r) /\ ~ Below(confidenceScore(h.conf), job.threshold)

(* A retry that auto-fix asks for is never the same build again: the job
   keeps its recipes and gets at least one that is new up to case.         *)
FixChangesJob == fix.applied => job.recs \subseteq fix.recs /\ Adds # {}

(* A hint that was inferred matches the failure it was inferred from, in
   the same context: put into the catalogue, it serves the next failure.
   Two cases are outside: a package whose name has an underscore (the hint
   keeps it, the matchers replace it), and a failure in other words than
   the pattern's.                                                          *)
InferredHintRecurs ==
    (/\ fix.cand # NoHint
     /\ Fold(job.ctx.pkg) \notin DOMAIN Dashed
     /\ fix.cand.pattern \in fix.cand.exs)
    => MatchHintForLog(NormalizeHint(fix.cand), job.ctx, tailLogLines(job.log, LogTail))

(* Every fetch ends, and what waits for it goes on, however often the
   catalogue changes.                                                      *)
FetchEnds == \A c \in Client : pc[c] = "fetch" ~> pc[c] = "idle"
=============================================================================
