-------------------------- MODULE HintCatalogProofs --------------------------
(***************************************************************************)
(* For every catalogue, payload, plan and log: a fetch reads the catalogue *)
(* of one moment, what auto-fix adds has passed the gate, a retry that it  *)
(* asks for is not the same build again, the hint it infers matches the    *)
(* failure it was inferred from, and every row holds a hint that is        *)
(* normalised and valid.                                                   *)
(*                                                                         *)
(* A fetch that reads one page reads one moment: the first page is always  *)
(* shorter than the worker asked for, because the handler grants less, so  *)
(* it is the last (FetchInv).  The outcome of auto-fix is about the hints  *)
(* and the job it was computed from: both stay as they are until the next  *)
(* fix begins, which clears it (FixInv).  The inferred hint is that of the *)
(* job's log and context (CandInv), and what it applies to is made from    *)
(* the values the matcher compares with.  Every writer of a row normalises *)
(* the hint first, and normalising twice is normalising once (RowsInv).    *)
(***************************************************************************)
EXTENDS HintCatalog, ListProofs

FetchInv ==
    /\ pc \in [Client -> {"idle", "fetch", "use"}]
    /\ offset = [c \in Client |-> offset[c]] /\ got = [c \in Client |-> got[c]]
    /\ moments = [c \in Client |-> moments[c]]
    /\ \A c \in Client : pc[c] = "fetch" =>
          got[c] = <<>> /\ offset[c] = 0 /\ Catalogue(rows) \in moments[c]

(* What auto-fix made of the job with recipes R, context x, log l and
   threshold t, with hints G.                                              *)
FixOf(o, R, x, l, t, G) ==
    o.applied =>
        /\ R \subseteq o.recs
        /\ \E r \in o.recs : \A s \in R : FoldRecipe(s) # FoldRecipe(r)
        /\ \A r \in o.recs : (\A s \in R : FoldRecipe(s) # FoldRecipe(r)) =>
              \E h \in ToSet(G) \cup ({o.cand} \ {NoHint}) :
                 /\ r \in ToSet(h.recs)
                 /\ ~ Below(confidenceScore(h.conf), t)
                 /\ h = o.cand \/ MatchHintForLog(h, x, l)

FixInv ==
    /\ pc = [c \in Client |-> pc[c]] /\ got = [c \in Client |-> got[c]]
    /\ job = [ctx |-> job.ctx, log |-> job.log, recs |-> job.recs, threshold |-> job.threshold]
    /\ pc["drain"] # "idle" => fix = NoFix
    /\ FixOf(fix, job.recs, job.ctx, job.log, job.threshold, got["drain"])

(* The hint that was inferred is that of the failed job.                   *)
CandInv ==
    /\ job.log \in Seq(ToSet(job.log))
    /\ fix.cand # NoHint => fix.cand = inferHintFromLog(tailLogLines(job.log, LogTail), job.ctx)

(* A row holds a hint under its id, normalised and valid.                  *)
RowOK(r, i) ==
    /\ DOMAIN r = {"hint", "deleted"} /\ r.deleted \in BOOLEAN
    /\ r.hint.id = i /\ ValidateHint(r.hint) /\ NormalizeHint(r.hint) = r.hint

TableOK(tab) == \A i \in DOMAIN tab : RowOK(tab[i], i)

RowsInv ==
    /\ TableOK(rows)
    /\ bulk \in Seq(ToSet(bulk)) /\ \A h \in ToSet(bulk) : IsHint(h)

CountInv ==
    /\ edits \in 0..MaxEdits
    /\ pc \in [Client -> {"idle", "fetch", "use"}]
    /\ offset \in [Client -> Nat] /\ fetches \in [Client -> 0..MaxFetches]

-----------------------------------------------------------------------------
(* The operators.                                                          *)

(* Merging keeps what there is, and adds only what is new up to case.      *)
LEMMA MergeFacts ==
    ASSUME NEW a, NEW lists
    PROVE  /\ a \subseteq mergeRecipes(a, lists)
           /\ \A r \in mergeRecipes(a, lists) : r \notin a =>
                 /\ \A s \in a : FoldRecipe(s) # FoldRecipe(r)
                 /\ \E i \in DOMAIN lists : \E k \in DOMAIN lists[i] : r = lists[i][k]
<1> DEFINE Place == UNION {{i} \X DOMAIN lists[i] : i \in DOMAIN lists}
           at(p) == lists[p[1]][p[2]]
           before(p, o) == p[1] < o[1] \/ (p[1] = o[1] /\ p[2] < o[2])
           new(o) == /\ \A s \in a : FoldRecipe(s) # FoldRecipe(at(o))
                     /\ \A p \in Place : before(p, o) => FoldRecipe(at(p)) # FoldRecipe(at(o))
<1>1. mergeRecipes(a, lists) = a \cup {at(o) : o \in {p \in Place : new(p)}}
  BY Zenon DEF mergeRecipes
<1>2. \A p \in Place : p[1] \in DOMAIN lists /\ p[2] \in DOMAIN lists[p[1]]
  OBVIOUS
<1> HIDE DEF Place, before
<1>3. ASSUME NEW r \in mergeRecipes(a, lists), r \notin a
      PROVE  /\ \A s \in a : FoldRecipe(s) # FoldRecipe(r)
             /\ \E i \in DOMAIN lists : \E k \in DOMAIN lists[i] : r = lists[i][k]
  <2>1. PICK o \in Place : new(o) /\ r = at(o)
    BY <1>1, <1>3
  <2> QED
    BY <1>2, <2>1
<1> QED
  BY <1>1, <1>3

(* A line among the last is a line of the log.                             *)
LEMMA TailMatches ==
    ASSUME NEW l, l \in Seq(ToSet(l)), NEW h, NEW x, MatchHintForLog(h, x, tailLogLines(l, LogTail))
    PROVE  MatchHintForLog(h, x, l)
<1>1. LogTail \in Nat /\ Len(l) \in Nat
  BY HintCatalogAssumption
<1> SUFFICES ASSUME NEW i \in DOMAIN tailLogLines(l, LogTail)
             PROVE  \E k \in DOMAIN l : l[k] = tailLogLines(l, LogTail)[i]
  BY Zenon DEF MatchHintForLog
<1>2. CASE Len(l) <= LogTail
  BY <1>2 DEF tailLogLines
<1>3. CASE ~(Len(l) <= LogTail)
  <2> DEFINE m == Len(l) - LogTail + 1
  <2>1. tailLogLines(l, LogTail) = SubSeq(l, m, Len(l))
    BY <1>3 DEF tailLogLines
  <2>2. m \in Int /\ m >= 1 /\ m <= Len(l) + 1
    BY <1>1, <1>3
  <2> HIDE DEF m
  <2>3. SubSeq(l, m, Len(l)) = [k \in 1..(Len(l) - m + 1) |-> l[m + k - 1]]
    BY <1>1, <2>2
  <2>4. i \in 1..(Len(l) - m + 1) /\ tailLogLines(l, LogTail)[i] = l[m + i - 1]
    BY <2>1, <2>3
  <2>5. m + i - 1 \in 1..Len(l)
    BY <1>1, <2>2, <2>4
  <2> QED
    BY <2>4, <2>5
<1> QED
  BY <1>2, <1>3

(* The hints auto-fix takes recipes from have passed the gate.             *)
LEMMA AutoFixFacts ==
    ASSUME NEW R, NEW x, NEW l, NEW G, NEW t
    PROVE  FixOf(autoFix(R, x, l, G, t), R, x, l, t, G)
<1> DEFINE matched == {h \in ToSet(G) : MatchHintForLog(h, x, l)}
           good == {h \in matched : ~ Below(confidenceScore(h.conf), t)}
           cand == IF \A h \in good : h.recs = <<>> THEN inferHintFromLog(l, x) ELSE NoHint
           o == autoFix(R, x, l, G, t)
<1>1. PICK lists :
         \/ ~ o.applied
         \/ /\ mergeRecipes(R, lists) # R /\ o.recs = mergeRecipes(R, lists)
            /\ o.cand = cand
            /\ \/ cand = NoHint /\ lists = RecipesOf(G, good)
               \/ /\ cand # NoHint /\ ~ Below(confidenceScore(cand.conf), t)
                  /\ lists = <<cand.recs>>
  BY DEF autoFix
<1> SUFFICES ASSUME o.applied
             PROVE  /\ R \subseteq o.recs
                    /\ \E r \in o.recs : \A s \in R : FoldRecipe(s) # FoldRecipe(r)
                    /\ \A r \in o.recs : (\A s \in R : FoldRecipe(s) # FoldRecipe(r)) =>
                          \E h \in ToSet(G) \cup ({o.cand} \ {NoHint}) :
                             /\ r \in ToSet(h.recs)
                             /\ ~ Below(confidenceScore(h.conf), t)
                             /\ h = o.cand \/ MatchHintForLog(h, x, l)
  BY Zenon DEF FixOf
<1> HIDE DEF o, cand
<1>2. /\ R \subseteq o.recs /\ o.recs # R /\ o.cand = cand
      /\ \A r \in o.recs : r \notin R =>
            /\ \A s \in R : FoldRecipe(s) # FoldRecipe(r)
            /\ \E i \in DOMAIN lists : \E k \in DOMAIN lists[i] : r = lists[i][k]
  <2>1. o.recs = mergeRecipes(R, lists) /\ mergeRecipes(R, lists) # R /\ o.cand = cand
    BY <1>1
  <2> QED
    BY <2>1, MergeFacts
<1>3. \E r \in o.recs : r \notin R
  BY <1>2
<1>4. ASSUME NEW r \in o.recs, \A s \in R : FoldRecipe(s) # FoldRecipe(r)
      PROVE  \E h \in ToSet(G) \cup ({o.cand} \ {NoHint}) :
                /\ r \in ToSet(h.recs)
                /\ ~ Below(confidenceScore(h.conf), t)
                /\ h = o.cand \/ MatchHintForLog(h, x, l)
  <2>1. r \notin R
    BY <1>4
  <2>2. PICK i \in DOMAIN lists : \E k \in DOMAIN lists[i] : r = lists[i][k]
    BY <1>2, <2>1
  <2>3. CASE cand = NoHint /\ lists = RecipesOf(G, good)
    <3>1. i \in DOMAIN G /\ G[i] \in good /\ lists[i] = G[i].recs
      BY <2>3 DEF RecipesOf
    <3>2. r \in ToSet(G[i].recs)
      BY <2>2, <3>1 DEF ToSet
    <3> QED
      BY <3>1, <3>2
  <2>4. CASE cand # NoHint /\ ~ Below(confidenceScore(cand.conf), t) /\ lists = <<cand.recs>>
    <3>1. lists[i] = cand.recs
      BY <2>4
    <3>2. r \in ToSet(cand.recs)
      BY <2>2, <3>1 DEF ToSet
    <3> QED
      BY <1>2, <2>4, <3>2
  <2> QED
    BY <1>1, <2>3, <2>4
<1> QED
  BY <1>2, <1>3, <1>4

(* The catalogue is a list.                                                *)
LEMMA CatalogueIsList ==
    ASSUME NEW tab
    PROVE  /\ Len(Catalogue(tab)) \in Nat /\ DOMAIN Catalogue(tab) = 1..Len(Catalogue(tab))
           /\ \E S : Catalogue(tab) \in Seq(S)
<1> DEFINE n == Cardinality(Live(tab))
           q == Catalogue(tab)
<1>1. n \in Nat
  <2>1. DOMAIN IdOrder = 1..Len(IdOrder) /\ Len(IdOrder) \in Nat
    BY HintCatalogAssumption
  <2>2. IsFiniteSet(1..Len(IdOrder))
    BY <2>1, FS_Interval
  <2>3. Live(tab) \subseteq 1..Len(IdOrder)
    BY <2>1 DEF Live
  <2> QED
    BY <2>2, <2>3, FS_Subset, FS_CardinalityType
<1>2. /\ q = [k \in 1..n |-> q[k]]
  BY DEF Catalogue, AtPlaces
<1> HIDE DEF n, q
<1>3. q \in Seq({q[k] : k \in 1..n}) /\ Len(q) = n
  BY <1>1, <1>2
<1> QED
  BY <1>1, <1>2, <1>3 DEF q

(* The first page: the catalogue as far as a page goes, and shorter than
   what the worker asked for.                                              *)
LEMMA FirstPage ==
    ASSUME PageCap < FetchLimit, NEW q, NEW S, q \in Seq(S)
    PROVE  LET page == Slice(q, 1, PageCap) IN
           /\ page \in Seq(S) /\ Len(page) < fetchLimit
           /\ IsPrefix(page, q) /\ Len(page) >= Min({PageCap, Len(q)})
<1> DEFINE m == Min({PageCap, Len(q)})
           page == Slice(q, 1, PageCap)
<1>1. PageCap \in Nat \ {0} /\ FetchLimit \in Nat /\ Len(q) \in Nat
  BY HintCatalogAssumption
<1>2. m \in {PageCap, Len(q)} /\ m <= PageCap /\ m <= Len(q)
  <2>1. \E a \in {PageCap, Len(q)} : \A b \in {PageCap, Len(q)} : a <= b
    <3>1. CASE PageCap <= Len(q)
      BY <1>1, <3>1
    <3>2. CASE ~(PageCap <= Len(q))
      BY <1>1, <3>2
    <3> QED
      BY <3>1, <3>2
  <2> QED
    BY <2>1 DEF Min
<1> HIDE DEF m
<1>3. page = SubSeq(q, 1, m) /\ m \in Nat
  BY <1>1, <1>2 DEF Slice, m
<1>4. /\ SubSeq(q, 1, m) = [k \in 1..m |-> q[k]]
      /\ \A k \in 1..m : q[k] \in S
  BY <1>1, <1>2, <1>3
<1>5. page \in Seq(S) /\ Len(page) = m
  BY <1>3, <1>4
<1>6. IsPrefix(page, q)
  <2>1. SubSeq(page, 1, m) = [k \in 1..m |-> page[k]]
    BY <1>3, <1>5
  <2>2. SubSeq(page, 1, m) = SubSeq(q, 1, m)
    BY <1>3, <1>4, <2>1
  <2> QED
    BY <1>2, <1>5, <2>2 DEF IsPrefix
<1>7. Len(page) < fetchLimit /\ Len(page) >= m
  BY <1>1, <1>2, <1>3, <1>5 DEF fetchLimit
<1> QED
  BY <1>5, <1>6, <1>7 DEF m

-----------------------------------------------------------------------------
(* What clients read.                                                      *)
Reads == FetchInv /\ FetchedAtOneMoment

LEMMA HintInitInv == Init => Reads /\ FixInv
<1> SUFFICES ASSUME Init PROVE Reads /\ FixInv
  OBVIOUS
<1>1. FetchInv
  BY DEF Init, FetchInv
<1>2. FetchedAtOneMoment
  BY DEF Init, FetchedAtOneMoment
<1>3. ~ fix.applied
  BY DEF Init, NoFix
<1>4. FixOf(fix, job.recs, job.ctx, job.log, job.threshold, got["drain"])
  BY <1>3, Zenon DEF FixOf
<1>5. FixInv
  BY <1>4 DEF Init, FixInv, NoJob, Client
<1> QED
  BY <1>1, <1>2, <1>5 DEF Reads

(* A step that changes the table and no client.                            *)
LEMMA SetRowsStep ==
    ASSUME Reads, NEW tab, SetRows(tab), UNCHANGED clientVars
    PROVE  Reads'
<1>1. /\ rows' = tab /\ UNCHANGED <<pc, offset, got>>
      /\ moments' = [c \in Client |-> IF pc[c] = "fetch" THEN moments[c] \cup {Catalogue(tab)}
                                                        ELSE moments[c]]
  BY DEF SetRows, clientVars
<1>2. Catalogue(rows)' = Catalogue(tab)
  BY <1>1 DEF Catalogue, Live
<1>3. \A c \in Client : moments[c] \subseteq moments'[c]
  BY <1>1
<1>4. FetchInv'
  BY <1>1, <1>2 DEF Reads, FetchInv
<1>5. FetchedAtOneMoment'
  BY <1>1, <1>3 DEF Reads, FetchedAtOneMoment
<1> QED
  BY <1>4, <1>5 DEF Reads

(* A step that leaves the table and what clients have read, or lets go of
   it, and ends fetches at most.                                           *)
LEMMA ReadsFrame ==
    ASSUME Reads, UNCHANGED <<offset, moments>>,
           pc' = [c \in Client |-> pc'[c]], got' = [c \in Client |-> got'[c]],
           \A c \in Client : /\ pc'[c] \in {"idle", "fetch", "use"}
                             /\ got'[c] = got[c] \/ got'[c] = <<>>
                             /\ pc'[c] = "fetch" => pc[c] = "fetch" /\ rows' = rows
    PROVE  Reads'
<1>1. FetchInv'
  <2>1. ASSUME NEW c \in Client, pc'[c] = "fetch"
        PROVE  got'[c] = <<>> /\ offset'[c] = 0 /\ (Catalogue(rows) \in moments[c])'
    <3>1. rows' = rows /\ pc[c] = "fetch"
      BY <2>1
    <3>2. Catalogue(rows)' = Catalogue(rows)
      BY <3>1 DEF Catalogue, Live
    <3> QED
      BY <3>1, <3>2 DEF Reads, FetchInv
  <2>2. pc' \in [Client -> {"idle", "fetch", "use"}]
    OBVIOUS
  <2> QED
    BY <2>1, <2>2 DEF Reads, FetchInv
<1>2. FetchedAtOneMoment'
  BY DEF Reads, FetchedAtOneMoment
<1> QED
  BY <1>1, <1>2 DEF Reads

LEMMA StartFetchStep ==
    ASSUME Reads, NEW c \in Client, StartFetch(c), rows' = rows
    PROVE  Reads'
<1>1. Catalogue(rows)' = Catalogue(rows)
  BY DEF Catalogue, Live
<1>2. FetchInv'
  BY <1>1 DEF Reads, FetchInv, StartFetch
<1>3. FetchedAtOneMoment'
  BY DEF Reads, FetchInv, StartFetch, FetchedAtOneMoment
<1> QED
  BY <1>2, <1>3 DEF Reads

(* The only page of a fetch.                                               *)
LEMMA FetchPageStep ==
    ASSUME PageCap < FetchLimit, Reads, NEW c \in Client, FetchPage(c)
    PROVE  Reads'
<1>1. pc[c] = "fetch" /\ UNCHANGED <<rows, moments>>
  BY DEF FetchPage, catVars
<1>2. got[c] = <<>> /\ offset[c] = 0 /\ Catalogue(rows) \in moments[c]
  BY <1>1 DEF Reads, FetchInv
<1>3. PICK q, S : q = Catalogue(rows) /\ q \in Seq(S)
  BY CatalogueIsList
<1>4. PICK page : page = Slice(q, 1, PageCap)
  OBVIOUS
<1>5. /\ page \in Seq(S) /\ Len(page) < fetchLimit
      /\ IsPrefix(page, q) /\ Len(page) >= Min({PageCap, Len(q)})
  BY <1>3, <1>4, FirstPage
<1>6. parseIntDefault(fetchLimit, 10, PageCap) = PageCap /\ parseIntDefault(0, 0, OffsetCap) = 0
  BY HintCatalogAssumption DEF parseIntDefault, fetchLimit
<1>7. ListHintsPaged(parseIntDefault(fetchLimit, 10, PageCap),
                     parseIntDefault(offset[c], 0, OffsetCap)) = page
  <2>1. PageCap \in Nat
    BY HintCatalogAssumption
  <2>2. 0 + 1 = 1 /\ 0 + PageCap = PageCap
    BY <2>1
  <2> QED
    BY <1>2, <1>3, <1>4, <1>6, <2>2 DEF ListHintsPaged
<1>8. Len(page) \in Nat /\ fetchLimit \in Nat
  BY <1>5, HintCatalogAssumption DEF fetchLimit
<1>9. ~ (page # <<>> /\ Len(page) >= fetchLimit)
  BY <1>5, <1>8
<1>10. /\ got' = [got EXCEPT ![c] = got[c] \o page]
       /\ pc' = [pc EXCEPT ![c] = "use"]
       /\ offset' = [offset EXCEPT ![c] = offset[c]]
  BY <1>7, <1>9 DEF FetchPage
<1>11. got[c] \o page = page
  BY <1>2, <1>5, ConcatEmptySeq
<1>12. FetchInv'
  <2>1. Catalogue(rows)' = Catalogue(rows)
    BY <1>1 DEF Catalogue, Live
  <2> QED
    BY <1>1, <1>10, <2>1 DEF Reads, FetchInv
<1>13. FetchedAtOneMoment'
  <2> SUFFICES ASSUME NEW d \in Client, got'[d] # <<>>
               PROVE  \E m \in moments'[d] :
                         IsPrefix(got'[d], m) /\ Len(got'[d]) >= Min({PageCap, Len(m)})
    BY DEF FetchedAtOneMoment
  <2>1. CASE d = c
    <3>1. got'[d] = page /\ q \in moments'[d]
      BY <1>1, <1>2, <1>3, <1>10, <1>11, <2>1 DEF Reads, FetchInv
    <3> QED
      BY <1>5, <3>1
  <2>2. CASE d # c
    <3>1. got'[d] = got[d] /\ moments'[d] = moments[d]
      BY <1>1, <1>10, <2>2 DEF Reads, FetchInv
    <3> QED
      BY <3>1 DEF Reads, FetchedAtOneMoment
  <2> QED
    BY <2>1, <2>2
<1> QED
  BY <1>12, <1>13 DEF Reads

LEMMA ReadsStepInv ==
    ASSUME PageCap < FetchLimit, Reads, [Next]_vars
    PROVE  Reads'
<1>1. ASSUME NEW tab, SetRows(tab), UNCHANGED clientVars PROVE Reads'
  BY <1>1, SetRowsStep
<1>2. ASSUME UNCHANGED <<rows, moments>>, UNCHANGED clientVars PROVE Reads'
  <2>1. UNCHANGED <<rows, moments, pc, offset, got>>
    BY <1>2 DEF clientVars
  <2>2. Catalogue(rows)' = Catalogue(rows)
    BY <2>1 DEF Catalogue, Live
  <2> QED
    BY <2>1, <2>2 DEF Reads, FetchInv, FetchedAtOneMoment
<1>3. ASSUME NEW raw \in Raw, HintsPost(raw) PROVE Reads'
  BY <1>1, <1>3, Zenon DEF HintsPost
<1>4. ASSUME NEW raw \in Raw, NEW i \in ToSet(IdOrder), HintByIDPut(i, raw) PROVE Reads'
  BY <1>1, <1>4, Zenon DEF HintByIDPut
<1>5. ASSUME NEW i \in ToSet(IdOrder), HintByIDDelete(i) PROVE Reads'
  BY <1>1, <1>5, Zenon DEF HintByIDDelete
<1>6. ASSUME NEW p \in Payloads, HintsBulk(p) PROVE Reads'
  BY <1>2, <1>6 DEF HintsBulk
<1>7. CASE BulkNext
  BY <1>1, <1>2, <1>7, Zenon DEF BulkNext
<1>8. CASE Restart
  <2>1. /\ pc' = [c \in Client |-> IF pc[c] = "fetch" THEN "use" ELSE pc[c]]
        /\ got' = [c \in Client |-> IF pc[c] = "fetch" /\ c = "drain" THEN <<>> ELSE got[c]]
        /\ UNCHANGED <<offset, moments>>
    BY <1>8 DEF Restart
  <2>2. \A c \in Client : /\ pc'[c] \in {"idle", "fetch", "use"}
                          /\ got'[c] = got[c] \/ got'[c] = <<>>
                          /\ pc'[c] # "fetch"
    BY <2>1 DEF Reads, FetchInv
  <2>3. pc' = [c \in Client |-> pc'[c]] /\ got' = [c \in Client |-> got'[c]]
    BY <2>1
  <2> QED
    BY <2>1, <2>2, <2>3, ReadsFrame
<1>9. CASE StartPlan
  <2>1. StartFetch("planner") /\ rows' = rows /\ "planner" \in Client
    BY <1>9 DEF StartPlan, catVars, Client
  <2> QED
    BY <2>1, StartFetchStep
<1>10. ASSUME NEW n \in Node, StartFix(n) PROVE Reads'
  <2>1. StartFetch("drain") /\ rows' = rows /\ "drain" \in Client
    BY <1>10 DEF StartFix, catVars, Client
  <2> QED
    BY <2>1, StartFetchStep
<1>11. ASSUME NEW c \in Client,
              /\ pc' = [pc EXCEPT ![c] = "use"] \/ pc' = [pc EXCEPT ![c] = "idle"]
              /\ \/ got' = got \/ got' = [got EXCEPT ![c] = <<>>]
              /\ UNCHANGED <<rows, offset, moments>>
       PROVE  Reads'
  <2>1. /\ pc \in [Client -> {"idle", "fetch", "use"}] /\ got = [d \in Client |-> got[d]]
    BY DEF Reads, FetchInv
  <2>2. pc' = [d \in Client |-> pc'[d]] /\ got' = [d \in Client |-> got'[d]]
    BY <1>11, <2>1
  <2>3. \A d \in Client : /\ pc'[d] \in {"idle", "fetch", "use"}
                          /\ got'[d] = got[d] \/ got'[d] = <<>>
                          /\ pc'[d] = "fetch" => pc[d] = "fetch" /\ rows' = rows
    BY <1>11, <2>1
  <2> QED
    BY <1>11, <2>2, <2>3, ReadsFrame
<1>12. CASE AttachHints
  <2>1. "planner" \in Client
    BY DEF Client
  <2> QED
    BY <1>11, <1>12, <2>1 DEF AttachHints, catVars
<1>13. ASSUME NEW f \in Failures, AutoFix(f) PROVE Reads'
  <2>1. "drain" \in Client
    BY DEF Client
  <2>2. pc' = [pc EXCEPT !["drain"] = "idle"] /\ UNCHANGED <<rows, offset, got, moments>>
    BY <1>13 DEF AutoFix, catVars
  <2> QED
    BY <1>11, <2>1, <2>2
<1>14. ASSUME NEW c \in Client, FetchPage(c) PROVE Reads'
  BY <1>14, FetchPageStep
<1>15. ASSUME NEW c \in Client, FetchFails(c) PROVE Reads'
  <2>1. /\ pc' = [pc EXCEPT ![c] = "use"] /\ UNCHANGED <<rows, offset, moments>>
        /\ got' = [got EXCEPT ![c] = IF c = "drain" THEN <<>> ELSE got[c]]
    BY <1>15 DEF FetchFails, catVars
  <2>2. got' = got \/ got' = [got EXCEPT ![c] = <<>>]
    BY <2>1 DEF Reads, FetchInv
  <2> QED
    BY <1>11, <2>1, <2>2
<1>16. CASE UNCHANGED vars
  BY <1>2, <1>16 DEF vars, clientVars
<1> QED
  BY <1>3, <1>4, <1>5, <1>6, <1>7, <1>8, <1>9, <1>10, <1>12, <1>13, <1>14, <1>15, <1>16 DEF Next

(* As long as the handler grants fewer hints than the worker asks for (200
   of 500), a client reads the catalogue as it was at one moment of its
   fetch, from the first hint on and as far as a page goes at least.       *)
THEOREM FetchIsOneMoment ==
    ASSUME PageCap < FetchLimit
    PROVE  Spec => []FetchedAtOneMoment
<1>1. Init => Reads
  BY HintInitInv
<1>2. Reads /\ [Next]_vars => Reads'
  BY ReadsStepInv
<1>3. Reads => FetchedAtOneMoment
  BY DEF Reads
<1> QED
  BY <1>1, <1>2, <1>3, PTL DEF Spec

-----------------------------------------------------------------------------
(* What auto-fix makes of a failed job.                                    *)

LEMMA NoFixHolds ==
    ASSUME NEW R, NEW x, NEW l, NEW t, NEW G
    PROVE  FixOf(NoFix, R, x, l, t, G)
<1>1. ~ NoFix.applied
  BY DEF NoFix
<1> QED
  BY <1>1, Zenon DEF FixOf

(* A step that leaves the job and its outcome alone, and the hints the
   drain has read unless it is fetching.                                   *)
LEMMA FixFrame ==
    ASSUME FixInv, UNCHANGED <<job, fix>>,
           pc' = [c \in Client |-> pc'[c]], got' = [c \in Client |-> got'[c]],
           pc'["drain"] # "idle" => pc["drain"] # "idle",
           pc["drain"] = "idle" => got'["drain"] = got["drain"]
    PROVE  FixInv'
<1>1. FixOf(fix, job.recs, job.ctx, job.log, job.threshold, got'["drain"])
  <2>1. CASE fix = NoFix
    BY <2>1, NoFixHolds
  <2>2. CASE fix # NoFix
    <3>1. got'["drain"] = got["drain"]
      BY <2>2 DEF FixInv
    <3> QED
      BY <3>1 DEF FixInv
  <2> QED
    BY <2>1, <2>2
<1>2. fix' = fix /\ job' = job
  OBVIOUS
<1>3. FixOf(fix', job'.recs, job'.ctx, job'.log, job'.threshold, got'["drain"])
  BY <1>1, <1>2
<1> QED
  BY <1>2, <1>3 DEF FixInv

LEMMA AutoFixStep ==
    ASSUME FixInv, NEW f \in Failures, AutoFix(f)
    PROVE  FixInv'
<1>1. PICK R, x, l, t, G :
         /\ R = mergeRecipes({}, <<SetToSeq(f.recs), SetToSeq(job.recs)>>) /\ x = job.ctx
         /\ l = f.log /\ t = autoFixThreshold(f.conf) /\ G = got["drain"]
  OBVIOUS
<1>2. job' = [job EXCEPT !.log = l, !.recs = R, !.threshold = t]
  BY <1>1 DEF AutoFix
<1>3. job' = [ctx |-> x, log |-> l, recs |-> R, threshold |-> t]
  BY <1>1, <1>2 DEF FixInv
<1>4. job'.ctx = x /\ job'.log = l /\ job'.recs = R /\ job'.threshold = t
  BY <1>3
<1>5. fix' = autoFix(R, x, tailLogLines(l, LogTail), G, t)
  BY <1>1, <1>4 DEF AutoFix
<1>6. l \in Seq(ToSet(l))
  BY <1>1, HintCatalogAssumption
<1>7. PICK o : o = fix'
  OBVIOUS
<1>8. FixOf(o, R, x, tailLogLines(l, LogTail), t, G)
  BY <1>5, <1>7, AutoFixFacts
<1>9. \A h : MatchHintForLog(h, x, tailLogLines(l, LogTail)) => MatchHintForLog(h, x, l)
  BY <1>6, TailMatches
<1>10. FixOf(o, R, x, l, t, G)
  BY <1>8, <1>9, Zenon DEF FixOf
<1>11. /\ got' = got /\ pc' = [pc EXCEPT !["drain"] = "idle"]
  BY DEF AutoFix
<1>12. pc'["drain"] = "idle" /\ pc' = [c \in Client |-> pc'[c]] /\ got' = [c \in Client |-> got'[c]]
  BY <1>11 DEF FixInv, Client
<1>13. FixOf(fix', job'.recs, job'.ctx, job'.log, job'.threshold, got'["drain"])
  BY <1>1, <1>4, <1>7, <1>10, <1>11
<1> QED
  BY <1>3, <1>4, <1>12, <1>13 DEF FixInv

LEMMA FixStepInv ==
    ASSUME FixInv, [Next]_vars
    PROVE  FixInv'
<1> USE DEF Client
<1>0. pc = [c \in Client |-> pc[c]] /\ got = [c \in Client |-> got[c]]
  BY DEF FixInv
<1>1. ASSUME UNCHANGED <<pc, got, job, fix>> PROVE FixInv'
  BY <1>0, <1>1, FixFrame
<1>2. CASE \/ \E raw \in Raw : HintsPost(raw) \/ \E i \in ToSet(IdOrder) : HintByIDPut(i, raw)
           \/ \E i \in ToSet(IdOrder) : HintByIDDelete(i)
           \/ \E p \in Payloads : HintsBulk(p)
           \/ BulkNext
  BY <1>1, <1>2 DEF HintsPost, HintByIDPut, HintByIDDelete, HintsBulk, BulkNext, clientVars
<1>3. CASE Restart
  <2>1. /\ pc' = [c \in Client |-> IF pc[c] = "fetch" THEN "use" ELSE pc[c]]
        /\ got' = [c \in Client |-> IF pc[c] = "fetch" /\ c = "drain" THEN <<>> ELSE got[c]]
        /\ UNCHANGED <<job, fix>>
    BY <1>3 DEF Restart
  <2>2. /\ pc'["drain"] # "idle" => pc["drain"] # "idle"
        /\ pc["drain"] = "idle" => got'["drain"] = got["drain"]
        /\ pc' = [c \in Client |-> pc'[c]] /\ got' = [c \in Client |-> got'[c]]
    BY <2>1
  <2> QED
    BY <2>1, <2>2, FixFrame
<1>4. CASE StartPlan \/ AttachHints
  <2>1. /\ UNCHANGED <<job, fix>>
        /\ \E m : pc' = [pc EXCEPT !["planner"] = m]
        /\ \E m : got' = [got EXCEPT !["planner"] = m]
    <3>1. got = [got EXCEPT !["planner"] = got["planner"]]
      BY <1>0
    <3> QED
      BY <1>4, <3>1 DEF StartPlan, StartFetch, AttachHints
  <2>2. /\ pc'["drain"] = pc["drain"] /\ got'["drain"] = got["drain"]
        /\ pc' = [c \in Client |-> pc'[c]] /\ got' = [c \in Client |-> got'[c]]
    BY <1>0, <2>1
  <2> QED
    BY <2>1, <2>2, FixFrame
<1>5. ASSUME NEW n \in Node, StartFix(n) PROVE FixInv'
  <2>1. /\ fix' = NoFix /\ job' = [NoJob EXCEPT !.ctx = n, !.recs = nodeRecs[n]]
        /\ pc' = [pc EXCEPT !["drain"] = "fetch"] /\ got' = [got EXCEPT !["drain"] = <<>>]
    BY <1>5 DEF StartFix, StartFetch
  <2>2. job' = [ctx |-> job'.ctx, log |-> job'.log, recs |-> job'.recs, threshold |-> job'.threshold]
    BY <2>1 DEF NoJob
  <2>3. pc' = [c \in Client |-> pc'[c]] /\ got' = [c \in Client |-> got'[c]]
    BY <1>0, <2>1
  <2>4. FixOf(fix', job'.recs, job'.ctx, job'.log, job'.threshold, got'["drain"])
    BY <2>1, NoFixHolds
  <2> QED
    BY <2>1, <2>2, <2>3, <2>4 DEF FixInv
<1>6. ASSUME NEW c \in Client, FetchPage(c) \/ FetchFails(c) PROVE FixInv'
  <2>1. /\ UNCHANGED <<job, fix>> /\ pc[c] = "fetch"
        /\ \E m \in {"fetch", "use"} : pc' = [pc EXCEPT ![c] = m]
        /\ \E m : got' = [got EXCEPT ![c] = m]
    BY <1>6 DEF FetchPage, FetchFails
  <2>2. /\ pc'["drain"] # "idle" => pc["drain"] # "idle"
        /\ pc["drain"] = "idle" => got'["drain"] = got["drain"]
        /\ pc' = [d \in Client |-> pc'[d]] /\ got' = [d \in Client |-> got'[d]]
    BY <1>0, <2>1
  <2> QED
    BY <2>1, <2>2, FixFrame
<1>7. CASE UNCHANGED vars
  BY <1>1, <1>7 DEF vars
<1> QED
  BY <1>2, <1>3, <1>4, <1>5, <1>6, <1>7, AutoFixStep DEF Next

LEMMA FixInvGives == FixInv => GateHolds /\ FixChangesJob
<1> SUFFICES ASSUME FixInv, fix.applied
             PROVE  /\ job.recs \subseteq fix.recs /\ Adds # {}
                    /\ \A r \in Adds : \E h \in ToSet(got["drain"]) \cup ({fix.cand} \ {NoHint}) :
                          /\ r \in ToSet(h.recs)
                          /\ ~ Below(confidenceScore(h.conf), job.threshold)
                          /\ h = fix.cand \/ MatchHintForLog(h, job.ctx, job.log)
  BY Zenon DEF GateHolds, FixChangesJob, Supports, Sources
<1>1. PICK o, R, x, l, t, G : /\ o = fix /\ R = job.recs /\ x = job.ctx /\ l = job.log
                              /\ t = job.threshold /\ G = got["drain"]
  OBVIOUS
<1>2. FixOf(o, R, x, l, t, G) /\ o.applied
  BY <1>1 DEF FixInv
<1>3. Adds = {r \in o.recs : \A s \in R : FoldRecipe(s) # FoldRecipe(r)}
  BY <1>1, Zenon DEF Adds
<1>4. /\ R \subseteq o.recs /\ Adds # {}
      /\ \A r \in Adds : \E h \in ToSet(G) \cup ({o.cand} \ {NoHint}) :
            /\ r \in ToSet(h.recs) /\ ~ Below(confidenceScore(h.conf), t)
            /\ h = o.cand \/ MatchHintForLog(h, x, l)
  BY <1>2, <1>3 DEF FixOf
<1> QED
  BY <1>1, <1>4

(* Every recipe that auto-fix adds to a job stands in a hint that matches
   the job's log, or was inferred from it, and whose confidence does not
   compare as less than the threshold, whatever numerals (NaN too) both are. *)
THEOREM GateAlwaysHolds == Spec => []GateHolds
<1>1. Init => FixInv
  BY HintInitInv
<1>2. FixInv /\ [Next]_vars => FixInv'
  BY FixStepInv
<1>3. FixInv => GateHolds
  BY FixInvGives
<1> QED
  BY <1>1, <1>2, <1>3, PTL DEF Spec

(* A retry that auto-fix asks for keeps the job's recipes and has at least
   one that is new up to case: it is never the same build again.           *)
THEOREM RetryIsNewBuild == Spec => []FixChangesJob
<1>1. Init => FixInv
  BY HintInitInv
<1>2. FixInv /\ [Next]_vars => FixInv'
  BY FixStepInv
<1>3. FixInv => FixChangesJob
  BY FixInvGives
<1> QED
  BY <1>1, <1>2, <1>3, PTL DEF Spec

-----------------------------------------------------------------------------
(* The hint that is inferred from a log.                                   *)

(* Folding a word twice is folding it once, and leaves no word blank.      *)
LEMMA FoldFacts ==
    \A w : Fold(Fold(w)) = Fold(w) /\ (w # "" => Fold(w) # "")
BY HintMatchAssumption DEF Fold

(* The first line of some kinds is a line of the log.                      *)
LEMMA FirstIsLine ==
    ASSUME NEW l, l \in Seq(ToSet(l)), NEW kinds, \E i \in DOMAIN l : l[i].kind \in kinds
    PROVE  \E i \in DOMAIN l : FirstOf(l, kinds) = l[i] /\ l[i].kind \in kinds
<1>1. PICK k \in Nat : DOMAIN l = 1..k
  BY LenProperties
<1>2. PICK of \in SUBSET (1..k) : of = {i \in DOMAIN l : l[i].kind \in kinds}
  BY <1>1
<1>3. of # {}
  BY <1>2
<1>4. \E i \in of : \A j \in of : i <= j
  BY <1>2, <1>3, FirstPlace
<1>5. FirstOf(l, kinds) = l[CHOOSE i \in of : \A j \in of : i <= j]
  BY <1>2 DEF FirstOf
<1> QED
  BY <1>2, <1>4, <1>5

(* A hint that is inferred is inferred from a line of the log.             *)
LEMMA InferredFromLine ==
    ASSUME NEW l, l \in Seq(ToSet(l)), NEW c, inferHintFromLog(l, c) # NoHint
    PROVE  \E i \in DOMAIN l : \E p, tags, conf, recs :
              /\ l[i].kind # "bad"
              /\ inferHintFromLog(l, c) = Inferred(l[i], p, c, tags, conf, recs)
<1>1. PICK kinds : /\ "bad" \notin kinds /\ \E i \in DOMAIN l : l[i].kind \in kinds
                   /\ \E p, tags, conf, recs :
                        inferHintFromLog(l, c) = Inferred(FirstOf(l, kinds), p, c, tags, conf, recs)
  <2> DEFINE has(K) == \E i \in DOMAIN l : l[i].kind \in K
             By(K) == \E p, tags, conf, recs :
                        inferHintFromLog(l, c) = Inferred(FirstOf(l, K), p, c, tags, conf, recs)
  <2>1. \/ has({"module"}) /\ By({"module"})
        \/ has({"header"}) /\ By({"header"})
        \/ has({"lib"}) /\ By({"lib"})
        \/ has({"pkgconfig", "pkgconfig2"}) /\ By({"pkgconfig", "pkgconfig2"})
        \/ has({"cmake"}) /\ By({"cmake"})
        \/ has({"tool"}) /\ By({"tool"})
        \/ has({"rust", "rust2"}) /\ By({"rust", "rust2"})
    BY DEF inferHintFromLog
  <2> HIDE DEF has, By
  <2>2. PICK K : "bad" \notin K /\ has(K) /\ By(K)
    BY <2>1
  <2> QED
    BY <2>2 DEF has, By
<1> QED
  BY <1>1, FirstIsLine

(* An inferred hint applies to what it was inferred for.                   *)
LEMMA InferredApplies ==
    ASSUME NEW line, NEW p, NEW c, NEW tags, NEW conf, NEW recs, Fold(c.pkg) \notin DOMAIN Dashed
    PROVE  hintAppliesTo(NormalizeHint(Inferred(line, p, c, tags, conf, recs)), c)
<1>1. PICK h : h = NormalizeHint(Inferred(line, p, c, tags, conf, recs))
  OBVIOUS
<1>2. PICK a : a = baseAutoHint(c).applies
  OBVIOUS
<1>3. /\ a = [k \in DOMAIN a |-> a[k]] /\ \A k \in DOMAIN a : a[k] # <<>>
      /\ DOMAIN a \subseteq {"packages", "platform_tags", "python_versions", "python_tags", "arch", "platforms"}
      /\ "packages" \in DOMAIN a => c.pkg # "" /\ a["packages"] = <<Fold(c.pkg)>>
      /\ "platform_tags" \in DOMAIN a => c.plat # <<>> /\ a["platform_tags"] = <<c.plat>>
      /\ "python_versions" \in DOMAIN a => c.py # <<>> /\ a["python_versions"] = <<c.py>>
      /\ "python_tags" \in DOMAIN a => a["python_tags"] = <<c.tag>>
      /\ "arch" \in DOMAIN a => a["arch"] = <<archFromPlatformTag(c.plat)>>
      /\ "platforms" \in DOMAIN a => /\ platformFamily(c.plat) # ""
                                     /\ a["platforms"] = <<platformFamily(c.plat)>>
  BY <1>2 DEF baseAutoHint
<1>4. h.applies = a
  <2>1. PICK g : g = Inferred(line, p, c, tags, conf, recs)
    OBVIOUS
  <2>2. g.applies = a /\ "applies" \in DOMAIN g
    BY <1>2, <2>1 DEF Inferred
  <2>3. {k \in DOMAIN g.applies : g.applies[k] # <<>>} = DOMAIN a
    BY <1>3, <2>2
  <2>4. NormalizeHint(g).applies = [k \in {x \in DOMAIN g.applies : g.applies[x] # <<>>} |-> g.applies[k]]
    BY <2>2 DEF NormalizeHint
  <2> QED
    BY <1>1, <1>3, <2>1, <2>2, <2>3, <2>4
<1>5. ASSUME NEW K, NEW k, NEW v, K \cap DOMAIN a \subseteq {k}, k \in DOMAIN a => a[k] = <<v>>
      PROVE  valuesForKeys(h, K) = {} \/ (k \in DOMAIN a /\ valuesForKeys(h, K) = {v})
  <2>1. valuesForKeys(h, K) = UNION {ToSet(a[x]) : x \in K \cap DOMAIN a}
    BY <1>4 DEF valuesForKeys
  <2>2. k \in DOMAIN a => ToSet(a[k]) = {v}
    BY <1>5 DEF ToSet
  <2> QED
    BY <1>5, <2>1, <2>2
<1>6. ASSUME NEW K, K \cap DOMAIN a = {} PROVE valuesForKeys(h, K) = {}
  BY <1>4, <1>6 DEF valuesForKeys
<1>7. PICK pkg : pkg = normalizeName(c.pkg)
  OBVIOUS
<1>8. pkg = Fold(c.pkg) /\ Fold(Fold(c.pkg)) = Fold(c.pkg)
  BY <1>7, FoldFacts DEF normalizeName
<1>9. \/ valuesForKeys(h, PackageKeys) = {}
      \/ pkg # "" /\ pkg \in {Fold(v) : v \in valuesForKeys(h, PackageKeys)}
  <2>1. PackageKeys \cap DOMAIN a \subseteq {"packages"}
    BY <1>3 DEF PackageKeys
  <2>2. "packages" \in DOMAIN a => c.pkg # "" /\ a["packages"] = <<Fold(c.pkg)>>
    BY <1>3
  <2>3. \/ valuesForKeys(h, PackageKeys) = {}
        \/ "packages" \in DOMAIN a /\ valuesForKeys(h, PackageKeys) = {Fold(c.pkg)}
    BY ONLY <1>5, <2>1, <2>2
  <2> QED
    BY <1>8, <2>2, <2>3, FoldFacts
<1>10. valuesForKeys(h, PatternKeys) = {}
  BY <1>3, <1>6 DEF PatternKeys
<1>11. \/ valuesForKeys(h, {"platforms", "platform"}) = {}
       \/ matchPlatform(c.plat, valuesForKeys(h, {"platforms", "platform"}))
  <2>1. {"platforms", "platform"} \cap DOMAIN a \subseteq {"platforms"}
    BY <1>3
  <2>2. "platforms" \in DOMAIN a => a["platforms"] = <<platformFamily(c.plat)>>
    BY <1>3
  <2>3. \/ valuesForKeys(h, {"platforms", "platform"}) = {}
        \/ /\ "platforms" \in DOMAIN a
           /\ valuesForKeys(h, {"platforms", "platform"}) = {platformFamily(c.plat)}
    BY ONLY <1>5, <2>1, <2>2
  <2> QED
    BY <1>3, <2>3 DEF matchPlatform
<1>12. \/ valuesForKeys(h, {"arch", "archs"}) = {}
       \/ archFromPlatformTag(c.plat) \in valuesForKeys(h, {"arch", "archs"})
  <2>1. {"arch", "archs"} \cap DOMAIN a \subseteq {"arch"}
    BY <1>3
  <2>2. "arch" \in DOMAIN a => a["arch"] = <<archFromPlatformTag(c.plat)>>
    BY <1>3
  <2>3. \/ valuesForKeys(h, {"arch", "archs"}) = {}
        \/ "arch" \in DOMAIN a /\ valuesForKeys(h, {"arch", "archs"}) = {archFromPlatformTag(c.plat)}
    BY ONLY <1>5, <2>1, <2>2
  <2> QED
    BY <2>3
<1>13. \/ valuesForKeys(h, {"python_versions", "python_version"}) = {}
       \/ pyVersion(c) # <<>> /\ pyVersion(c) \in valuesForKeys(h, {"python_versions", "python_version"})
  <2>1. {"python_versions", "python_version"} \cap DOMAIN a \subseteq {"python_versions"}
    BY <1>3
  <2>2. "python_versions" \in DOMAIN a => c.py # <<>> /\ a["python_versions"] = <<c.py>>
    BY <1>3
  <2>3. \/ valuesForKeys(h, {"python_versions", "python_version"}) = {}
        \/ "python_versions" \in DOMAIN a /\ valuesForKeys(h, {"python_versions", "python_version"}) = {c.py}
    BY ONLY <1>5, <2>1, <2>2
  <2> QED
    BY <2>2, <2>3 DEF pyVersion
<1>14. \/ valuesForKeys(h, {"python_tags", "python_tag"}) = {}
       \/ c.tag \in valuesForKeys(h, {"python_tags", "python_tag"})
  <2>1. {"python_tags", "python_tag"} \cap DOMAIN a \subseteq {"python_tags"}
    BY <1>3
  <2>2. "python_tags" \in DOMAIN a => a["python_tags"] = <<c.tag>>
    BY <1>3
  <2>3. \/ valuesForKeys(h, {"python_tags", "python_tag"}) = {}
        \/ "python_tags" \in DOMAIN a /\ valuesForKeys(h, {"python_tags", "python_tag"}) = {c.tag}
    BY ONLY <1>5, <2>1, <2>2
  <2> QED
    BY <2>3
<1>15. \/ valuesForKeys(h, {"platform_tags", "platform_tag"}) = {}
       \/ c.plat # <<>> /\ c.plat \in valuesForKeys(h, {"platform_tags", "platform_tag"})
  <2>1. {"platform_tags", "platform_tag"} \cap DOMAIN a \subseteq {"platform_tags"}
    BY <1>3
  <2>2. "platform_tags" \in DOMAIN a => c.plat # <<>> /\ a["platform_tags"] = <<c.plat>>
    BY <1>3
  <2>3. \/ valuesForKeys(h, {"platform_tags", "platform_tag"}) = {}
        \/ "platform_tags" \in DOMAIN a /\ valuesForKeys(h, {"platform_tags", "platform_tag"}) = {c.plat}
    BY ONLY <1>5, <2>1, <2>2
  <2> QED
    BY <2>2, <2>3
<1>16. valuesForKeys(h, {"build_backends", "build_backend"}) = {}
  BY <1>3, <1>6
<1> QED
  BY <1>1, <1>7, <1>9, <1>10, <1>11, <1>12, <1>13, <1>14, <1>15, <1>16 DEF hintAppliesTo, Allows

(* The last lines of a log are a list.                                     *)
LEMMA TailIsList ==
    ASSUME NEW l, l \in Seq(ToSet(l))
    PROVE  tailLogLines(l, LogTail) \in Seq(ToSet(tailLogLines(l, LogTail)))
<1>1. LogTail \in Nat /\ Len(l) \in Nat
  BY HintCatalogAssumption
<1>2. CASE Len(l) <= LogTail
  BY <1>2 DEF tailLogLines
<1>3. CASE ~(Len(l) <= LogTail)
  <2>1. PICK m \in Int : m = Len(l) - LogTail + 1 /\ m >= 1 /\ m <= Len(l) + 1
    BY <1>1, <1>3
  <2>2. PICK n \in Nat : n = Len(l) - m + 1
    BY <1>1, <2>1
  <2>3. PICK q : q = [k \in 1..n |-> l[m + k - 1]]
    OBVIOUS
  <2>4. tailLogLines(l, LogTail) = q
    BY <1>1, <1>3, <2>1, <2>2, <2>3 DEF tailLogLines
  <2>5. DOMAIN q = 1..n /\ q = [k \in 1..n |-> q[k]]
    BY <2>3
  <2>6. \A k \in 1..n : q[k] \in ToSet(q)
    BY <2>5 DEF ToSet
  <2>7. q \in Seq(ToSet(q))
    BY <2>5, <2>6
  <2> QED
    BY <2>4, <2>7
<1> QED
  BY <1>2, <1>3

(* What auto-fix infers.                                                   *)
LEMMA AutoFixCandidate ==
    ASSUME NEW R, NEW x, NEW l, NEW G, NEW t
    PROVE  autoFix(R, x, l, G, t).cand \in {NoHint, inferHintFromLog(l, x)}
BY DEF autoFix

LEMMA CandStart == Init => CandInv
<1> SUFFICES ASSUME Init PROVE CandInv
  OBVIOUS
<1>1. job.log = <<>> /\ fix.cand = NoHint
  BY DEF Init, NoFix, NoJob
<1> QED
  BY <1>1 DEF CandInv

LEMMA CandStep ==
    ASSUME FixInv, CandInv, [Next]_vars
    PROVE  CandInv'
<1>1. ASSUME UNCHANGED <<job, fix>> PROVE CandInv'
  BY <1>1 DEF CandInv
<1>2. CASE \/ \E raw \in Raw : HintsPost(raw) \/ \E i \in ToSet(IdOrder) : HintByIDPut(i, raw)
           \/ \E i \in ToSet(IdOrder) : HintByIDDelete(i)
           \/ \E p \in Payloads : HintsBulk(p)
           \/ BulkNext \/ Restart \/ StartPlan \/ AttachHints
           \/ \E c \in Client : FetchPage(c) \/ FetchFails(c)
           \/ UNCHANGED vars
  BY <1>1, <1>2 DEF HintsPost, HintByIDPut, HintByIDDelete, HintsBulk, BulkNext, Restart, StartPlan,
                    AttachHints, FetchPage, FetchFails, vars
<1>3. ASSUME NEW n \in Node, StartFix(n) PROVE CandInv'
  <2>1. fix'.cand = NoHint /\ job'.log = <<>>
    BY <1>3 DEF StartFix, NoFix, NoJob
  <2> QED
    BY <2>1 DEF CandInv
<1>4. ASSUME NEW f \in Failures, AutoFix(f) PROVE CandInv'
  <2>1. PICK R, x, l, t, G :
          /\ R = mergeRecipes({}, <<SetToSeq(f.recs), SetToSeq(job.recs)>>) /\ x = job.ctx
          /\ l = f.log /\ t = autoFixThreshold(f.conf) /\ G = got["drain"]
    OBVIOUS
  <2>2. job' = [job EXCEPT !.log = l, !.recs = R, !.threshold = t]
    BY <1>4, <2>1 DEF AutoFix
  <2>3. job'.ctx = x /\ job'.log = l /\ job'.recs = R /\ job'.threshold = t
    BY <2>1, <2>2 DEF FixInv
  <2>4. fix' = autoFix(R, x, tailLogLines(l, LogTail), G, t)
    BY <1>4, <2>1, <2>3 DEF AutoFix
  <2>5. fix'.cand \in {NoHint, inferHintFromLog(tailLogLines(l, LogTail), x)}
    BY <2>4, AutoFixCandidate
  <2>6. l \in Seq(ToSet(l))
    BY <2>1, HintCatalogAssumption
  <2> QED
    BY <2>3, <2>5, <2>6 DEF CandInv
<1> QED
  BY <1>2, <1>3, <1>4 DEF Next

(* A hint that auto-fix infers from a log matches that log again, in the same
   context and once it is normalised: inferHintFromLog, NormalizeHint and
   MatchHintForLog agree.                                                  *)
THEOREM InferredHintsRecur == Spec => []InferredHintRecurs
<1>1. Init => FixInv /\ CandInv
  BY HintInitInv, CandStart
<1>2. FixInv /\ CandInv /\ [Next]_vars => (FixInv /\ CandInv)'
  BY FixStepInv, CandStep
<1>3. CandInv => InferredHintRecurs
  <2> SUFFICES ASSUME CandInv, fix.cand # NoHint, Fold(job.ctx.pkg) \notin DOMAIN Dashed,
                      fix.cand.pattern \in fix.cand.exs
               PROVE  MatchHintForLog(NormalizeHint(fix.cand), job.ctx, tailLogLines(job.log, LogTail))
    BY DEF InferredHintRecurs
  <2>1. PICK l, c, h : l = tailLogLines(job.log, LogTail) /\ c = job.ctx /\ h = fix.cand
    OBVIOUS
  <2>2. l \in Seq(ToSet(l)) /\ h = inferHintFromLog(l, c) /\ h # NoHint
    BY <2>1, TailIsList DEF CandInv
  <2>3. PICK i \in DOMAIN l : \E p, tags, conf, recs :
          l[i].kind # "bad" /\ h = Inferred(l[i], p, c, tags, conf, recs)
    BY <2>2, InferredFromLine
  <2>4. PICK p, tags, conf, recs : l[i].kind # "bad" /\ h = Inferred(l[i], p, c, tags, conf, recs)
    BY <2>3
  <2>5. h.pattern = p /\ h.exs = {l[i]} /\ "pattern" \in DOMAIN h
    BY <2>4 DEF Inferred
  <2>6. NormalizeHint(h).pattern = h.pattern
    BY <2>5 DEF NormalizeHint
  <2>7. h.pattern = l[i]
    BY <2>1, <2>5
  <2>8. hintAppliesTo(NormalizeHint(h), c)
    BY <2>1, <2>4, InferredApplies
  <2>9. MatchHintForLog(NormalizeHint(h), c, l)
    BY <2>4, <2>6, <2>7, <2>8 DEF MatchHintForLog
  <2> QED
    BY <2>1, <2>9
<1> QED
  BY <1>1, <1>2, <1>3, PTL DEF Spec

-----------------------------------------------------------------------------
(* The table of hints.                                                     *)
(* Normalising a hint twice is normalising it once.                        *)
LEMMA NormalizeTwice ==
    ASSUME NEW h, IsHint(h)
    PROVE  /\ NormalizeHint(NormalizeHint(h)) = NormalizeHint(h)
           /\ NormalizeHint(h).id = h.id
<1>0. PICK g : g = h.recs
  OBVIOUS
<1>a. g \in Seq(ToSet(g))
  BY <1>0 DEF IsHint
<1>1. PICK k \in Nat : DOMAIN g = 1..k
  BY <1>a, LenProperties
<1>2. PICK S \in SUBSET (1..k) : S = {i \in DOMAIN g : g[i].pkg # <<>>}
  BY <1>1
<1>3. PICK q : q = AtPlaces(g, S)
  OBVIOUS
<1>4. /\ q \in Seq({g[i] : i \in S}) /\ DOMAIN q = 1..Cardinality(S)
      /\ {q[n] : n \in 1..Cardinality(S)} = {g[i] : i \in S}
  <2>1. k \in Nat /\ S \in SUBSET (1..k)
    BY <1>1, <1>2
  <2>2. /\ AtPlaces(g, S) \in Seq({g[i] : i \in S}) /\ DOMAIN AtPlaces(g, S) = 1..Cardinality(S)
        /\ {AtPlaces(g, S)[n] : n \in 1..Cardinality(S)} = {g[i] : i \in S}
    BY ONLY <2>1, AtPlacesIsList
  <2> QED
    BY ONLY <1>3, <2>2
<1>5. \A n \in DOMAIN q : q[n].pkg # <<>>
  BY <1>2, <1>4
<1>6. {n \in DOMAIN q : q[n].pkg # <<>>} = DOMAIN q
  BY <1>5
<1>7. AtPlaces(q, DOMAIN q) = q
  BY <1>4, AtAllPlaces
<1>8. PICK a : a = [x \in {y \in DOMAIN h.applies : h.applies[y] # <<>>} |-> h.applies[x]]
  OBVIOUS
<1>9. [x \in {y \in DOMAIN a : a[y] # <<>>} |-> a[x]] = a
  BY <1>8
<1>10. PICK n : n = NormalizeHint(h)
  OBVIOUS
<1>11. n = [h EXCEPT !.recs = q, !.conf = Fold(h.conf), !.applies = a]
  BY <1>0, <1>2, <1>3, <1>8, <1>10 DEF NormalizeHint
<1>12. n.recs = q /\ n.conf = Fold(h.conf) /\ n.applies = a /\ n.id = h.id
  BY <1>11 DEF IsHint
<1>13. Fold(n.conf) = n.conf
  BY <1>12, FoldFacts
<1>14. NormalizeHint(n) = [n EXCEPT !.recs = q, !.conf = n.conf, !.applies = a]
  <2>1. NormalizeHint(n) = [n EXCEPT !.recs = AtPlaces(n.recs, {i \in DOMAIN n.recs : n.recs[i].pkg # <<>>}),
                                     !.conf = Fold(n.conf),
                                     !.applies = [x \in {y \in DOMAIN n.applies : n.applies[y] # <<>>} |-> n.applies[x]]]
    BY DEF NormalizeHint
  <2>2. AtPlaces(n.recs, {i \in DOMAIN n.recs : n.recs[i].pkg # <<>>}) = q
    BY <1>6, <1>7, <1>12
  <2>3. [x \in {y \in DOMAIN n.applies : n.applies[y] # <<>>} |-> n.applies[x]] = a
    BY <1>9, <1>12
  <2> QED
    BY <1>13, <2>1, <2>2, <2>3
<1>15. NormalizeHint(n) = n
  BY <1>11, <1>12, <1>14
<1> QED
  BY <1>10, <1>12, <1>15

(* A valid hint is put into a row of its own.                              *)
LEMMA PutIsOK ==
    ASSUME NEW tab, TableOK(tab), NEW h, IsHint(h), ValidateHint(NormalizeHint(h))
    PROVE  TableOK(PutHint(tab, NormalizeHint(h)))
<1>1. PICK n, r : n = NormalizeHint(h) /\ r = [hint |-> n, deleted |-> FALSE]
  OBVIOUS
<1>2. RowOK(r, n.id)
  BY <1>1, NormalizeTwice DEF RowOK
<1>3. PutHint(tab, n) = [i \in DOMAIN tab \cup {n.id} |-> IF i = n.id THEN r ELSE tab[i]]
  BY <1>1 DEF PutHint
<1> QED
  BY <1>1, <1>2, <1>3 DEF TableOK

(* Seeding puts only hints that are normalised and valid.                  *)
LEMMA SeedIsOK ==
    ASSUME NEW tab, TableOK(tab), NEW refused
    PROVE  TableOK(SeedHintsFromDir(tab, refused))
<1>1. PICK k \in Nat : DOMAIN SeedHints = 1..k
  BY HintCatalogAssumption, LenProperties
<1>2. PICK put \in SUBSET (1..k) :
        put = {i \in DOMAIN SeedHints : /\ ValidateHint(NormalizeHint(SeedHints[i]))
                                        /\ SeedHints[i].id \notin refused}
  BY <1>1
<1> DEFINE of(id) == {i \in put : SeedHints[i].id = id}
           last(id) == CHOOSE i \in of(id) : \A j \in of(id) : j <= i
           row(id) == [hint |-> NormalizeHint(SeedHints[last(id)]), deleted |-> FALSE]
<1>3. SeedHintsFromDir(tab, refused) =
        [id \in DOMAIN tab \cup {SeedHints[i].id : i \in put} |-> IF of(id) = {} THEN tab[id] ELSE row(id)]
  BY <1>2 DEF SeedHintsFromDir
<1>4. ASSUME NEW id, of(id) # {} PROVE RowOK(row(id), id)
  <2>1. of(id) \in SUBSET (1..k)
    OBVIOUS
  <2>2. last(id) \in of(id)
    <3>1. \E i \in of(id) : \A j \in of(id) : j <= i
      BY <1>4, <2>1, LastPlace
    <3> QED
      BY <3>1
  <2>3. PICK i : i = last(id) /\ i \in put /\ SeedHints[i].id = id
    BY <2>2
  <2>4. IsHint(SeedHints[i]) /\ ValidateHint(NormalizeHint(SeedHints[i]))
    BY <1>2, <2>3, HintCatalogAssumption DEF ToSet
  <2>5. row(id) = [hint |-> NormalizeHint(SeedHints[i]), deleted |-> FALSE]
    BY <2>3
  <2> QED
    BY <2>3, <2>4, <2>5, NormalizeTwice DEF RowOK
<1>5. ASSUME NEW id \in {SeedHints[i].id : i \in put} PROVE of(id) # {}
  OBVIOUS
<1> HIDE DEF of, row
<1> QED
  BY <1>3, <1>4, <1>5 DEF TableOK

(* A list of hints without its first.                                      *)
LEMMA RestIsList ==
    ASSUME NEW q, q \in Seq(ToSet(q)), q # <<>>, \A h \in ToSet(q) : IsHint(h)
    PROVE  /\ IsHint(Head(q))
           /\ Tail(q) \in Seq(ToSet(Tail(q))) /\ \A h \in ToSet(Tail(q)) : IsHint(h)
<1>1. PICK k \in Nat : k = Len(q) /\ DOMAIN q = 1..k
  BY LenProperties
<1>2. k # 0
  BY <1>1
<1>3. 1 \in DOMAIN q /\ Head(q) = q[1]
  BY <1>1, <1>2
<1>4. PICK t : t = Tail(q)
  OBVIOUS
<1>a. /\ t \in Seq(ToSet(q)) /\ Len(t) = k - 1
      /\ \A i \in 1..Len(t) : t[i] = q[i + 1]
  BY <1>1, <1>4, HeadTailProperties
<1>5. k - 1 \in Nat /\ DOMAIN t = 1..(k - 1)
  BY <1>2, <1>a, LenProperties
<1>6. \A i \in 1..(k - 1) : i + 1 \in DOMAIN q /\ t[i] = q[i + 1]
  BY <1>1, <1>a
<1>7. \A i \in 1..(k - 1) : t[i] \in ToSet(t) /\ IsHint(t[i])
  BY <1>5, <1>6 DEF ToSet
<1>8. t = [i \in 1..(k - 1) |-> t[i]]
  BY <1>a, <1>5
<1>9. t \in Seq(ToSet(t))
  BY <1>5, <1>7, <1>8
<1>10. \A h \in ToSet(t) : IsHint(h)
  BY <1>5, <1>7 DEF ToSet
<1>11. IsHint(Head(q))
  BY <1>3 DEF ToSet
<1> QED
  BY <1>4, <1>9, <1>10, <1>11

(* A deletion only marks the row.                                          *)
LEMMA DeleteIsOK ==
    ASSUME NEW tab, TableOK(tab), NEW id \in DOMAIN tab
    PROVE  TableOK([tab EXCEPT ![id].deleted = TRUE])
<1>1. PICK r : r = [tab[id] EXCEPT !.deleted = TRUE]
  OBVIOUS
<1>2. RowOK(tab[id], id)
  BY DEF TableOK
<1>3. DOMAIN r = {"hint", "deleted"} /\ r.deleted = TRUE /\ r.hint = tab[id].hint
  BY <1>1, <1>2 DEF RowOK
<1>4. RowOK(r, id)
  BY <1>2, <1>3 DEF RowOK
<1>5. [tab EXCEPT ![id].deleted = TRUE] = [tab EXCEPT ![id] = r]
  BY <1>1
<1> QED
  BY <1>4, <1>5 DEF TableOK

(* A page has a length, wherever it begins.                                *)
LEMMA PageLength ==
    ASSUME NEW limit \in Nat, NEW off \in Nat
    PROVE  Len(ListHintsPaged(limit, off)) \in Nat
<1>1. PICK q, S : q = Catalogue(rows) /\ q \in Seq(S)
  BY CatalogueIsList
<1>2. PICK n \in Nat : n = Len(q)
  BY <1>1
<1>3. PICK m \in Int : m = Min({off + limit, n}) /\ m <= n
  <2>1. off + limit \in Int
    OBVIOUS
  <2> QED
    BY <2>1 DEF Min
<1>4. SubSeq(q, off + 1, m) \in Seq(S)
  <2>1. off + 1 \in Int /\ \A i \in (off + 1)..m : q[i] \in S
    BY <1>1, <1>2, <1>3
  <2> QED
    BY <1>3, <2>1, SubSeqProperties
<1> QED
  BY <1>1, <1>2, <1>3, <1>4 DEF ListHintsPaged, Slice

(* The hint of a PUT has the path's id.                                     *)
LEMMA WithIdIsHint ==
    ASSUME NEW h, IsHint(h), NEW i
    PROVE  IsHint([h EXCEPT !.id = i])
BY DEF IsHint

LEMMA RowsStart == Init => RowsInv /\ CountInv
<1> SUFFICES ASSUME Init PROVE RowsInv /\ CountInv
  OBVIOUS
<1>1. TableOK(<<>>)
  BY DEF TableOK
<1>2. TableOK(rows)
  BY <1>1, SeedIsOK DEF Init
<1>3. bulk \in Seq(ToSet(bulk)) /\ \A h \in ToSet(bulk) : IsHint(h)
  BY DEF Init, ToSet
<1>4. CountInv
  BY HintCatalogAssumption DEF Init, CountInv
<1> QED
  BY <1>2, <1>3, <1>4 DEF RowsInv

LEMMA RowsStep ==
    ASSUME RowsInv, [Next]_vars
    PROVE  RowsInv'
<1>1. ASSUME UNCHANGED <<rows, bulk>> PROVE RowsInv'
  BY <1>1 DEF RowsInv
<1>2. ASSUME NEW tab, TableOK(tab), rows' = tab, bulk' = bulk PROVE RowsInv'
  BY <1>2 DEF RowsInv
<1>3. ASSUME NEW raw \in Raw, HintsPost(raw) PROVE RowsInv'
  <2>1. IsHint(raw) /\ ValidateHint(NormalizeHint(raw)) /\ TableOK(rows)
    BY <1>3, HintCatalogAssumption DEF HintsPost, RowsInv
  <2>2. rows' = PutHint(rows, NormalizeHint(raw)) /\ bulk' = bulk
    BY <1>3 DEF HintsPost, SetRows
  <2> QED
    BY <1>2, <2>1, <2>2, PutIsOK
<1>4. ASSUME NEW raw \in Raw, NEW i \in ToSet(IdOrder), HintByIDPut(i, raw) PROVE RowsInv'
  <2>1. PICK h : h = [raw EXCEPT !.id = i]
    OBVIOUS
  <2>2. IsHint(h) /\ ValidateHint(NormalizeHint(h)) /\ TableOK(rows)
    BY <1>4, <2>1, WithIdIsHint, HintCatalogAssumption DEF HintByIDPut, RowsInv
  <2>3. rows' = PutHint(rows, NormalizeHint(h)) /\ bulk' = bulk
    BY <1>4, <2>1 DEF HintByIDPut, SetRows
  <2> QED
    BY <1>2, <2>2, <2>3, PutIsOK
<1>5. ASSUME NEW i \in ToSet(IdOrder), HintByIDDelete(i) PROVE RowsInv'
  <2>1. i \in DOMAIN rows /\ rows' = [rows EXCEPT ![i].deleted = TRUE] /\ bulk' = bulk
    BY <1>5 DEF HintByIDDelete, SetRows
  <2>2. TableOK(rows)
    BY DEF RowsInv
  <2> QED
    BY <1>2, <2>1, <2>2, DeleteIsOK
<1>6. ASSUME NEW p \in Payloads, HintsBulk(p) PROVE RowsInv'
  <2>1. rows' = rows /\ bulk' = p
    BY <1>6 DEF HintsBulk
  <2>2. p \in Seq(ToSet(p)) /\ \A h \in ToSet(p) : IsHint(h)
    BY HintCatalogAssumption
  <2> QED
    BY <2>1, <2>2 DEF RowsInv
<1>7. ASSUME BulkNext PROVE RowsInv'
  <2>1. PICK h, t : h = Head(bulk) /\ t = Tail(bulk)
    OBVIOUS
  <2>2. /\ bulk # <<>> /\ bulk' = t
        /\ \/ ValidateHint(NormalizeHint(h)) /\ rows' = PutHint(rows, NormalizeHint(h))
           \/ rows' = rows
    BY <1>7, <2>1 DEF BulkNext, SetRows
  <2>3. IsHint(h) /\ t \in Seq(ToSet(t)) /\ \A g \in ToSet(t) : IsHint(g)
    BY <2>1, <2>2, RestIsList DEF RowsInv
  <2>4. TableOK(rows')
    BY <2>2, <2>3, PutIsOK DEF RowsInv
  <2> QED
    BY <2>2, <2>3, <2>4 DEF RowsInv
<1>8. ASSUME Restart PROVE RowsInv'
  <2>1. PICK refused : rows' = SeedHintsFromDir(rows, refused)
    BY <1>8 DEF Restart
  <2>2. bulk' = <<>>
    BY <1>8 DEF Restart
  <2>3. TableOK(rows')
    BY <2>1, SeedIsOK DEF RowsInv
  <2>4. bulk' \in Seq(ToSet(bulk')) /\ \A h \in ToSet(bulk') : IsHint(h)
    BY <2>2 DEF ToSet
  <2> QED
    BY <2>3, <2>4 DEF RowsInv
<1>9. CASE \/ StartPlan \/ AttachHints
           \/ \E n \in Node : StartFix(n)
           \/ \E f \in Failures : AutoFix(f)
           \/ \E c \in Client : FetchPage(c) \/ FetchFails(c)
           \/ UNCHANGED vars
  BY <1>1, <1>9 DEF StartPlan, AttachHints, StartFix, AutoFix, FetchPage, FetchFails, catVars, vars
<1> QED
  BY <1>3, <1>4, <1>5, <1>6, <1>7, <1>8, <1>9 DEF Next

LEMMA CountStep ==
    ASSUME CountInv, [Next]_vars
    PROVE  CountInv'
<1>0. MaxEdits \in Nat /\ MaxFetches \in Nat
  BY HintCatalogAssumption
<1>1. ASSUME Edit, UNCHANGED <<offset, fetches>>, pc' = [c \in Client |-> pc'[c]],
             \A c \in Client : pc'[c] \in {pc[c], "use"}
      PROVE  CountInv'
  <2>1. edits' \in 0..MaxEdits
    BY <1>0, <1>1 DEF Edit, CountInv
  <2>2. pc' \in [Client -> {"idle", "fetch", "use"}]
    BY <1>1 DEF CountInv
  <2> QED
    BY <1>1, <2>1, <2>2 DEF CountInv
<1>2. ASSUME edits' = edits, UNCHANGED <<offset, fetches>>, NEW c \in Client, NEW v \in {"idle", "fetch", "use"},
             pc' = [pc EXCEPT ![c] = v]
      PROVE  CountInv'
  BY <1>2 DEF CountInv
<1>3. ASSUME edits' = edits, UNCHANGED <<offset, fetches, pc>>
      PROVE  CountInv'
  BY <1>3 DEF CountInv
<1>4. ASSUME NEW c \in Client, StartFetch(c), edits' = edits PROVE CountInv'
  <2>1. fetches[c] + 1 \in 0..MaxFetches
    BY <1>0, <1>4 DEF StartFetch, CountInv
  <2>2. fetches' \in [Client -> 0..MaxFetches]
    BY <1>4, <2>1 DEF StartFetch, CountInv
  <2>3. offset' \in [Client -> Nat] /\ pc' \in [Client -> {"idle", "fetch", "use"}]
    BY <1>4 DEF StartFetch, CountInv
  <2> QED
    BY <1>4, <2>2, <2>3 DEF CountInv
<1>5. CASE \/ \E raw \in Raw : HintsPost(raw) \/ \E i \in ToSet(IdOrder) : HintByIDPut(i, raw)
           \/ \E i \in ToSet(IdOrder) : HintByIDDelete(i)
           \/ \E p \in Payloads : HintsBulk(p)
  <2>1. Edit /\ UNCHANGED <<offset, fetches, pc>>
    BY <1>5 DEF HintsPost, HintByIDPut, HintByIDDelete, HintsBulk, clientVars
  <2>2. pc' = [c \in Client |-> pc'[c]]
    BY <2>1 DEF CountInv
  <2> QED
    BY <1>1, <2>1, <2>2
<1>6. CASE BulkNext
  BY <1>3, <1>6 DEF BulkNext, clientVars
<1>7. CASE Restart
  <2>1. Edit /\ UNCHANGED <<offset, fetches>>
    BY <1>7 DEF Restart
  <2>2. pc' = [c \in Client |-> IF pc[c] = "fetch" THEN "use" ELSE pc[c]]
    BY <1>7 DEF Restart
  <2> QED
    BY <1>1, <2>1, <2>2
<1>8. CASE StartPlan \/ \E n \in Node : StartFix(n)
  BY <1>4, <1>8 DEF StartPlan, StartFix, catVars, Client
<1>9. CASE AttachHints \/ (\E f \in Failures : AutoFix(f)) \/ \E c \in Client : FetchFails(c)
  BY <1>2, <1>9 DEF AttachHints, AutoFix, FetchFails, catVars, Client
<1>10. ASSUME NEW c \in Client, FetchPage(c) PROVE CountInv'
  <2>1. PICK limit, off : /\ limit = parseIntDefault(fetchLimit, 10, PageCap)
                          /\ off = parseIntDefault(offset[c], 0, OffsetCap)
    OBVIOUS
  <2>2. limit \in Nat /\ off \in Nat
    BY <2>1, HintCatalogAssumption DEF parseIntDefault, fetchLimit, CountInv
  <2>3. PICK n \in Nat : n = Len(ListHintsPaged(limit, off))
    BY <2>2, PageLength
  <2>4. PICK more : /\ pc' = [pc EXCEPT ![c] = IF more THEN "fetch" ELSE "use"]
                    /\ offset' = [offset EXCEPT ![c] = IF more THEN @ + n ELSE @]
    BY <1>10, <2>1, <2>3 DEF FetchPage
  <2>5. edits' = edits /\ fetches' = fetches
    BY <1>10 DEF FetchPage, catVars
  <2>6. pc' \in [Client -> {"idle", "fetch", "use"}]
    BY <2>4 DEF CountInv
  <2>7. offset' \in [Client -> Nat]
    BY <2>4 DEF CountInv
  <2> QED
    BY <2>5, <2>6, <2>7 DEF CountInv
<1>11. CASE UNCHANGED vars
  BY <1>3, <1>11 DEF vars
<1> QED
  BY <1>5, <1>6, <1>7, <1>8, <1>9, <1>10, <1>11 DEF Next

(* Every row of the catalogue holds, under its own id, a hint that is valid
   and that NormalizeHint leaves alone, whichever of POST, PUT, bulk upload,
   seeding and DELETE wrote it last; and the counters keep their bounds.    *)
THEOREM HintTypeCorrect == Spec => []TypeOK
<1>1. Init => RowsInv /\ CountInv
  BY RowsStart
<1>2. RowsInv /\ CountInv /\ [Next]_vars => (RowsInv /\ CountInv)'
  BY RowsStep, CountStep
<1>3. RowsInv /\ CountInv => TypeOK
  BY DEF RowsInv, TableOK, RowOK, CountInv, TypeOK
<1> QED
  BY <1>1, <1>2, <1>3, PTL DEF Spec
=============================================================================
