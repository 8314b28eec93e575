--------------------------- MODULE LogStreamProofs ---------------------------
(***************************************************************************)
(* For any number of runs and viewers and any capacities: the live log     *)
(* keeps its types, a websocket is sent the lines of a run in order and    *)
(* none twice, a viewer goes on where what it shows ends, and log_chunks   *)
(* is bounded.                                                             *)
(*                                                                         *)
(* The order rests on three facts.  A run draws ids in the order of its    *)
(* lines (ChunkInv).  It publishes them in that order, so a chunk in a     *)
(* channel is older than the one its run is about to publish (Out).  What  *)
(* a websocket has sent is either from its list, and not above after, or   *)
(* was published (OrderInv): a published chunk that was also listed is     *)
(* recognised by after, the others are newer than all that was sent.       *)
(***************************************************************************)
EXTENDS LogStream, ListProofs

Increasing(q) == \A m, n \in 1..Len(q) : m < n => q[m] < q[n]

(* The steps of the handler at which it has a chunk that it will publish
   unless the connection breaks.                                           *)
Holding == {"put", "trim", "publish", "last"}

StreamInv ==
    /\ writer \in [Stream -> {"open", "closing", "closed"}]
    /\ seq \in [Stream -> 0..LineBound]
    /\ sendQ = [s \in Stream |-> sendQ[s]]
    /\ \A s \in Stream :
          /\ sendQ[s] \in Seq(1..LineBound) /\ Len(sendQ[s]) <= SendCap
          /\ Increasing(sendQ[s])
          /\ \A n \in 1..Len(sendQ[s]) : sendQ[s][n] <= seq[s]

ChunkInv ==
    /\ chunkOf \in Seq(Stream \X (1..LineBound))
    /\ stored \in SUBSET (1..Len(chunkOf))
    /\ \A a, b \in 1..Len(chunkOf) :
          a < b /\ chunkOf[a][1] = chunkOf[b][1] => chunkOf[a][2] < chunkOf[b][2]
    /\ \A s \in Stream : \A a \in 1..Len(chunkOf) : chunkOf[a][1] = s =>
          /\ chunkOf[a][2] <= seq[s]
          /\ \A n \in 1..Len(sendQ[s]) : chunkOf[a][2] < sendQ[s][n]

IngestInv ==
    /\ ingest \in [Stream -> [step : Step, id : 0..Len(chunkOf), count : 0..(TrimEvery - 1)]]
    /\ \A s \in Stream : ingest[s].step \in Holding =>
          ingest[s].id \in 1..Len(chunkOf) /\ chunkOf[ingest[s].id][1] = s

ViewerInv ==
    /\ socket \in [Viewer -> {"off", "opening", "listed", "live", "polling"}]
    /\ after \in [Viewer -> 0..Len(chunkOf)]
    /\ lists \in [Viewer -> 0..ViewBound]
    /\ inbox = [v \in Viewer |-> inbox[v]] /\ sent = [v \in Viewer |-> sent[v]]
    /\ \A v \in Viewer : /\ inbox[v] \in Seq(1..Len(chunkOf)) /\ Len(inbox[v]) <= ChanCap
                         /\ sent[v] \in Seq(1..Len(chunkOf))
                         /\ socket[v] \notin {"listed", "live"} => sent[v] = <<>> /\ inbox[v] = <<>>

(* A viewer that shows q goes on at c.                                     *)
Resumes(q, c) == c # 0 => q # <<>> /\ Last(q) \in {c, Whole}

(* A request and an answer of a viewer that has asked for n lists, of a
   table that has handed out k ids.                                        *)
IsRequest(r, n) == r \in [n : Nat, kind : Kind, after : Nat] /\ r.n <= n

IsAnswer(a, k, n) ==
    /\ a.n \in Nat /\ a.n <= n /\ a.kind \in Kind
    /\ a.list \in Seq(0..k)
    /\ a.kind = "whole" => a.list \in {<<Whole>>, <<>>}
    /\ a.kind # "whole" => a.list \in Seq(1..k)

ShowInv ==
    /\ cursor \in [Viewer -> 0..Len(chunkOf)]
    /\ shown = [v \in Viewer |-> shown[v]]
    /\ asked = [v \in Viewer |-> asked[v]] /\ answers = [v \in Viewer |-> answers[v]]
    /\ \A v \in Viewer :
          /\ shown[v] \in Seq(0..Len(chunkOf))
          /\ Resumes(shown[v], cursor[v])
          /\ \A r \in asked[v] : IsRequest(r, lists[v])
          /\ \A a \in answers[v] : IsAnswer(a, Len(chunkOf), lists[v])

(* Chunk i cannot be published any more: its run is past it.               *)
Out(i) ==
    LET w == ingest[chunkOf[i][1]] IN i < w.id \/ (i = w.id /\ w.step \notin Holding)

SameRun(i, j) == chunkOf[i][1] = chunkOf[j][1]

(* A websocket that has sent q after a list that ended at a, with r in its
   channel.                                                                *)
OrderOf(q, r, a) ==
    /\ \A m, n \in 1..Len(q) : m < n /\ SameRun(q[m], q[n]) => q[m] < q[n]
    /\ \A m \in 1..Len(q) : q[m] <= a \/ Out(q[m])
    /\ \A n \in 1..Len(r) : Out(r[n])
    /\ \A m, n \in 1..Len(r) : m < n /\ SameRun(r[m], r[n]) => r[m] < r[n]
    /\ \A m \in 1..Len(q), n \in 1..Len(r) :
          q[m] > a /\ SameRun(q[m], r[n]) => q[m] < r[n]

OrderInv == \A v \in Viewer : OrderOf(sent[v], inbox[v], after[v])

LogInv == StreamInv /\ ChunkInv /\ IngestInv /\ ViewerInv /\ OrderInv /\ ShowInv

(* What each run may have added to the table since it trimmed last.        *)
Added == {x \in Stream \X (1..TrimEvery) :
             \/ ingest[x[1]].step \in {"trim", "last", "ended"}
             \/ x[2] <= ingest[x[1]].count}

TableInv == Cardinality(stored) <= LogChunkMax + 1 + Cardinality(Added)

-----------------------------------------------------------------------------
(* Increasing lists of numbers.                                            *)

LEMMA AppendIncreasing ==
    ASSUME NEW N \in Nat, NEW q \in Seq(1..N), NEW k \in 1..N, Increasing(q),
           \A n \in 1..Len(q) : q[n] < k
    PROVE  /\ Append(q, k) \in Seq(1..N) /\ Len(Append(q, k)) = Len(q) + 1
           /\ \A n \in 1..Len(q) : Append(q, k)[n] = q[n]
           /\ Append(q, k)[Len(q) + 1] = k
           /\ Increasing(Append(q, k))
<1> DEFINE r == Append(q, k)
<1>1. /\ r \in Seq(1..N) /\ Len(r) = Len(q) + 1 /\ Len(q) \in Nat
      /\ \A n \in 1..Len(q) : r[n] = q[n]
      /\ r[Len(q) + 1] = k
  BY AppendProperties
<1> HIDE DEF r
<1>2. Increasing(r)
  <2> SUFFICES ASSUME NEW m \in 1..Len(r), NEW n \in 1..Len(r), m < n PROVE r[m] < r[n]
    BY DEF Increasing
  <2>1. m \in 1..(Len(q) + 1) /\ n \in 1..(Len(q) + 1) /\ m < n /\ Len(q) \in Nat
    BY <1>1
  <2>2. m \in 1..Len(q) /\ (n \in 1..Len(q) \/ n = Len(q) + 1)
    BY <2>1
  <2> QED
    BY <1>1, <2>1, <2>2 DEF Increasing
<1> QED
  BY <1>1, <1>2 DEF r

LEMMA TailIncreasing ==
    ASSUME NEW N \in Nat, NEW q \in Seq(1..N), q # <<>>, Increasing(q)
    PROVE  /\ Head(q) = q[1] /\ Head(q) \in 1..N /\ Len(q) \in Nat \ {0}
           /\ Tail(q) \in Seq(1..N) /\ Len(Tail(q)) = Len(q) - 1
           /\ \A n \in 1..Len(Tail(q)) : n + 1 \in 1..Len(q) /\ Tail(q)[n] = q[n + 1]
           /\ Increasing(Tail(q))
           /\ \A n \in 1..Len(Tail(q)) : Head(q) < Tail(q)[n]
<1> DEFINE r == Tail(q)
           h == Head(q)
<1>1. /\ h = q[1] /\ r \in Seq(1..N) /\ Len(r) = Len(q) - 1 /\ Len(q) \in Nat \ {0}
      /\ \A n \in 1..Len(r) : r[n] = q[n + 1]
  BY HeadTailProperties, EmptySeq
<1>2. h \in 1..N
  BY <1>1
<1> HIDE DEF r, h
<1>3. \A n \in 1..Len(r) : n + 1 \in 1..Len(q) /\ 1 < n + 1
  BY <1>1
<1>4. 1 \in 1..Len(q)
  BY <1>1
<1>5. \A n \in 1..Len(r) : h < r[n]
  BY <1>1, <1>3, <1>4 DEF Increasing
<1>6. Increasing(r)
  <2> SUFFICES ASSUME NEW m \in 1..Len(r), NEW n \in 1..Len(r), m < n PROVE r[m] < r[n]
    BY DEF Increasing
  <2>1. m + 1 \in 1..Len(q) /\ n + 1 \in 1..Len(q) /\ m + 1 < n + 1
    BY <1>1, <1>3
  <2> QED
    BY <1>1, <2>1 DEF Increasing
<1> QED
  BY <1>1, <1>2, <1>3, <1>5, <1>6 DEF r, h

-----------------------------------------------------------------------------
(* The table's operators.                                                  *)

(* ORDER BY id: a list of the set's elements, in order.                    *)
LEMMA SortedIsList ==
    ASSUME NEW k \in Nat, NEW S \in SUBSET (1..k)
    PROVE  /\ Sorted(S) \in Seq(S) /\ Len(Sorted(S)) = Cardinality(S)
           /\ Increasing(Sorted(S))
<1> DEFINE q == Sorted(S)
<1>1. /\ Cardinality(S) \in Nat
      /\ \A n \in 1..Cardinality(S) : q[n] \in S
      /\ \A m, n \in 1..Cardinality(S) : m < n => q[m] < q[n]
  BY NthFacts DEF Sorted
<1>2. q = [n \in 1..Cardinality(S) |-> q[n]]
  BY DEF Sorted
<1> HIDE DEF q
<1>3. q \in Seq(S) /\ Len(q) = Cardinality(S)
  BY <1>1, <1>2
<1> QED
  BY <1>1, <1>3 DEF Increasing, q

(* A trim leaves at most LogChunkMax + 1 rows.                             *)
LEMMA KeptIsBounded ==
    ASSUME NEW k \in Nat, NEW S \in SUBSET (1..k)
    PROVE  Kept(S) \in SUBSET S /\ Cardinality(Kept(S)) <= LogChunkMax + 1
<1> DEFINE K == Kept(S)
           A(i) == {j \in S : j > i}
           f == [i \in K |-> Cardinality(A(i))]
           T == 0..LogChunkMax
<1>0. \A x \in S : x \in Int
  OBVIOUS
<1>1. IsFiniteSet(S)
  BY Rank
<1>2. \A i \in S : A(i) \in SUBSET S
  OBVIOUS
<1>3. \A i \in S : IsFiniteSet(A(i)) /\ Cardinality(A(i)) \in Nat
  BY <1>1, <1>2, FS_Subset, FS_CardinalityType
<1>4. K \in SUBSET S /\ \A i \in K : Cardinality(A(i)) <= LogChunkMax
  BY DEF Kept
<1>5. \A i \in K : f[i] \in T
  <2> SUFFICES ASSUME NEW i \in K PROVE Cardinality(A(i)) \in T
    OBVIOUS
  <2>1. Cardinality(A(i)) \in Nat /\ Cardinality(A(i)) <= LogChunkMax
    BY <1>3, <1>4
  <2> QED
    BY <2>1, LogStreamAssumption
<1>6. \A i, l \in S : i < l => Cardinality(A(i)) # Cardinality(A(l))
  <2> SUFFICES ASSUME NEW i \in S, NEW l \in S, i < l PROVE Cardinality(A(i)) # Cardinality(A(l))
    OBVIOUS
  <2>0. i \in Int /\ l \in Int /\ ~(l > l) /\ l > i /\ \A x \in S : x > l => x > i
    <3>1. i \in Int /\ l \in Int
      BY <1>0
    <3>2. ASSUME NEW x \in S, x > l PROVE x > i
      <4>1. x \in Int
        BY <1>0
      <4> QED
        BY <3>1, <3>2, <4>1
    <3> QED
      BY <3>1, <3>2
  <2>1. A(l) \subseteq A(i) /\ l \in A(i) /\ l \notin A(l)
    BY <2>0
  <2> QED
    BY <1>3, <2>1, FS_Subset
<1>7. \A i, l \in K : f[i] = f[l] => i = l
  <2> SUFFICES ASSUME NEW i \in K, NEW l \in K, i # l PROVE f[i] # f[l]
    OBVIOUS
  <2>1. i \in S /\ l \in S /\ i \in Int /\ l \in Int
    BY <1>0, <1>4
  <2>2. i < l \/ l < i
    BY <2>1
  <2> QED
    BY <1>6, <2>1, <2>2
<1>8. f \in Injection(K, T)
  BY <1>5, <1>7 DEF Injection, IsInjective
<1>9. IsFiniteSet(T) /\ Cardinality(T) = LogChunkMax + 1
  BY LogStreamAssumption, FS_Interval
<1> HIDE DEF f, T, K
<1>10. Cardinality(K) <= LogChunkMax + 1
  BY <1>8, <1>9, FS_Injection
<1> QED
  BY <1>4, <1>10 DEF K

(* What a list returns: rows, in order.                                    *)
IsList(q, i) ==
    /\ q \in Seq(stored) /\ Increasing(q)
    /\ \A n \in 1..Len(q) : q[n] > i

LEMMA ListIsList ==
    ASSUME ChunkInv, NEW i \in Nat
    PROVE  IsList(ListLogChunks(i), i)
<1> DEFINE S == {j \in stored : j > i}
           q == Sorted(S)
           l == IF Len(q) < Limit THEN Len(q) ELSE Limit
<1>1. S \in SUBSET (1..Len(chunkOf)) /\ Len(chunkOf) \in Nat
  <2>1. stored \in SUBSET (1..Len(chunkOf)) /\ Len(chunkOf) \in Nat
    BY DEF ChunkInv
  <2> QED
    BY <2>1
<1>2. q \in Seq(S) /\ Increasing(q)
  BY <1>1, SortedIsList
<1>3. ListLogChunks(i) = SubSeq(q, 1, l)
  BY DEF ListLogChunks
<1>4. \A x \in S : x \in stored /\ x > i
  OBVIOUS
<1> HIDE DEF S, q
<1>5. l \in 0..Len(q) /\ Len(q) \in Nat
  BY <1>2, LogStreamAssumption
<1> HIDE DEF l
<1>6. /\ SubSeq(q, 1, l) = [n \in 1..l |-> q[n]]
      /\ \A n \in 1..l : q[n] \in S
  BY <1>2, <1>5
<1>7. SubSeq(q, 1, l) \in Seq(stored) /\ Len(SubSeq(q, 1, l)) = l
  BY <1>4, <1>5, <1>6
<1>8. Increasing(SubSeq(q, 1, l))
  BY <1>2, <1>5, <1>6, <1>7 DEF Increasing
<1> QED
  BY <1>3, <1>4, <1>6, <1>7, <1>8 DEF IsList

LEMMA TailIsList ==
    ASSUME ChunkInv
    PROVE  IsList(TailLogChunks, 0)
<1> DEFINE S == {i \in stored : Cardinality({j \in stored : j > i}) < Limit}
           q == Sorted(S)
<1>1. S \in SUBSET (1..Len(chunkOf)) /\ Len(chunkOf) \in Nat /\ S \in SUBSET stored
  <2>1. stored \in SUBSET (1..Len(chunkOf)) /\ Len(chunkOf) \in Nat
    BY DEF ChunkInv
  <2> QED
    BY <2>1
<1>2. q \in Seq(S) /\ Increasing(q)
  BY <1>1, SortedIsList
<1>3. TailLogChunks = q
  BY DEF TailLogChunks
<1>4. \A x \in S : x \in stored /\ x > 0
  BY <1>1
<1> HIDE DEF S, q
<1>5. q \in Seq(stored) /\ \A n \in 1..Len(q) : q[n] \in S
  BY <1>1, <1>2, ElementOfSeq, SeqMonotonic
<1> QED
  BY <1>2, <1>3, <1>4, <1>5 DEF IsList

-----------------------------------------------------------------------------
(* The invariant holds at the start.                                       *)
LEMMA LogInitInv == Init => LogInv
<1> SUFFICES ASSUME Init PROVE LogInv
  OBVIOUS
<1> USE LogStreamAssumption
<1>1. \A S : <<>> \in Seq(S)
  OBVIOUS
<1>2. Len(<<>>) = 0
  OBVIOUS
<1>3. StreamInv
  BY <1>1, <1>2 DEF Init, StreamInv, Increasing
<1>4. ChunkInv
  BY <1>1, <1>2 DEF Init, ChunkInv
<1>5. IngestInv
  BY <1>2 DEF Init, IngestInv, Step, Holding
<1>6. ViewerInv
  BY <1>1, <1>2 DEF Init, ViewerInv
<1>7. OrderInv
  BY <1>2 DEF Init, OrderInv, OrderOf
<1>8. ShowInv
  BY <1>1, <1>2 DEF Init, ShowInv, Resumes
<1> QED
  BY <1>3, <1>4, <1>5, <1>6, <1>7, <1>8 DEF LogInv

(* What is shown and asked for depends on the steps of one viewer.         *)
LEMMA ShowFrame ==
    ASSUME ShowInv, UNCHANGED <<chunkOf, shown, cursor, asked, answers, lists>>
    PROVE  ShowInv'
BY DEF ShowInv

LEMMA AnswerStays ==
    ASSUME NEW a, NEW k \in Nat, NEW n \in Nat, IsAnswer(a, k, n)
    PROVE  IsAnswer(a, k + 1, n) /\ IsAnswer(a, k, n + 1)
<1>1. 0..k \subseteq 0..(k + 1) /\ 1..k \subseteq 1..(k + 1)
  OBVIOUS
<1>2. /\ a.list \in Seq(0..k) => a.list \in Seq(0..(k + 1))
      /\ a.list \in Seq(1..k) => a.list \in Seq(1..(k + 1))
  BY <1>1, SeqMonotonic
<1>3. a.n \in Nat /\ a.n <= n /\ a.n <= n + 1
  BY DEF IsAnswer
<1> QED
  BY <1>2, <1>3 DEF IsAnswer

(* A step that shows one viewer something else.                            *)
LEMMA ShowViewer ==
    ASSUME ShowInv, NEW v \in Viewer, UNCHANGED <<chunkOf, asked, answers, lists>>,
           NEW q \in Seq(0..Len(chunkOf)), NEW c \in 0..Len(chunkOf), Resumes(q, c),
           shown' = [shown EXCEPT ![v] = q], cursor' = [cursor EXCEPT ![v] = c]
    PROVE  ShowInv'
<1>1. /\ shown' = [x \in Viewer |-> IF x = v THEN q ELSE shown[x]]
      /\ cursor' = [x \in Viewer |-> IF x = v THEN c ELSE cursor[x]]
  BY DEF ShowInv
<1>2. cursor' \in [Viewer -> 0..Len(chunkOf)]
  BY <1>1 DEF ShowInv
<1>3. \A x \in Viewer : shown'[x] \in Seq(0..Len(chunkOf)) /\ Resumes(shown'[x], cursor'[x])
  BY <1>1 DEF ShowInv
<1> QED
  BY <1>1, <1>2, <1>3 DEF ShowInv, Resumes

(* Chunks that are appended to what is shown.                              *)
LEMMA AppendResumes ==
    ASSUME NEW k \in Nat, NEW q \in Seq(0..k), NEW l \in Seq(1..k), NEW c \in 0..k,
           Resumes(q, c)
    PROVE  /\ q \o l \in Seq(0..k) /\ LastOr(l, c) \in 0..k
           /\ Resumes(q \o l, LastOr(l, c))
<1>1. l \in Seq(0..k) /\ \A n \in 1..Len(l) : l[n] \in 0..k
  <2>1. 1..k \subseteq 0..k
    OBVIOUS
  <2>2. l \in Seq(0..k)
    BY <2>1, SeqMonotonic
  <2> QED
    BY <2>2, ElementOfSeq
<1>2. /\ q \o l \in Seq(0..k) /\ Len(q \o l) = Len(q) + Len(l)
      /\ Len(q) \in Nat /\ Len(l) \in Nat
      /\ \A n \in 1..(Len(q) + Len(l)) : (q \o l)[n] = IF n <= Len(q) THEN q[n] ELSE l[n - Len(q)]
  BY <1>1, ConcatProperties
<1>3. CASE l = <<>>
  <2>1. q \o l = q
    BY <1>3, ConcatEmptySeq
  <2> QED
    BY <1>2, <1>3, <2>1 DEF LastOr
<1>4. CASE l # <<>>
  <2>1. Len(l) \in Nat \ {0} /\ Len(l) \in 1..Len(l)
    BY <1>4, EmptySeq
  <2>2. LastOr(l, c) = l[Len(l)] /\ LastOr(l, c) \in 0..k
    BY <1>1, <1>4, <2>1 DEF LastOr, Last
  <2> DEFINE n == Len(q) + Len(l)
  <2>3. n \in 1..n /\ ~(n <= Len(q)) /\ n - Len(q) = Len(l) /\ n # 0
    BY <1>2, <2>1
  <2>4. (q \o l)[n] = l[Len(l)]
    BY <1>2, <2>3
  <2>5. Last(q \o l) = l[Len(l)]
    BY <1>2, <2>4 DEF Last
  <2>6. q \o l # <<>>
    BY <1>2, <2>3, EmptySeq
  <2> QED
    BY <1>2, <2>2, <2>5, <2>6 DEF Resumes
<1> QED
  BY <1>3, <1>4

(* What is past stays past, so the order of what was sent and published
   does not depend on the steps of the runs.                               *)
LEMMA OrderFrame ==
    ASSUME ViewerInv, OrderInv, UNCHANGED <<inbox, after, sent>>,
           \A i \in 1..Len(chunkOf) : chunkOf'[i] = chunkOf[i] /\ (Out(i) => Out(i)')
    PROVE  OrderInv'
<1> SUFFICES ASSUME NEW v \in Viewer
             PROVE  OrderOf(sent[v], inbox[v], after[v])'
  BY DEF OrderInv
<1>1. sent' = sent /\ inbox' = inbox /\ after' = after
  OBVIOUS
<1>2. /\ \A n \in 1..Len(sent[v]) : sent[v][n] \in 1..Len(chunkOf)
      /\ \A n \in 1..Len(inbox[v]) : inbox[v][n] \in 1..Len(chunkOf)
  BY DEF ViewerInv
<1>3. \A m \in 1..Len(sent[v]) : (Out(sent[v][m]) => Out(sent[v][m])')
  BY <1>1, <1>2 DEF Out
<1>4. \A n \in 1..Len(inbox[v]) : Out(inbox[v][n]) => Out(inbox[v][n])'
  BY <1>1, <1>2 DEF Out
<1>5. /\ \A m, n \in 1..Len(sent[v]) : SameRun(sent[v][m], sent[v][n])' <=> SameRun(sent[v][m], sent[v][n])
      /\ \A m, n \in 1..Len(inbox[v]) : SameRun(inbox[v][m], inbox[v][n])' <=> SameRun(inbox[v][m], inbox[v][n])
      /\ \A m \in 1..Len(sent[v]), n \in 1..Len(inbox[v]) :
            SameRun(sent[v][m], inbox[v][n])' <=> SameRun(sent[v][m], inbox[v][n])
  BY <1>1, <1>2 DEF SameRun
<1>6. OrderOf(sent[v], inbox[v], after[v])
  BY DEF OrderInv
<1> QED
  BY <1>1, <1>3, <1>4, <1>5, <1>6 DEF OrderOf

(* A step of the handler of run s that draws no id and publishes nothing.  *)
LEMMA AdvanceStep ==
    ASSUME LogInv, NEW s \in Stream,
           NEW w \in [step : Step, id : 0..Len(chunkOf), count : 0..(TrimEvery - 1)],
           w.id = ingest[s].id,
           w.step \in Holding => ingest[s].step \in Holding,
           ingest' = [ingest EXCEPT ![s] = w],
           stored' \in SUBSET (1..Len(chunkOf)),
           UNCHANGED <<streamVars, chunkOf, inbox, viewerVars>>
    PROVE  LogInv'
<1> USE DEF streamVars, viewerVars
<1>1. ingest' = [x \in Stream |-> IF x = s THEN w ELSE ingest[x]]
  BY DEF LogInv, IngestInv
<1>2. StreamInv' /\ ViewerInv' /\ ShowInv'
  BY ShowFrame DEF LogInv, StreamInv, ViewerInv
<1>3. ChunkInv'
  BY DEF LogInv, ChunkInv
<1>4. IngestInv'
  BY <1>1 DEF LogInv, IngestInv
<1>5. ASSUME NEW i \in 1..Len(chunkOf), Out(i) PROVE Out(i)'
  <2>1. chunkOf[i][1] \in Stream
    BY DEF LogInv, ChunkInv
  <2> QED
    BY <1>1, <1>5, <2>1 DEF Out
<1>6. OrderInv'
  BY <1>5, OrderFrame DEF LogInv
<1> QED
  BY <1>2, <1>3, <1>4, <1>6 DEF LogInv

LEMMA CommitStep ==
    ASSUME LogInv, NEW s \in Stream,
           PutCommits(s) \/ TrimLogChunks(s) \/ StreamEnds(s) \/ StreamBreaks(s)
    PROVE  LogInv'
<1> USE LogStreamAssumption
<1>1. /\ ingest[s] \in [step : Step, id : 0..Len(chunkOf), count : 0..(TrimEvery - 1)]
      /\ ingest = [x \in Stream |-> ingest[x]]
      /\ ingest[s].step \in Holding => ingest[s].id \in 1..Len(chunkOf)
      /\ stored \in SUBSET (1..Len(chunkOf)) /\ Len(chunkOf) \in Nat
  BY DEF LogInv, IngestInv, ChunkInv
<1>2. UNCHANGED <<streamVars, chunkOf, inbox, viewerVars>>
  BY DEF PutCommits, TrimLogChunks, StreamEnds, StreamBreaks
<1>3. stored' \in SUBSET (1..Len(chunkOf))
  <2>1. CASE PutCommits(s)
    BY <1>1, <2>1 DEF PutCommits, Holding
  <2>2. CASE TrimLogChunks(s)
    BY <1>1, <2>2 DEF TrimLogChunks, Kept
  <2>3. CASE StreamEnds(s)
    BY <1>1, <2>3 DEF StreamEnds
  <2>4. CASE StreamBreaks(s)
    BY <1>1, <2>4 DEF StreamBreaks, Holding
  <2> QED
    BY <2>1, <2>2, <2>3, <2>4
<1>4. \E x \in Step, c \in 0..(TrimEvery - 1) :
         /\ ingest' = [ingest EXCEPT ![s] = [@ EXCEPT !.step = x, !.count = c]]
         /\ x \in Holding => ingest[s].step \in Holding
  <2> DEFINE n == ingest[s].count + 1
  <2>0. ingest[s].count \in 0..(TrimEvery - 1) /\ ingest[s].step \in Step
    BY <1>1
  <2>1. CASE PutCommits(s)
    <3> DEFINE x == IF n >= TrimEvery THEN "trim" ELSE "publish"
               c == IF n >= TrimEvery THEN 0 ELSE n
    <3>1. x \in Step /\ c \in 0..(TrimEvery - 1) /\ ingest[s].step \in Holding
      BY <2>0, <2>1 DEF Step, Holding, PutCommits
    <3>2. ingest' = [ingest EXCEPT ![s] = [@ EXCEPT !.step = x, !.count = c]]
      BY <2>1 DEF PutCommits
    <3> QED
      BY <3>1, <3>2
  <2>2. CASE TrimLogChunks(s)
    <3> DEFINE x == IF ingest[s].step = "trim" THEN "publish" ELSE "ended"
               c == ingest[s].count
    <3>1. x \in Step /\ x \in Holding => ingest[s].step \in Holding
      BY <2>2 DEF Step, Holding, TrimLogChunks
    <3>2. ingest' = [ingest EXCEPT ![s] = [@ EXCEPT !.step = x, !.count = c]]
      BY <1>1, <2>2 DEF TrimLogChunks
    <3>3. x \in Step
      BY DEF Step
    <3> QED
      BY <2>0, <3>1, <3>2, <3>3
  <2>3. CASE StreamEnds(s)
    <3> DEFINE x == IF ingest[s].count > 0 THEN "final" ELSE "ended"
               c == ingest[s].count
    <3>1. x \in Step /\ x \notin Holding
      BY DEF Step, Holding
    <3>2. ingest' = [ingest EXCEPT ![s] = [@ EXCEPT !.step = x, !.count = c]]
      BY <1>1, <2>3 DEF StreamEnds
    <3> QED
      BY <2>0, <3>1, <3>2
  <2>4. CASE StreamBreaks(s)
    <3> DEFINE x == IF ingest[s].step = "trim" THEN "last" ELSE "ended"
               c == ingest[s].count
    <3>1. x \in Step /\ (x \in Holding => ingest[s].step \in Holding)
      BY DEF Step, Holding
    <3>2. ingest' = [ingest EXCEPT ![s] = [@ EXCEPT !.step = x, !.count = c]]
      BY <1>1, <2>4 DEF StreamBreaks
    <3> QED
      BY <2>0, <3>1, <3>2
  <2> QED
    BY <2>1, <2>2, <2>3, <2>4
<1>5. PICK x \in Step, c \in 0..(TrimEvery - 1) :
         /\ ingest' = [ingest EXCEPT ![s] = [@ EXCEPT !.step = x, !.count = c]]
         /\ x \in Holding => ingest[s].step \in Holding
  BY <1>4
<1> DEFINE w == [ingest[s] EXCEPT !.step = x, !.count = c]
<1>6. /\ w \in [step : Step, id : 0..Len(chunkOf), count : 0..(TrimEvery - 1)]
      /\ w.id = ingest[s].id /\ w.step = x
  BY <1>1
<1>7. ingest' = [ingest EXCEPT ![s] = w]
  BY <1>5
<1> HIDE DEF w
<1> QED
  BY <1>2, <1>3, <1>5, <1>6, <1>7, AdvanceStep

(* The worker's steps: a new line is above all lines before it.            *)
LEMMA WorkerStep ==
    ASSUME LogInv, NEW s \in Stream, Emit(s) \/ CloseBegins(s) \/ CloseReturns(s)
    PROVE  LogInv'
<1> USE LogStreamAssumption DEF tableVars, viewerVars
<1>1. UNCHANGED <<tableVars, inbox, viewerVars>>
  BY DEF Emit, CloseBegins, CloseReturns
<1>2. IngestInv' /\ ViewerInv' /\ ShowInv'
  BY <1>1, ShowFrame DEF LogInv, IngestInv, ViewerInv
<1>3. OrderInv'
  <2>1. \A i \in 1..Len(chunkOf) : Out(i) => Out(i)'
    BY <1>1 DEF Out
  <2> QED
    BY <1>1, <2>1, OrderFrame DEF LogInv
<1>4. CASE CloseBegins(s) \/ CloseReturns(s)
  <2>1. UNCHANGED <<seq, sendQ>>
    BY <1>4 DEF CloseBegins, CloseReturns
  <2>2. writer' \in [Stream -> {"open", "closing", "closed"}]
    BY <1>4 DEF CloseBegins, CloseReturns, LogInv, StreamInv
  <2>3. StreamInv' /\ ChunkInv'
    BY <1>1, <2>1, <2>2 DEF LogInv, StreamInv, ChunkInv
  <2> QED
    BY <1>2, <1>3, <2>3 DEF LogInv
<1>5. CASE Emit(s)
  <2> DEFINE q == sendQ[s]
             k == seq[s] + 1
             r == IF Len(q) < SendCap THEN Append(q, k) ELSE q
  <2>1. /\ writer' = writer /\ seq[s] < LineBound
        /\ seq' = [seq EXCEPT ![s] = k] /\ sendQ' = [sendQ EXCEPT ![s] = r]
    BY <1>5 DEF Emit
  <2>2. /\ q \in Seq(1..LineBound) /\ Len(q) <= SendCap /\ Increasing(q) /\ Len(q) \in Nat
        /\ \A n \in 1..Len(q) : q[n] \in Int /\ q[n] <= seq[s]
        /\ seq[s] \in 0..LineBound
    BY DEF LogInv, StreamInv
  <2>3. k \in 1..LineBound /\ k > seq[s]
    BY <2>1, <2>2
  <2>4. sendQ' = [x \in Stream |-> IF x = s THEN r ELSE sendQ[x]]
    BY <2>1 DEF LogInv, StreamInv
  <2>5. seq' = [x \in Stream |-> IF x = s THEN k ELSE seq[x]]
    BY <2>1 DEF LogInv, StreamInv
  <2> HIDE DEF k, q
  <2>6. /\ r \in Seq(1..LineBound) /\ Len(r) <= SendCap /\ Increasing(r)
        /\ \A n \in 1..Len(r) : (n \in 1..Len(q) /\ r[n] = q[n]) \/ r[n] = k
    <3>1. \A n \in 1..Len(q) : q[n] < k
      BY <2>2, <2>3
    <3>2. CASE Len(q) < SendCap
      <4> DEFINE z == Append(q, k)
      <4>1. /\ z \in Seq(1..LineBound) /\ Len(z) = Len(q) + 1 /\ Increasing(z)
            /\ \A n \in 1..Len(q) : z[n] = q[n]
            /\ z[Len(q) + 1] = k
        BY <2>2, <2>3, <3>1, AppendIncreasing
      <4>2. r = z
        BY <3>2
      <4> HIDE DEF z
      <4>3. ASSUME NEW n \in 1..Len(z) PROVE (n \in 1..Len(q) /\ z[n] = q[n]) \/ z[n] = k
        <5>1. n \in 1..(Len(q) + 1) /\ Len(q) \in Nat
          BY <2>2, <4>1
        <5>2. n \in 1..Len(q) \/ n = Len(q) + 1
          BY <5>1
        <5> QED
          BY <4>1, <5>2
      <4>4. Len(z) <= SendCap
        BY <2>2, <3>2, <4>1
      <4> HIDE DEF r
      <4> QED
        BY <4>1, <4>2, <4>3, <4>4
    <3>3. CASE ~(Len(q) < SendCap)
      BY <2>2, <3>3
    <3> QED
      BY <3>2, <3>3
  <2> HIDE DEF r
  <2>7. \A n \in 1..Len(r) : r[n] <= k
    BY <2>2, <2>3, <2>6
  <2>8. StreamInv'
    <3>1. writer' \in [Stream -> {"open", "closing", "closed"}] /\ seq' \in [Stream -> 0..LineBound]
      BY <2>1, <2>3, <2>5 DEF LogInv, StreamInv
    <3>2. ASSUME NEW x \in Stream
          PROVE  /\ sendQ'[x] \in Seq(1..LineBound) /\ Len(sendQ'[x]) <= SendCap
                 /\ Increasing(sendQ'[x])
                 /\ \A n \in 1..Len(sendQ'[x]) : sendQ'[x][n] <= seq'[x]
      <4>1. CASE x = s
        BY <2>4, <2>5, <2>6, <2>7, <4>1
      <4>2. CASE x # s
        BY <2>4, <2>5, <4>2 DEF LogInv, StreamInv
      <4> QED
        BY <4>1, <4>2
    <3>3. \A x \in Stream : Increasing(sendQ[x])'
      BY <3>2 DEF Increasing
    <3> QED
      BY <2>4, <3>1, <3>2, <3>3 DEF StreamInv
  <2>9. ChunkInv'
    <3> SUFFICES ASSUME NEW x \in Stream, NEW a \in 1..Len(chunkOf), chunkOf[a][1] = x
                 PROVE  /\ chunkOf[a][2] <= seq'[x]
                        /\ \A n \in 1..Len(sendQ'[x]) : chunkOf[a][2] < sendQ'[x][n]
      BY <1>1 DEF LogInv, ChunkInv
    <3>1. /\ chunkOf[a][2] <= seq[x] /\ chunkOf[a][2] \in Int
          /\ \A n \in 1..Len(sendQ[x]) : chunkOf[a][2] < sendQ[x][n]
      BY DEF LogInv, ChunkInv
    <3>2. CASE x # s
      BY <2>4, <2>5, <3>1, <3>2
    <3>3. CASE x = s
      <4>1. chunkOf[a][2] < k /\ k \in Int /\ chunkOf[a][2] <= k
        BY <2>2, <2>3, <3>1, <3>3
      <4>2. \A n \in 1..Len(q) : chunkOf[a][2] < q[n]
        BY <3>1, <3>3 DEF q
      <4>3. \A n \in 1..Len(r) : chunkOf[a][2] < r[n]
        BY <2>6, <4>1, <4>2
      <4> QED
        BY <2>4, <2>5, <3>3, <4>1, <4>3
    <3> QED
      BY <3>2, <3>3
  <2> QED
    BY <1>2, <1>3, <2>8, <2>9 DEF LogInv
<1> QED
  BY <1>4, <1>5

(* A line arrives and draws an id: it is the run's newest chunk.           *)
LEMMA PutBeginsStep ==
    ASSUME LogInv, NEW s \in Stream, PutBegins(s)
    PROVE  LogInv'
<1> USE LogStreamAssumption DEF viewerVars
<1> DEFINE q == sendQ[s]
           h == Head(q)
           k == Len(chunkOf)
           w == [ingest[s] EXCEPT !.step = "put", !.id = k + 1]
<1>1. /\ UNCHANGED <<writer, seq, stored, inbox, viewerVars>>
      /\ q # <<>> /\ ingest[s].step = "read"
      /\ sendQ' = [sendQ EXCEPT ![s] = Tail(q)]
      /\ chunkOf' = Append(chunkOf, <<s, h>>)
      /\ ingest' = [ingest EXCEPT ![s] = w]
  BY DEF PutBegins
<1>2. /\ q \in Seq(1..LineBound) /\ Len(q) <= SendCap /\ Increasing(q) /\ Len(q) \in Nat
      /\ \A n \in 1..Len(q) : q[n] \in Int /\ q[n] <= seq[s]
      /\ chunkOf \in Seq(Stream \X (1..LineBound)) /\ k \in Nat
      /\ stored \in SUBSET (1..k)
      /\ ingest[s] \in [step : Step, id : 0..k, count : 0..(TrimEvery - 1)]
  <2>1. /\ q \in Seq(1..LineBound) /\ Len(q) <= SendCap /\ Increasing(q)
        /\ \A n \in 1..Len(q) : q[n] <= seq[s]
    BY DEF LogInv, StreamInv
  <2>2. Len(q) \in Nat /\ \A n \in 1..Len(q) : q[n] \in Int
    BY <2>1
  <2>3. /\ chunkOf \in Seq(Stream \X (1..LineBound)) /\ k \in Nat
        /\ stored \in SUBSET (1..k)
    BY DEF LogInv, ChunkInv
  <2>4. ingest[s] \in [step : Step, id : 0..k, count : 0..(TrimEvery - 1)]
    BY DEF LogInv, IngestInv
  <2> QED
    BY <2>1, <2>2, <2>3, <2>4
<1>3. /\ h \in 1..LineBound /\ h = q[1] /\ Tail(q) \in Seq(1..LineBound)
      /\ Len(Tail(q)) = Len(q) - 1 /\ Len(q) > 0
      /\ \A n \in 1..Len(Tail(q)) : n + 1 \in 1..Len(q) /\ Tail(q)[n] = q[n + 1]
      /\ Increasing(Tail(q)) /\ \A n \in 1..Len(Tail(q)) : h < Tail(q)[n]
      /\ 1 \in 1..Len(q)
  <2> HIDE DEF q
  <2>1. /\ h = q[1] /\ h \in 1..LineBound /\ Len(q) \in Nat \ {0}
        /\ Tail(q) \in Seq(1..LineBound) /\ Len(Tail(q)) = Len(q) - 1
        /\ \A n \in 1..Len(Tail(q)) : n + 1 \in 1..Len(q) /\ Tail(q)[n] = q[n + 1]
        /\ Increasing(Tail(q)) /\ \A n \in 1..Len(Tail(q)) : h < Tail(q)[n]
    BY <1>1, <1>2, TailIncreasing
  <2>2. Len(q) > 0 /\ 1 \in 1..Len(q)
    BY <2>1
  <2> QED
    BY <2>1, <2>2
<1>4. /\ <<s, h>> \in Stream \X (1..LineBound)
      /\ <<s, h>>[1] = s /\ <<s, h>>[2] = h
  BY <1>3
<1> HIDE DEF h
<1>5. /\ chunkOf' \in Seq(Stream \X (1..LineBound)) /\ Len(chunkOf') = k + 1
      /\ \A i \in 1..k : chunkOf'[i] = chunkOf[i]
      /\ chunkOf'[k + 1] = <<s, h>>
  <2>1. PICK e \in Stream \X (1..LineBound) : e = <<s, h>>
    BY <1>4
  <2>2. chunkOf \in Seq(Stream \X (1..LineBound)) /\ Len(chunkOf) = k /\ chunkOf' = Append(chunkOf, e)
    BY <1>1, <1>2, <2>1
  <2>3. /\ chunkOf' \in Seq(Stream \X (1..LineBound)) /\ Len(chunkOf') = k + 1
        /\ \A i \in 1..k : chunkOf'[i] = chunkOf[i]
        /\ chunkOf'[k + 1] = e
    BY <2>2, AppendProperties
  <2> QED
    BY <2>1, <2>3
<1>6. w \in [step : Step, id : 0..(k + 1), count : 0..(TrimEvery - 1)]
      /\ w.id = k + 1 /\ w.step = "put"
  <2>1. k + 1 \in 0..(k + 1) /\ "put" \in Step
    BY <1>2 DEF Step
  <2> HIDE DEF k
  <2> QED
    BY <1>2, <2>1
<1> HIDE DEF w
<1>7. ingest' = [x \in Stream |-> IF x = s THEN w ELSE ingest[x]]
  BY <1>1 DEF LogInv, IngestInv
<1>8. sendQ' = [x \in Stream |-> IF x = s THEN Tail(q) ELSE sendQ[x]]
  BY <1>1 DEF LogInv, StreamInv
<1>9. StreamInv'
  <2>1. Increasing(Tail(q))
    BY <1>3
  <2>2. \A n \in 1..Len(Tail(q)) : Tail(q)[n] <= seq[s]
    BY <1>2, <1>3
  <2>3. Len(Tail(q)) <= SendCap
    BY <1>2, <1>3
  <2> HIDE DEF q
  <2> QED
    BY <1>1, <1>3, <1>8, <2>1, <2>2, <2>3 DEF LogInv, StreamInv
<1>10. IngestInv'
  <2>1. ASSUME NEW x \in Stream
        PROVE  /\ ingest'[x] \in [step : Step, id : 0..(k + 1), count : 0..(TrimEvery - 1)]
               /\ ingest'[x].step \in Holding =>
                     ingest'[x].id \in 1..(k + 1) /\ chunkOf'[ingest'[x].id][1] = x
    <3>1. CASE x = s
      BY <1>2, <1>4, <1>5, <1>6, <1>7, <3>1
    <3>2. CASE x # s
      <4>1. /\ ingest'[x] = ingest[x]
            /\ ingest[x] \in [step : Step, id : 0..k, count : 0..(TrimEvery - 1)]
            /\ ingest[x].step \in Holding =>
                  ingest[x].id \in 1..k /\ chunkOf[ingest[x].id][1] = x
        BY <1>7, <3>2 DEF LogInv, IngestInv
      <4>2. \A i \in 0..k : i \in 0..(k + 1)
        BY <1>2
      <4> QED
        BY <1>2, <1>5, <4>1, <4>2
    <3> QED
      BY <3>1, <3>2
  <2> QED
    BY <1>5, <1>7, <2>1 DEF IngestInv
<1>11. ChunkInv'
  <2>1. stored' \in SUBSET (1..Len(chunkOf'))
    BY <1>1, <1>2, <1>5
  <2>2. ASSUME NEW a \in 1..k
        PROVE  /\ chunkOf[a][1] \in Stream /\ chunkOf[a][2] \in Int
               /\ chunkOf[a][2] <= seq[chunkOf[a][1]]
               /\ \A n \in 1..Len(sendQ[chunkOf[a][1]]) : chunkOf[a][2] < sendQ[chunkOf[a][1]][n]
    BY DEF LogInv, ChunkInv
  <2>3. ASSUME NEW a \in 1..Len(chunkOf'), NEW b \in 1..Len(chunkOf'),
               a < b, chunkOf'[a][1] = chunkOf'[b][1]
        PROVE  chunkOf'[a][2] < chunkOf'[b][2]
    <3>1. a \in 1..k /\ (b \in 1..k \/ b = k + 1)
      <4>1. a \in 1..(k + 1) /\ b \in 1..(k + 1) /\ a < b /\ k \in Nat
        BY <1>2, <1>5, <2>3
      <4> HIDE DEF k
      <4> QED
        BY <4>1
    <3>2. CASE b \in 1..k
      BY <1>5, <2>3, <3>1, <3>2 DEF LogInv, ChunkInv
    <3>3. CASE b = k + 1
      <4>1. chunkOf[a][1] = s /\ chunkOf'[b][2] = h
        BY <1>4, <1>5, <2>3, <3>1, <3>3
      <4>2. \A n \in 1..Len(q) : chunkOf[a][2] < q[n]
        BY <2>2, <3>1, <4>1
      <4> QED
        BY <1>3, <1>5, <3>1, <4>1, <4>2
    <3> QED
      BY <3>1, <3>2, <3>3
  <2>4. ASSUME NEW x \in Stream, NEW a \in 1..Len(chunkOf'), chunkOf'[a][1] = x
        PROVE  /\ chunkOf'[a][2] <= seq'[x]
               /\ \A n \in 1..Len(sendQ'[x]) : chunkOf'[a][2] < sendQ'[x][n]
    <3>1. CASE a \in 1..k
      <4>1. chunkOf[a][1] = x /\ chunkOf'[a] = chunkOf[a]
        BY <1>5, <2>4, <3>1
      <4>2. CASE x # s
        BY <1>1, <1>8, <2>2, <3>1, <4>1, <4>2
      <4>3. CASE x = s
        <5>1. /\ chunkOf[a][2] <= seq[s]
              /\ \A n \in 1..Len(q) : chunkOf[a][2] < q[n]
          BY <2>2, <3>1, <4>1, <4>3
        <5>2. \A n \in 1..Len(Tail(q)) : chunkOf[a][2] < Tail(q)[n]
          BY <1>3, <5>1
        <5> HIDE DEF q
        <5> QED
          BY <1>1, <1>8, <4>1, <4>3, <5>1, <5>2
      <4> QED
        BY <4>2, <4>3
    <3>2. CASE a = k + 1
      <4>1. x = s /\ chunkOf'[a][2] = h
        BY <1>4, <1>5, <2>4, <3>2
      <4>2. h <= seq[s]
        BY <1>2, <1>3
      <4>3. \A n \in 1..Len(Tail(q)) : h < Tail(q)[n]
        BY <1>3
      <4> HIDE DEF q
      <4> QED
        BY <1>1, <1>8, <4>1, <4>2, <4>3
    <3> QED
      BY <1>2, <1>5, <3>1, <3>2
  <2> QED
    BY <1>5, <2>1, <2>3, <2>4 DEF ChunkInv
<1>12. ViewerInv'
  <2>0. \A i \in 0..k : i \in 0..(k + 1)
    BY <1>2
  <2>1. after' \in [Viewer -> 0..(k + 1)]
    BY <1>1, <2>0 DEF LogInv, ViewerInv
  <2>2. 1..k \subseteq 1..(k + 1)
    BY <1>2
  <2>3. \A v \in Viewer : inbox[v] \in Seq(1..(k + 1)) /\ sent[v] \in Seq(1..(k + 1))
    BY <2>2, SeqMonotonic DEF LogInv, ViewerInv
  <2> QED
    BY <1>1, <1>5, <2>1, <2>3 DEF LogInv, ViewerInv
<1>12a. ShowInv'
  <2>0. \A i \in 0..k : i \in 0..(k + 1)
    BY <1>2
  <2>1. cursor' \in [Viewer -> 0..(k + 1)]
    BY <1>1, <2>0 DEF LogInv, ShowInv
  <2>2. 0..k \subseteq 0..(k + 1)
    BY <1>2
  <2>3. \A v \in Viewer : shown[v] \in Seq(0..(k + 1))
    BY <2>2, SeqMonotonic DEF LogInv, ShowInv
  <2>4. \A v \in Viewer : lists[v] \in Nat
    BY DEF LogInv, ViewerInv
  <2>5. \A v \in Viewer : \A a \in answers[v] : IsAnswer(a, k + 1, lists[v])
    BY <1>2, <2>4, AnswerStays DEF LogInv, ShowInv
  <2> HIDE DEF k
  <2> QED
    BY <1>1, <1>5, <2>1, <2>3, <2>5 DEF LogInv, ShowInv
<1>13. OrderInv'
  <2>1. ASSUME NEW i \in 1..k, Out(i) PROVE Out(i)'
    <3>1. chunkOf'[i] = chunkOf[i] /\ chunkOf[i][1] \in Stream
      BY <1>5 DEF LogInv, ChunkInv
    <3>2. CASE chunkOf[i][1] = s
      BY <1>2, <1>6, <1>7, <3>1, <3>2 DEF Out
    <3>3. CASE chunkOf[i][1] # s
      BY <1>7, <2>1, <3>1, <3>3 DEF Out
    <3> QED
      BY <3>2, <3>3
  <2> QED
    BY <1>1, <1>5, <2>1, OrderFrame DEF LogInv
<1> QED
  BY <1>9, <1>10, <1>11, <1>12, <1>12a, <1>13 DEF LogInv

(* Under every step of the handler of a run, what is past stays past.      *)
LEMMA OutStays ==
    ASSUME LogInv, NEW s \in Stream,
           \/ PutBegins(s) \/ PutCommits(s) \/ TrimLogChunks(s) \/ Publish(s)
           \/ StreamEnds(s) \/ StreamBreaks(s)
    PROVE  \A i \in 1..Len(chunkOf) : chunkOf'[i] = chunkOf[i] /\ (Out(i) => Out(i)')
<1> DEFINE k == Len(chunkOf)
<1>1. /\ chunkOf \in Seq(Stream \X (1..LineBound)) /\ k \in Nat
      /\ \A i \in 1..k : chunkOf[i][1] \in Stream
      /\ ingest \in [Stream -> [step : Step, id : 0..k, count : 0..(TrimEvery - 1)]]
  BY DEF LogInv, ChunkInv, IngestInv
<1>2. \A x \in Stream \ {s} : ingest'[x] = ingest[x]
  BY <1>1 DEF PutBegins, PutCommits, TrimLogChunks, Publish, StreamEnds, StreamBreaks
<1>3. CASE PutBegins(s)
  <2>1. chunkOf' = Append(chunkOf, <<s, Head(sendQ[s])>>)
    BY <1>3 DEF PutBegins
  <2>2. ingest'[s].id = k + 1
    BY <1>1, <1>3 DEF PutBegins
  <2> HIDE DEF k
  <2>3. \A i \in 1..k : chunkOf'[i] = chunkOf[i]
    BY <1>1, <2>1 DEF k
  <2>4. \A i \in 1..k : i < k + 1
    BY <1>1
  <2>5. \A i \in 1..k : Out(i) => Out(i)'
    BY <1>1, <1>2, <2>2, <2>3, <2>4 DEF Out
  <2> QED
    BY <2>3, <2>5 DEF k
<1>4. CASE ~PutBegins(s)
  <2>1. chunkOf' = chunkOf
    BY <1>4 DEF PutCommits, TrimLogChunks, Publish, StreamEnds, StreamBreaks
  <2>2. /\ ingest'[s].id = ingest[s].id
        /\ ingest[s].step \notin Holding => ingest'[s].step \notin Holding
    <3>1. CASE PutCommits(s)
      BY <1>1, <3>1 DEF PutCommits, Holding
    <3>2. CASE TrimLogChunks(s)
      BY <1>1, <3>2 DEF TrimLogChunks, Holding
    <3>3. CASE Publish(s)
      BY <1>1, <3>3 DEF Publish, Holding
    <3>4. CASE StreamEnds(s)
      BY <1>1, <3>4 DEF StreamEnds, Holding
    <3>5. CASE StreamBreaks(s)
      BY <1>1, <3>5 DEF StreamBreaks, Holding
    <3> QED
      BY <1>4, <3>1, <3>2, <3>3, <3>4, <3>5
  <2> QED
    BY <1>1, <1>2, <2>1, <2>2 DEF Out
<1> QED
  BY <1>3, <1>4

(* A step of one viewer.                                                   *)
LEMMA OrderViewer ==
    ASSUME OrderInv, UNCHANGED <<ingest, chunkOf>>, NEW v \in Viewer,
           \A x \in Viewer \ {v} : sent'[x] = sent[x] /\ inbox'[x] = inbox[x] /\ after'[x] = after[x],
           NEW q, NEW r, NEW a, sent'[v] = q, inbox'[v] = r, after'[v] = a,
           OrderOf(q, r, a)
    PROVE  OrderInv'
<1> SUFFICES ASSUME NEW x \in Viewer
             PROVE  OrderOf(sent[x], inbox[x], after[x])'
  BY DEF OrderInv
<1>1. OrderOf(sent'[x], inbox'[x], after'[x])
  BY DEF OrderInv
<1> QED
  BY <1>1 DEF OrderOf, Out, SameRun

(* A chunk i that its run publishes, in the order of one websocket: all of
   that run that was sent or published before is older.                    *)
LEMMA PublishOrder ==
    ASSUME NEW k \in Nat, NEW i \in 1..k, chunkOf' = chunkOf,
           \A j \in 1..k : Out(j) => Out(j)',
           \A j \in 1..k : Out(j) /\ SameRun(j, i) => j < i,
           Out(i)',
           NEW q \in Seq(1..k), NEW r \in Seq(1..k), NEW z, NEW a \in Int,
           OrderOf(q, r, a), z = r \/ z = Append(r, i)
    PROVE  OrderOf(q, z, a)'
<1>1. /\ Len(r) \in Nat /\ Len(q) \in Nat
      /\ \A n \in 1..Len(q) : q[n] \in 1..k /\ q[n] \in Int
      /\ \A n \in 1..Len(r) : r[n] \in 1..k /\ r[n] \in Int
  OBVIOUS
<1>2. \A n \in 1..Len(z) : (n \in 1..Len(r) /\ z[n] = r[n]) \/ (n = Len(r) + 1 /\ z[n] = i)
  <2>1. CASE z = r
    BY <2>1
  <2>2. CASE z = Append(r, i)
    <3>1. /\ Len(z) = Len(r) + 1 /\ z[Len(r) + 1] = i
          /\ \A n \in 1..Len(r) : z[n] = r[n]
      BY <2>2, AppendProperties
    <3> QED
      BY <1>1, <3>1
  <2> QED
    BY <2>1, <2>2
<1>3. \A m \in 1..Len(q) : q[m] <= a \/ Out(q[m])'
  BY <1>1 DEF OrderOf
<1>4. \A n \in 1..Len(z) : Out(z[n])'
  <2> SUFFICES ASSUME NEW n \in 1..Len(z) PROVE Out(z[n])'
    OBVIOUS
  <2>1. CASE n \in 1..Len(r) /\ z[n] = r[n]
    BY <1>1, <2>1 DEF OrderOf
  <2>2. CASE z[n] = i
    BY <2>2
  <2> QED
    BY <1>2, <2>1, <2>2
<1>5. ASSUME NEW m \in 1..Len(z), NEW n \in 1..Len(z), m < n, SameRun(z[m], z[n])
      PROVE  z[m] < z[n]
  <2>1. m \in 1..Len(r) /\ z[m] = r[m]
    BY <1>1, <1>2, <1>5
  <2>2. CASE n \in 1..Len(r) /\ z[n] = r[n]
    BY <1>5, <2>1, <2>2 DEF OrderOf
  <2>3. CASE z[n] = i
    <3>1. Out(r[m]) /\ r[m] \in 1..k
      BY <1>1, <2>1 DEF OrderOf
    <3> QED
      BY <1>5, <2>1, <2>3, <3>1
  <2> QED
    BY <1>2, <2>2, <2>3
<1>6. ASSUME NEW m \in 1..Len(q), NEW n \in 1..Len(z), q[m] > a, SameRun(q[m], z[n])
      PROVE  q[m] < z[n]
  <2>1. CASE n \in 1..Len(r) /\ z[n] = r[n]
    BY <1>6, <2>1 DEF OrderOf
  <2>2. CASE z[n] = i
    <3>1. Out(q[m]) /\ q[m] \in 1..k
      BY <1>1, <1>6 DEF OrderOf
    <3> QED
      BY <1>6, <2>2, <3>1
  <2> QED
    BY <1>2, <2>1, <2>2
<1>7. \A m, n \in 1..Len(q) : m < n /\ SameRun(q[m], q[n]) => q[m] < q[n]
  BY DEF OrderOf
<1>8. \A x, y : SameRun(x, y)' <=> SameRun(x, y)
  BY DEF SameRun
<1> QED
  BY <1>3, <1>4, <1>5, <1>6, <1>7, <1>8 DEF OrderOf

(* publish: the chunk is newer than all that its run has published.        *)
LEMMA PublishStep ==
    ASSUME LogInv, NEW s \in Stream, Publish(s)
    PROVE  LogInv'
<1> USE LogStreamAssumption DEF viewerVars, streamVars
<1> DEFINE i == ingest[s].id
           x == IF ingest[s].step = "publish" THEN "read" ELSE "ended"
           w == [ingest[s] EXCEPT !.step = x]
           k == Len(chunkOf)
<1>1. /\ UNCHANGED <<streamVars, chunkOf, stored, viewerVars>>
      /\ ingest[s].step \in {"publish", "last"}
      /\ inbox' = [v \in Viewer |-> IF socket[v] = "live" THEN Published(inbox[v], i)
                                                          ELSE inbox[v]]
  BY DEF Publish
<1>2. /\ ingest[s] \in [step : Step, id : 0..k, count : 0..(TrimEvery - 1)]
      /\ ingest = [y \in Stream |-> ingest[y]]
      /\ i \in 1..k /\ chunkOf[i][1] = s /\ ingest[s].step \in Holding /\ k \in Nat
      /\ \A j \in 1..k : chunkOf[j][1] \in Stream
  <2>1. ingest[s].step \in Holding
    BY <1>1 DEF Holding
  <2>2. k \in Nat /\ \A j \in 1..k : chunkOf[j][1] \in Stream
    BY DEF LogInv, ChunkInv
  <2> QED
    BY <2>1, <2>2 DEF LogInv, IngestInv
<1>3. ingest' = [ingest EXCEPT ![s] = w]
  BY <1>2 DEF Publish
<1>4. /\ w \in [step : Step, id : 0..k, count : 0..(TrimEvery - 1)]
      /\ w.id = i /\ w.step = x
  <2>1. x \in Step
    BY DEF Step
  <2> HIDE DEF k, x
  <2> QED
    BY <1>2, <2>1
<1>5. x \notin Holding
  BY DEF Holding
<1> HIDE DEF w, x
<1>6. ingest' = [y \in Stream |-> IF y = s THEN w ELSE ingest[y]]
  BY <1>2, <1>3
<1>7. StreamInv' /\ ChunkInv'
  BY <1>1 DEF LogInv, StreamInv, ChunkInv
<1>8. IngestInv'
  BY <1>1, <1>4, <1>5, <1>6 DEF LogInv, IngestInv
<1>9. ASSUME NEW v \in Viewer
      PROVE  \/ inbox'[v] = inbox[v]
             \/ /\ inbox'[v] = Append(inbox[v], i) /\ Len(inbox[v]) < ChanCap
  BY <1>1 DEF Published
<1>10. ASSUME NEW v \in Viewer
       PROVE  inbox[v] \in Seq(1..k) /\ Len(inbox[v]) \in Nat /\ Len(inbox[v]) <= ChanCap
  BY DEF LogInv, ViewerInv
<1>11. ASSUME NEW v \in Viewer
       PROVE  inbox'[v] \in Seq(1..k) /\ Len(inbox'[v]) <= ChanCap
  <2>1. CASE inbox'[v] = inbox[v]
    BY <1>10, <2>1
  <2>2. CASE inbox'[v] = Append(inbox[v], i) /\ Len(inbox[v]) < ChanCap
    <3>1. Append(inbox[v], i) \in Seq(1..k) /\ Len(Append(inbox[v], i)) = Len(inbox[v]) + 1
      BY <1>2, <1>10, AppendProperties
    <3> QED
      BY <1>10, <2>2, <3>1
  <2> QED
    BY <1>9, <2>1, <2>2
<1>12. ViewerInv'
  <2>1. inbox' = [v \in Viewer |-> inbox'[v]]
    BY <1>1
  <2>2. \A v \in Viewer : socket[v] \notin {"listed", "live"} => inbox'[v] = inbox[v]
    BY <1>1
  <2> QED
    BY <1>1, <1>11, <2>1, <2>2 DEF LogInv, ViewerInv
<1>12a. ShowInv'
  BY <1>1, ShowFrame DEF LogInv
<1>13. ASSUME NEW j \in 1..k
       PROVE  (Out(j) => Out(j)') /\ (Out(j) /\ chunkOf[j][1] = s => j < i)
  BY <1>1, <1>2, <1>4, <1>5, <1>6 DEF Out
<1>14. OrderInv'
  <2> SUFFICES ASSUME NEW v \in Viewer
               PROVE  OrderOf(sent[v], inbox[v], after[v])'
    BY DEF OrderInv
  <2>1. /\ OrderOf(sent[v], inbox[v], after[v])
        /\ sent'[v] = sent[v] /\ after'[v] = after[v] /\ chunkOf' = chunkOf
    BY <1>1 DEF LogInv, OrderInv
  <2>2. sent[v] \in Seq(1..k) /\ inbox[v] \in Seq(1..k) /\ after[v] \in Int
    BY <1>2 DEF LogInv, ViewerInv
  <2>3. \A j \in 1..k : Out(j) /\ SameRun(j, i) => j < i
    BY <1>2, <1>13 DEF SameRun
  <2>5. PICK q, r, z, a, j, l : /\ q = sent[v] /\ r = inbox[v] /\ z = inbox'[v]
                                /\ a = after[v] /\ j = i /\ l = k
    OBVIOUS
  <2>6. Out(j)'
    BY <1>1, <1>2, <1>4, <1>5, <1>6, <2>5 DEF Out
  <2>7. /\ l \in Nat /\ j \in 1..l /\ q \in Seq(1..l) /\ r \in Seq(1..l) /\ a \in Int
        /\ OrderOf(q, r, a) /\ (z = r \/ z = Append(r, j))
        /\ \A y \in 1..l : Out(y) => Out(y)'
        /\ \A y \in 1..l : Out(y) /\ SameRun(y, j) => y < j
    BY <1>2, <1>9, <1>13, <2>1, <2>2, <2>3, <2>5
  <2>8. OrderOf(q, z, a)'
    BY <2>1, <2>6, <2>7, PublishOrder
  <2>9. q = sent'[v] /\ z = inbox'[v] /\ a = after'[v]
    BY <2>1, <2>5
  <2> QED
    BY <2>8, <2>9 DEF OrderOf, Out, SameRun
<1> QED
  BY <1>7, <1>8, <1>12, <1>12a, <1>14 DEF LogInv

-----------------------------------------------------------------------------
(* The viewers' steps.                                                     *)

(* A list holds ids of the table, and its last is its newest.              *)
LEMMA ListFacts ==
    ASSUME ChunkInv, NEW i \in Nat, NEW q, IsList(q, i), NEW c \in 0..Len(chunkOf)
    PROVE  /\ q \in Seq(1..Len(chunkOf)) /\ Increasing(q)
           /\ LastOr(q, c) \in 0..Len(chunkOf)
           /\ \A n \in 1..Len(q) : q[n] \in stored /\ q[n] > i /\ q[n] <= LastOr(q, c)
           /\ q # <<>> => LastOr(q, c) \in stored /\ LastOr(q, c) > i
           /\ q = <<>> => LastOr(q, c) = c
<1>1. stored \subseteq 1..Len(chunkOf) /\ Len(chunkOf) \in Nat
  BY DEF ChunkInv
<1>2. q \in Seq(stored) /\ Increasing(q) /\ \A n \in 1..Len(q) : q[n] > i
  BY DEF IsList
<1>3. q \in Seq(1..Len(chunkOf))
  BY <1>1, <1>2, SeqMonotonic
<1>4. \A n \in 1..Len(q) : q[n] \in stored /\ q[n] \in Int
  <2>1. \A n \in 1..Len(q) : q[n] \in stored
    BY <1>2, ElementOfSeq
  <2>2. \A x \in stored : x \in Int
    BY <1>1
  <2> QED
    BY <2>1, <2>2
<1>5. CASE q = <<>>
  BY <1>2, <1>3, <1>5 DEF LastOr
<1>6. CASE q # <<>>
  <2>1. Len(q) \in Nat \ {0} /\ Len(q) \in 1..Len(q)
    BY <1>2, <1>6, EmptySeq
  <2>2. LastOr(q, c) = q[Len(q)]
    BY <1>6 DEF LastOr, Last
  <2>3. LastOr(q, c) \in stored /\ LastOr(q, c) > i
    BY <1>2, <1>4, <2>1, <2>2
  <2>4. \A n \in 1..Len(q) : q[n] <= q[Len(q)]
    <3> SUFFICES ASSUME NEW n \in 1..Len(q) PROVE q[n] <= q[Len(q)]
      OBVIOUS
    <3>1. n = Len(q) \/ n < Len(q)
      BY <2>1
    <3> QED
      BY <1>2, <1>4, <2>1, <3>1 DEF Increasing
  <2>5. LastOr(q, c) \in 0..Len(chunkOf)
    <3>1. \A x \in stored : x \in 0..Len(chunkOf)
      BY <1>1
    <3> QED
      BY <2>3, <3>1
  <2> QED
    BY <1>2, <1>3, <1>4, <1>6, <2>2, <2>3, <2>4, <2>5
<1> QED
  BY <1>5, <1>6

(* The list a request returns: of the table or, when it fails, empty.      *)
LEMMA NoList ==
    ASSUME NEW i \in Nat
    PROVE  IsList(<<>>, i)
<1>1. <<>> \in Seq(stored) /\ Len(<<>>) = 0
  OBVIOUS
<1> QED
  BY <1>1 DEF IsList, Increasing

(* A viewer's step leaves the runs and the table alone.                    *)
LEMMA ViewerFrame ==
    ASSUME LogInv, UNCHANGED <<streamVars, tableVars>>
    PROVE  StreamInv' /\ ChunkInv' /\ IngestInv'
BY DEF LogInv, StreamInv, ChunkInv, IngestInv, streamVars, tableVars

(* loadLog and pollLogChunks ask; their answers change what is shown.      *)
LEMMA AskStep ==
    ASSUME LogInv, NEW v \in Viewer, LoadLog(v) \/ PollLogChunks(v)
    PROVE  LogInv'
<1> USE LogStreamAssumption DEF tableVars
<1> DEFINE k == Len(chunkOf)
<1>1. UNCHANGED <<streamVars, tableVars, inbox, socket, after, sent, answers>>
  BY DEF LoadLog, PollLogChunks
<1>2. StreamInv' /\ ChunkInv' /\ IngestInv'
  BY <1>1, ViewerFrame
<1>3. \A i \in 1..Len(chunkOf) : chunkOf'[i] = chunkOf[i] /\ (Out(i) => Out(i)')
  BY <1>1 DEF Out
<1>4. OrderInv'
  BY <1>1, <1>3, OrderFrame DEF LogInv
<1>5. /\ cursor \in [Viewer -> 0..k]
      /\ lists \in [Viewer -> 0..ViewBound]
      /\ shown = [x \in Viewer |-> shown[x]] /\ asked = [x \in Viewer |-> asked[x]]
      /\ answers = [x \in Viewer |-> answers[x]]
      /\ k \in Nat /\ chunkOf' = chunkOf
      /\ \A x \in Viewer : shown[x] \in Seq(0..k) /\ Resumes(shown[x], cursor[x])
  BY <1>1 DEF LogInv, ViewerInv, ShowInv, ChunkInv
<1>6. \E kind \in Kind, i \in Nat : Ask(v, kind, i)
  <2>1. CASE LoadLog(v)
    BY <2>1 DEF LoadLog, Kind
  <2>2. CASE PollLogChunks(v)
    <3>1. cursor[v] \in Nat
      BY <1>5
    <3> QED
      BY <2>2, <3>1 DEF PollLogChunks, Kind
  <2> QED
    BY <2>1, <2>2
<1>7. PICK kind \in Kind : \E i \in Nat : Ask(v, kind, i)
  BY <1>6
<1>8. PICK i \in Nat : Ask(v, kind, i)
  BY <1>7
<1> DEFINE e == [n |-> lists[v] + 1, kind |-> kind, after |-> i]
<1>9. /\ lists[v] < ViewBound /\ lists' = [lists EXCEPT ![v] = @ + 1]
      /\ asked' = [asked EXCEPT ![v] = @ \cup {e}]
  BY <1>8 DEF Ask
<1>10. lists' \in [Viewer -> 0..ViewBound] /\ lists'[v] = lists[v] + 1 /\ lists[v] \in Nat
  <2>1. lists[v] + 1 \in 0..ViewBound
    BY <1>5, <1>9
  <2> QED
    BY <1>5, <1>9, <2>1
<1>11. IsRequest(e, lists[v] + 1)
  BY <1>10 DEF IsRequest
<1> HIDE DEF e
<1>12. ViewerInv'
  BY <1>1, <1>10 DEF LogInv, ViewerInv
<1>13. /\ cursor' \in [Viewer -> 0..k] /\ shown' = [x \in Viewer |-> shown'[x]]
       /\ \A x \in Viewer : shown'[x] \in Seq(0..k) /\ Resumes(shown'[x], cursor'[x])
  <2>1. CASE LoadLog(v)
    <3>1. cursor' = [cursor EXCEPT ![v] = 0] /\ (shown' = shown \/ shown' = [shown EXCEPT ![v] = <<>>])
      BY <2>1 DEF LoadLog
    <3>2. 0 \in 0..k /\ <<>> \in Seq(0..k)
      BY <1>5
    <3>3. cursor' \in [Viewer -> 0..k] /\ cursor'[v] = 0
      BY <1>5, <3>1, <3>2
    <3> QED
      BY <1>5, <3>1, <3>2, <3>3 DEF Resumes
  <2>2. CASE PollLogChunks(v)
    BY <1>5, <2>2 DEF PollLogChunks
  <2> QED
    BY <2>1, <2>2
<1>14. ASSUME NEW x \in Viewer
       PROVE  /\ \A r \in asked'[x] : IsRequest(r, lists'[x])
              /\ \A a \in answers[x] : IsAnswer(a, k, lists'[x])
  <2>0. /\ \A r \in asked[x] : IsRequest(r, lists[x])
        /\ \A a \in answers[x] : IsAnswer(a, k, lists[x])
    BY DEF LogInv, ShowInv
  <2>1. CASE x # v
    BY <1>5, <1>9, <2>0, <2>1
  <2>2. CASE x = v
    <3>1. asked'[x] = asked[v] \cup {e} /\ lists'[x] = lists[v] + 1
      BY <1>5, <1>9, <1>10, <2>2
    <3>2. \A a \in answers[x] : IsAnswer(a, k, lists[v] + 1)
      BY <1>5, <1>10, <2>0, <2>2, AnswerStays
    <3>3. ASSUME NEW r \in asked[v] PROVE IsRequest(r, lists[v] + 1)
      <4>1. r \in [n : Nat, kind : Kind, after : Nat] /\ r.n <= lists[v]
        BY <2>0, <2>2 DEF IsRequest
      <4>2. r.n \in Nat
        BY <4>1
      <4> QED
        BY <1>10, <4>1, <4>2 DEF IsRequest
    <3> QED
      BY <1>11, <3>1, <3>2, <3>3
  <2> QED
    BY <2>1, <2>2
<1>15. asked' = [x \in Viewer |-> asked'[x]]
  BY <1>5, <1>9
<1>16. ShowInv'
  <2>1. answers' = answers /\ chunkOf' = chunkOf
    BY <1>1
  <2>2. answers' = [x \in Viewer |-> answers'[x]]
    BY <1>5, <2>1
  <2>3. \A x \in Viewer : (\A r \in asked[x] : IsRequest(r, lists[x]))'
    BY <1>14 DEF IsRequest
  <2>4. \A x \in Viewer : (\A a \in answers[x] : IsAnswer(a, Len(chunkOf), lists[x]))'
    BY <1>14, <2>1 DEF IsAnswer
  <2> QED
    BY <1>13, <1>15, <2>1, <2>2, <2>3, <2>4 DEF ShowInv, Resumes
<1> QED
  BY <1>2, <1>4, <1>12, <1>16 DEF LogInv

(* A request for a list brings it or, when it fails, an empty one.         *)
LEMMA ListedIsList ==
    ASSUME NEW i \in Nat, NEW q, IsList(q, i), NEW r \in Listed(q)
    PROVE  IsList(r, i)
<1>1. r = q \/ (r = <<>> /\ "list" \in Faults)
  BY DEF Listed
<1> QED
  BY <1>1, NoList

(* The control-plane answers a request.                                    *)
LEMMA ResultsAre ==
    ASSUME LogInv, NEW r, r \in [n : Nat, kind : Kind, after : Nat], NEW q \in Results(r)
    PROVE  /\ q \in Seq(0..Len(chunkOf))
           /\ r.kind = "whole" => q \in {<<Whole>>, <<>>}
           /\ r.kind # "whole" => q \in Seq(1..Len(chunkOf))
<1> DEFINE k == Len(chunkOf)
<1>1. k \in Nat /\ ChunkInv
  BY DEF LogInv, ChunkInv
<1>2. CASE r.kind = "whole"
  <2>1. q \in {<<Whole>>, <<>>}
    BY <1>2 DEF Results
  <2>2. <<Whole>> \in Seq(0..k) /\ <<>> \in Seq(0..k)
    BY <1>1 DEF Whole
  <2> QED
    BY <1>2, <2>1, <2>2
<1>3. CASE r.kind # "whole"
  <2>1. r.after \in Nat /\ 0 \in Nat
    OBVIOUS
  <2>2. IsList(TailLogChunks, 0) /\ IsList(ListLogChunks(r.after), r.after)
    BY <1>1, <2>1, ListIsList, TailIsList
  <2>3. q \in Listed(TailLogChunks) \/ q \in Listed(ListLogChunks(r.after))
    BY <1>3 DEF Results
  <2>4. IsList(q, 0) \/ IsList(q, r.after)
    BY <2>1, <2>2, <2>3, ListedIsList
  <2>5. 0 \in 0..k
    BY <1>1
  <2>6. q \in Seq(1..k)
    BY <1>1, <2>1, <2>4, <2>5, ListFacts
  <2>7. 1..k \subseteq 0..k
    OBVIOUS
  <2>8. q \in Seq(0..k)
    BY <2>6, <2>7, SeqMonotonic
  <2> QED
    BY <1>3, <2>6, <2>8
<1> QED
  BY <1>2, <1>3

LEMMA AnswerStep ==
    ASSUME LogInv, NEW v \in Viewer, NEW r \in asked[v], Answer(v, r)
    PROVE  LogInv'
<1> USE DEF tableVars
<1> DEFINE k == Len(chunkOf)
<1>1. /\ UNCHANGED <<streamVars, tableVars, inbox, socket, after, sent, shown, cursor, lists>>
      /\ asked' = [asked EXCEPT ![v] = @ \ {r}]
  BY DEF Answer
<1>2. StreamInv' /\ ChunkInv' /\ IngestInv'
  BY <1>1, ViewerFrame
<1>3. \A i \in 1..Len(chunkOf) : chunkOf'[i] = chunkOf[i] /\ (Out(i) => Out(i)')
  BY <1>1 DEF Out
<1>4. OrderInv' /\ ViewerInv'
  BY <1>1, <1>3, OrderFrame DEF LogInv, ViewerInv
<1>5. PICK q \in Results(r) :
         answers' = [answers EXCEPT ![v] = @ \cup {[n |-> r.n, kind |-> r.kind, list |-> q]}]
  BY DEF Answer
<1>6. r \in [n : Nat, kind : Kind, after : Nat] /\ r.n <= lists[v]
  BY DEF LogInv, ShowInv, IsRequest
<1>7. r.n \in Nat /\ r.kind \in Kind
  BY <1>6
<1> DEFINE e == [n |-> r.n, kind |-> r.kind, list |-> q]
<1>8. IsAnswer(e, k, lists[v])
  BY <1>5, <1>6, <1>7, ResultsAre DEF IsAnswer
<1> HIDE DEF e
<1>9. /\ answers' = [answers EXCEPT ![v] = @ \cup {e}]
      /\ answers = [x \in Viewer |-> answers[x]] /\ asked = [x \in Viewer |-> asked[x]]
  BY <1>5 DEF e, LogInv, ShowInv
<1>10. ShowInv'
  <2>1. /\ asked' = [x \in Viewer |-> asked'[x]] /\ answers' = [x \in Viewer |-> answers'[x]]
        /\ \A x \in Viewer : asked'[x] \subseteq asked[x]
        /\ \A x \in Viewer : \A a \in answers'[x] : a \in answers[x] \/ (x = v /\ a = e)
    BY <1>1, <1>9
  <2>2. chunkOf' = chunkOf
    BY <1>1
  <2>3. \A x \in Viewer : \A a \in answers'[x] : IsAnswer(a, k, lists[x])
    BY <1>8, <2>1 DEF LogInv, ShowInv
  <2>4. \A x \in Viewer : \A p \in asked'[x] : IsRequest(p, lists[x])
    BY <2>1 DEF LogInv, ShowInv
  <2>5. \A x \in Viewer : (\A a \in answers[x] : IsAnswer(a, Len(chunkOf), lists[x]))'
    BY <1>1, <2>2, <2>3 DEF IsAnswer
  <2>6. \A x \in Viewer : (\A p \in asked[x] : IsRequest(p, lists[x]))'
    BY <1>1, <2>4 DEF IsRequest
  <2> QED
    BY <1>1, <2>1, <2>2, <2>5, <2>6 DEF LogInv, ShowInv, Resumes
<1> QED
  BY <1>2, <1>4, <1>10 DEF LogInv

(* What a viewer shows when answer a arrives, and where it goes on.        *)
Shown(a, q) == IF a.list = <<>> THEN q ELSE IF a.kind = "poll" THEN q \o a.list ELSE a.list

Goes(a, c) == IF a.kind = "whole" THEN c ELSE LastOr(a.list, c)

LEMMA ArriveFacts ==
    ASSUME NEW k \in Nat, NEW n \in Nat, NEW q \in Seq(0..k), NEW c \in 0..k, Resumes(q, c),
           NEW a, IsAnswer(a, k, n)
    PROVE  /\ Shown(a, q) \in Seq(0..k) /\ Goes(a, c) \in 0..k
           /\ Resumes(Shown(a, q), Goes(a, c))
<1>1. PICK l : l = a.list
  OBVIOUS
<1>2. CASE l = <<>>
  BY <1>1, <1>2 DEF Shown, Goes, LastOr
<1>3. CASE l # <<>> /\ a.kind = "whole"
  <2>1. l = <<Whole>> /\ <<Whole>> \in Seq(0..k)
    BY <1>1, <1>3 DEF IsAnswer
  <2>2. Last(<<Whole>>) = Whole /\ <<Whole>> # <<>>
    BY DEF Last
  <2>3. Shown(a, q) = <<Whole>> /\ Goes(a, c) = c
    BY <1>1, <1>3, <2>1 DEF Shown, Goes
  <2> QED
    BY <2>1, <2>2, <2>3 DEF Resumes
<1>4. CASE l # <<>> /\ a.kind # "whole"
  <2>1. l \in Seq(1..k) /\ l \in Seq(0..k)
    BY <1>1, <1>4 DEF IsAnswer
  <2>2. Goes(a, c) = LastOr(l, c)
    BY <1>1, <1>4 DEF Goes
  <2>3. q \o l \in Seq(0..k) /\ LastOr(l, c) \in 0..k /\ Resumes(q \o l, LastOr(l, c))
    BY <2>1, AppendResumes
  <2>4. Resumes(l, LastOr(l, c))
    BY <1>4 DEF Resumes, LastOr
  <2>5. Shown(a, q) = q \o l \/ Shown(a, q) = l
    BY <1>1, <1>4 DEF Shown
  <2> QED
    BY <2>1, <2>2, <2>3, <2>4, <2>5
<1> QED
  BY <1>2, <1>3, <1>4

LEMMA ArriveStep ==
    ASSUME LogInv, NEW v \in Viewer, NEW a \in answers[v], Arrive(v, a)
    PROVE  LogInv'
<1> USE DEF tableVars
<1> DEFINE k == Len(chunkOf)
           q == Shown(a, shown[v])
           c == Goes(a, cursor[v])
           e == [n |-> a.n, kind |-> "whole", after |-> 0]
<1>1. /\ UNCHANGED <<streamVars, tableVars, inbox, sent, lists>>
      /\ answers' = [answers EXCEPT ![v] = @ \ {a}]
      /\ shown' = [shown EXCEPT ![v] = q]
      /\ cursor' = [cursor EXCEPT ![v] = c]
      /\ asked' = [asked EXCEPT ![v] = asked'[v]]
      /\ \A r \in asked'[v] : r \in asked[v] \/ r = e
      /\ \/ UNCHANGED <<socket, after>>
         \/ /\ socket[v] = "off"
            /\ socket' = [socket EXCEPT ![v] = "opening"]
            /\ after' = [after EXCEPT ![v] = cursor'[v]]
  <2>1. asked = [x \in Viewer |-> asked[x]]
    BY DEF LogInv, ShowInv
  <2>2. asked' = [asked EXCEPT ![v] = @ \cup
                     {r \in {e} : a.kind = "load" /\ a.list = <<>>}]
    BY DEF Arrive
  <2>3. asked' = [asked EXCEPT ![v] = asked'[v]] /\ \A r \in asked'[v] : r \in asked[v] \/ r = e
    BY <2>1, <2>2
  <2>4. shown' = [shown EXCEPT ![v] = q] /\ cursor' = [cursor EXCEPT ![v] = c]
    BY DEF Arrive, Shown, Goes
  <2> QED
    BY <2>3, <2>4 DEF Arrive
<1>2. StreamInv' /\ ChunkInv' /\ IngestInv'
  BY <1>1, ViewerFrame
<1>3. /\ k \in Nat /\ lists[v] \in Nat /\ IsAnswer(a, k, lists[v]) /\ chunkOf' = chunkOf
      /\ shown[v] \in Seq(0..k) /\ cursor[v] \in 0..k /\ Resumes(shown[v], cursor[v])
  BY <1>1 DEF LogInv, ShowInv, ChunkInv, ViewerInv
<1>4. q \in Seq(0..k) /\ c \in 0..k /\ Resumes(q, c)
  BY <1>3, ArriveFacts
<1>5. IsRequest(e, lists[v])
  BY <1>3 DEF IsRequest, IsAnswer, Kind
<1> HIDE DEF q, c, e
<1>6. ShowInv'
  <2>1. /\ cursor \in [Viewer -> 0..k] /\ shown = [x \in Viewer |-> shown[x]]
        /\ asked = [x \in Viewer |-> asked[x]] /\ answers = [x \in Viewer |-> answers[x]]
    BY DEF LogInv, ShowInv
  <2>2. /\ cursor' \in [Viewer -> 0..k] /\ shown' = [x \in Viewer |-> shown'[x]]
        /\ cursor'[v] = c /\ shown'[v] = q
        /\ \A x \in Viewer \ {v} : cursor'[x] = cursor[x] /\ shown'[x] = shown[x]
    BY <1>1, <1>4, <2>1
  <2>3. \A x \in Viewer : shown'[x] \in Seq(0..k) /\ Resumes(shown'[x], cursor'[x])
    BY <1>4, <2>2 DEF LogInv, ShowInv
  <2>4. /\ asked' = [x \in Viewer |-> asked'[x]] /\ answers' = [x \in Viewer |-> answers'[x]]
        /\ \A x \in Viewer : \A r \in asked'[x] : r \in asked[x] \/ (x = v /\ r = e)
        /\ \A x \in Viewer : answers'[x] \subseteq answers[x]
    BY <1>1, <2>1
  <2>5. /\ \A x \in Viewer : \A r \in asked'[x] : IsRequest(r, lists[x])
        /\ \A x \in Viewer : \A b \in answers'[x] : IsAnswer(b, k, lists[x])
    BY <1>5, <2>4 DEF LogInv, ShowInv
  <2>6. \A x \in Viewer : (\A b \in answers[x] : IsAnswer(b, Len(chunkOf), lists[x]))'
    BY <1>1, <1>3, <2>5 DEF IsAnswer
  <2>7. \A x \in Viewer : (\A r \in asked[x] : IsRequest(r, lists[x]))'
    BY <1>1, <2>5 DEF IsRequest
  <2> QED
    BY <1>1, <1>3, <2>2, <2>3, <2>4, <2>6, <2>7 DEF ShowInv, Resumes
<1>7. ViewerInv' /\ OrderInv'
  <2>1. CASE UNCHANGED <<socket, after>>
    <3>1. \A i \in 1..Len(chunkOf) : chunkOf'[i] = chunkOf[i] /\ (Out(i) => Out(i)')
      BY <1>1 DEF Out
    <3> QED
      BY <1>1, <2>1, <3>1, OrderFrame DEF LogInv, ViewerInv
  <2>2. CASE /\ socket[v] = "off"
             /\ socket' = [socket EXCEPT ![v] = "opening"]
             /\ after' = [after EXCEPT ![v] = cursor'[v]]
    <3>1. cursor'[v] = c
      BY <1>1 DEF LogInv, ShowInv
    <3>2. sent[v] = <<>> /\ inbox[v] = <<>>
      BY <2>2 DEF LogInv, ViewerInv
    <3>3. ViewerInv'
      <4>1. after' \in [Viewer -> 0..k]
        BY <1>4, <2>2, <3>1 DEF LogInv, ViewerInv
      <4>2. /\ socket' \in [Viewer -> {"off", "opening", "listed", "live", "polling"}]
            /\ \A x \in Viewer : socket'[x] \notin {"listed", "live"} => sent[x] = <<>> /\ inbox[x] = <<>>
        BY <2>2, <3>2 DEF LogInv, ViewerInv
      <4> QED
        BY <1>1, <4>1, <4>2 DEF LogInv, ViewerInv
    <3>4. Len(<<>>) = 0
      OBVIOUS
    <3>5. OrderOf(<<>>, <<>>, c)
      BY <3>4 DEF OrderOf
    <3>6. /\ sent'[v] = <<>> /\ inbox'[v] = <<>> /\ after'[v] = c
          /\ \A x \in Viewer \ {v} : sent'[x] = sent[x] /\ inbox'[x] = inbox[x] /\ after'[x] = after[x]
      BY <1>1, <2>2, <3>1, <3>2 DEF LogInv, ViewerInv
    <3>7. OrderInv'
      BY <1>1, <3>5, <3>6, OrderViewer DEF LogInv
    <3> QED
      BY <3>3, <3>7
  <2> QED
    BY <1>1, <2>1, <2>2
<1> QED
  BY <1>2, <1>6, <1>7 DEF LogInv

(* The facts about one viewer that its steps use.                          *)
LEMMA ViewerFacts ==
    ASSUME LogInv, NEW v \in Viewer
    PROVE  /\ Len(chunkOf) \in Nat
           /\ after[v] \in 0..Len(chunkOf) /\ cursor[v] \in 0..Len(chunkOf)
           /\ inbox[v] \in Seq(1..Len(chunkOf)) /\ Len(inbox[v]) <= ChanCap
           /\ sent[v] \in Seq(1..Len(chunkOf)) /\ shown[v] \in Seq(0..Len(chunkOf))
           /\ Resumes(shown[v], cursor[v])
           /\ OrderOf(sent[v], inbox[v], after[v])
BY DEF LogInv, ChunkInv, ViewerInv, OrderInv, ShowInv

(* The backlog of a websocket, from the chunk the viewer named.            *)
LEMMA BacklogFacts ==
    ASSUME LogInv, NEW v \in Viewer, OpenStream(v)
    PROVE  \E q : /\ IsList(q, after[v])
                  /\ after' = [after EXCEPT ![v] = LastOr(q, @)]
                  /\ sent' = [sent EXCEPT ![v] = q]
                  /\ shown' = [shown EXCEPT ![v] = @ \o q]
                  /\ cursor' = [cursor EXCEPT ![v] = LastOr(q, @)]
<1>1. after[v] \in Nat /\ ChunkInv
  BY ViewerFacts DEF LogInv
<1>2. PICK q \in Listed(ListLogChunks(after[v])) :
         /\ after' = [after EXCEPT ![v] = LastOr(q, @)]
         /\ sent' = [sent EXCEPT ![v] = q]
         /\ shown' = [shown EXCEPT ![v] = @ \o q]
         /\ cursor' = [cursor EXCEPT ![v] = LastOr(q, @)]
  BY DEF OpenStream
<1>3. IsList(q, after[v])
  BY <1>1, <1>2, ListIsList, ListedIsList
<1> QED
  BY <1>2, <1>3

LEMMA OpenStreamStep ==
    ASSUME LogInv, NEW v \in Viewer, OpenStream(v)
    PROVE  LogInv'
<1> USE LogStreamAssumption DEF tableVars
<1> DEFINE k == Len(chunkOf)
<1>1. /\ UNCHANGED <<streamVars, tableVars, inbox, asked, answers, lists>>
      /\ socket[v] = "opening" /\ socket' = [socket EXCEPT ![v] = "listed"]
  BY DEF OpenStream
<1>2. StreamInv' /\ ChunkInv' /\ IngestInv'
  BY <1>1, ViewerFrame
<1>3. PICK q : /\ IsList(q, after[v])
               /\ after' = [after EXCEPT ![v] = LastOr(q, @)]
               /\ sent' = [sent EXCEPT ![v] = q]
               /\ shown' = [shown EXCEPT ![v] = @ \o q]
               /\ cursor' = [cursor EXCEPT ![v] = LastOr(q, @)]
  BY BacklogFacts
<1>4. /\ k \in Nat /\ after[v] \in 0..k /\ after[v] \in Nat
      /\ cursor[v] \in 0..k /\ shown[v] \in Seq(0..k) /\ Resumes(shown[v], cursor[v])
      /\ OrderOf(sent[v], inbox[v], after[v])
  BY ViewerFacts
<1>5. PICK a : a = LastOr(q, after[v])
  OBVIOUS
<1>6. /\ q \in Seq(1..k) /\ Increasing(q) /\ a \in 0..k
      /\ \A n \in 1..Len(q) : q[n] <= a
  BY <1>3, <1>4, <1>5, ListFacts DEF LogInv
<1>6a. ShowInv'
  <2>1. PICK s : s = shown[v] \o q
    OBVIOUS
  <2>2. PICK c : c = LastOr(q, cursor[v])
    OBVIOUS
  <2>3. s \in Seq(0..k) /\ c \in 0..k /\ Resumes(s, c)
    BY <1>4, <1>6, <2>1, <2>2, AppendResumes
  <2> QED
    BY <1>1, <1>3, <2>1, <2>2, <2>3, ShowViewer DEF LogInv
<1>7. ViewerInv'
  <2>2. /\ after \in [Viewer -> 0..k]
        /\ socket \in [Viewer -> {"off", "opening", "listed", "live", "polling"}]
        /\ sent = [x \in Viewer |-> sent[x]]
        /\ \A x \in Viewer : sent[x] \in Seq(1..k)
    BY DEF LogInv, ViewerInv
  <2>4. /\ socket' \in [Viewer -> {"off", "opening", "listed", "live", "polling"}]
        /\ socket'[v] = "listed" /\ \A x \in Viewer \ {v} : socket'[x] = socket[x]
    BY <1>1, <2>2
  <2>5. after' \in [Viewer -> 0..k]
    BY <1>3, <1>5, <1>6, <2>2
  <2>6. /\ sent' = [x \in Viewer |-> sent'[x]]
        /\ \A x \in Viewer : sent'[x] \in Seq(1..k)
        /\ \A x \in Viewer \ {v} : sent'[x] = sent[x]
    BY <1>3, <1>6, <2>2
  <2> QED
    BY <1>1, <2>4, <2>5, <2>6 DEF LogInv, ViewerInv
<1>8. OrderInv'
  <2>1. OrderOf(q, inbox[v], a)
    <3>1. \A n \in 1..Len(q) : q[n] \in Int
      BY <1>6
    <3>2. \A m \in 1..Len(q) : ~(q[m] > a)
      BY <1>6, <3>1
    <3> QED
      BY <1>4, <1>6, <3>2 DEF OrderOf, Increasing
  <2>2. sent'[v] = q /\ inbox'[v] = inbox[v] /\ after'[v] = a
    BY <1>1, <1>3, <1>5 DEF LogInv, ViewerInv
  <2>3. \A x \in Viewer \ {v} : sent'[x] = sent[x] /\ inbox'[x] = inbox[x] /\ after'[x] = after[x]
    BY <1>1, <1>3 DEF LogInv, ViewerInv
  <2> QED
    BY <1>1, <2>1, <2>2, <2>3, OrderViewer DEF LogInv
<1> QED
  BY <1>2, <1>6a, <1>7, <1>8 DEF LogInv

LEMMA ConnectionStep ==
    ASSUME LogInv, NEW v \in Viewer, Subscribe(v) \/ Disconnect(v)
    PROVE  LogInv'
<1> USE LogStreamAssumption DEF tableVars
<1> DEFINE k == Len(chunkOf)
<1>1. /\ UNCHANGED <<streamVars, tableVars, after, shown, cursor, asked, answers, lists>>
      /\ inbox' = [inbox EXCEPT ![v] = <<>>]
      /\ \/ sent' = sent /\ socket' = [socket EXCEPT ![v] = "live"]
         \/ /\ sent' = [sent EXCEPT ![v] = <<>>]
            /\ \E x \in {"off", "polling"} : socket' = [socket EXCEPT ![v] = x]
  BY DEF Subscribe, Disconnect
<1>2. StreamInv' /\ ChunkInv' /\ IngestInv' /\ ShowInv'
  BY <1>1, ViewerFrame, ShowFrame DEF LogInv
<1>3. <<>> \in Seq(1..k) /\ Len(<<>>) = 0 /\ Len(<<>>) <= ChanCap
  OBVIOUS
<1>4. ViewerInv'
  <2>1. /\ socket \in [Viewer -> {"off", "opening", "listed", "live", "polling"}]
        /\ inbox = [x \in Viewer |-> inbox[x]] /\ sent = [x \in Viewer |-> sent[x]]
        /\ \A x \in Viewer : /\ inbox[x] \in Seq(1..k) /\ Len(inbox[x]) <= ChanCap
                             /\ sent[x] \in Seq(1..k)
                             /\ socket[x] \notin {"listed", "live"} => sent[x] = <<>> /\ inbox[x] = <<>>
    BY DEF LogInv, ViewerInv
  <2>2. /\ socket' \in [Viewer -> {"off", "opening", "listed", "live", "polling"}]
        /\ \A x \in Viewer : socket'[x] \notin {"listed", "live"} => sent'[x] = <<>> /\ inbox'[x] = <<>>
    BY <1>1, <2>1
  <2>3. /\ inbox' = [x \in Viewer |-> inbox'[x]]
        /\ \A x \in Viewer : inbox'[x] \in Seq(1..k) /\ Len(inbox'[x]) <= ChanCap
    BY <1>1, <1>3, <2>1
  <2>4. sent' = [x \in Viewer |-> sent'[x]] /\ \A x \in Viewer : sent'[x] \in Seq(1..k)
    BY <1>1, <1>3, <2>1
  <2> QED
    BY <1>1, <2>2, <2>3, <2>4 DEF LogInv, ViewerInv
<1>5. OrderInv'
  <2>1. OrderOf(sent[v], inbox[v], after[v])
    BY ViewerFacts
  <2>2. OrderOf(sent[v], <<>>, after[v]) /\ OrderOf(<<>>, <<>>, after[v])
    BY <1>3, <2>1 DEF OrderOf
  <2>3. /\ inbox'[v] = <<>> /\ after'[v] = after[v]
        /\ sent'[v] = sent[v] \/ sent'[v] = <<>>
    BY <1>1 DEF LogInv, ViewerInv
  <2>4. \A x \in Viewer \ {v} : sent'[x] = sent[x] /\ inbox'[x] = inbox[x] /\ after'[x] = after[x]
    BY <1>1 DEF LogInv, ViewerInv
  <2> QED
    BY <1>1, <2>2, <2>3, <2>4, OrderViewer DEF LogInv
<1> QED
  BY <1>2, <1>4, <1>5 DEF LogInv

(* A chunk from the channel is skipped, because the list had it, or it is
   newer than what was sent of its run.                                    *)
LEMMA DeliverStep ==
    ASSUME LogInv, NEW v \in Viewer, Deliver(v)
    PROVE  LogInv'
<1> USE LogStreamAssumption DEF tableVars
<1> DEFINE k == Len(chunkOf)
<1>1. /\ UNCHANGED <<streamVars, tableVars, socket, after, asked, answers, lists>>
      /\ inbox[v] # <<>> /\ socket[v] = "live"
      /\ inbox' = [inbox EXCEPT ![v] = Tail(inbox[v])]
  BY DEF Deliver
<1>2. StreamInv' /\ ChunkInv' /\ IngestInv'
  BY <1>1, ViewerFrame
<1>3. /\ k \in Nat /\ after[v] \in 0..k /\ cursor[v] \in 0..k
      /\ inbox[v] \in Seq(1..k) /\ Len(inbox[v]) <= ChanCap
      /\ sent[v] \in Seq(1..k) /\ shown[v] \in Seq(0..k) /\ Resumes(shown[v], cursor[v])
      /\ OrderOf(sent[v], inbox[v], after[v])
  BY ViewerFacts
<1>4. PICK q, r, a, i, z : /\ q = sent[v] /\ r = inbox[v] /\ a = after[v]
                           /\ i = Head(inbox[v]) /\ z = Tail(inbox[v])
  OBVIOUS
<1>5. /\ i = r[1] /\ i \in 1..k /\ z \in Seq(1..k) /\ Len(z) = Len(r) - 1
      /\ Len(r) \in Nat \ {0} /\ 1 \in 1..Len(r)
      /\ \A n \in 1..Len(z) : n + 1 \in 1..Len(r) /\ z[n] = r[n + 1]
  <2>1. r \in Seq(1..k) /\ r # <<>> /\ i = Head(r) /\ z = Tail(r)
    BY <1>1, <1>3, <1>4
  <2>2. i = r[1] /\ z \in Seq(1..k) /\ Len(z) = Len(r) - 1
        /\ \A n \in 1..Len(z) : z[n] = r[n + 1]
    BY <2>1, HeadTailProperties
  <2>3. Len(r) \in Nat \ {0}
    BY <2>1, EmptySeq
  <2>4. 1 \in 1..Len(r) /\ \A n \in 1..Len(z) : n + 1 \in 1..Len(r)
    BY <2>2, <2>3
  <2> QED
    BY <2>1, <2>2, <2>3, <2>4
<1>6. /\ inbox' = [inbox EXCEPT ![v] = z]
      /\ \/ /\ i > a
            /\ sent' = [sent EXCEPT ![v] = Append(q, i)]
            /\ shown' = [shown EXCEPT ![v] = Append(@, i)]
            /\ cursor' = [cursor EXCEPT ![v] = i]
         \/ UNCHANGED <<sent, shown, cursor>>
  BY <1>1, <1>4 DEF Deliver, IsNew
<1>7. Append(q, i) \in Seq(1..k)
  BY <1>3, <1>4, <1>5, AppendProperties
<1>7a. ShowInv'
  <2>1. CASE UNCHANGED <<sent, shown, cursor>>
    BY <1>1, <2>1, ShowFrame DEF LogInv
  <2>2. CASE /\ shown' = [shown EXCEPT ![v] = Append(@, i)]
             /\ cursor' = [cursor EXCEPT ![v] = i]
    <3> DEFINE y == Append(shown[v], i)
    <3>1. i \in 0..k /\ i # 0
      BY <1>3, <1>5
    <3>2. y \in Seq(0..k) /\ Len(y) = Len(shown[v]) + 1 /\ y[Len(shown[v]) + 1] = i
      BY <1>3, <3>1, AppendProperties
    <3>3. shown' = [shown EXCEPT ![v] = y]
      BY <2>2
    <3> HIDE DEF y
    <3>4. Resumes(y, i)
      <4>1. Len(y) # 0
        BY <1>3, <3>2
      <4> QED
        BY <3>2, <4>1, EmptySeq DEF Resumes, Last
    <3> QED
      BY <1>1, <2>2, <3>1, <3>2, <3>3, <3>4, ShowViewer DEF LogInv
  <2> QED
    BY <1>6, <2>1, <2>2
<1>8. ViewerInv'
  <2>1. /\ inbox = [x \in Viewer |-> inbox[x]] /\ sent = [x \in Viewer |-> sent[x]]
        /\ \A x \in Viewer : /\ inbox[x] \in Seq(1..k) /\ Len(inbox[x]) <= ChanCap
                             /\ sent[x] \in Seq(1..k)
    BY DEF LogInv, ViewerInv
  <2>2. Len(z) <= ChanCap
    BY <1>3, <1>4, <1>5
  <2>3. /\ inbox' = [x \in Viewer |-> inbox'[x]]
        /\ \A x \in Viewer : inbox'[x] \in Seq(1..k) /\ Len(inbox'[x]) <= ChanCap
    BY <1>5, <1>6, <2>1, <2>2
  <2>4. sent' = [x \in Viewer |-> sent'[x]] /\ \A x \in Viewer : sent'[x] \in Seq(1..k)
    BY <1>6, <1>7, <2>1
  <2>5. \A x \in Viewer : socket[x] \notin {"listed", "live"} =>
                              sent'[x] = sent[x] /\ inbox'[x] = inbox[x]
    BY <1>1, <1>6, <2>1
  <2> QED
    BY <1>1, <2>3, <2>4, <2>5 DEF LogInv, ViewerInv
<1>9. OrderInv'
  <2>1. OrderOf(q, r, a) /\ a \in Int /\ i \in Int /\ Len(q) \in Nat
        /\ \A n \in 1..Len(q) : q[n] \in Int
    BY <1>3, <1>4, <1>5
  <2>2. OrderOf(q, z, a)
    <3>1. \A m, n \in 1..Len(z) : m < n => m + 1 \in 1..Len(r) /\ n + 1 \in 1..Len(r) /\ m + 1 < n + 1
      BY <1>5
    <3>2. \A m, n \in 1..Len(z) : m < n /\ SameRun(z[m], z[n]) => z[m] < z[n]
      BY <1>5, <2>1, <3>1 DEF OrderOf
    <3>3. \A n \in 1..Len(z) : Out(z[n])
      BY <1>5, <2>1 DEF OrderOf
    <3>4. \A m \in 1..Len(q), n \in 1..Len(z) : q[m] > a /\ SameRun(q[m], z[n]) => q[m] < z[n]
      BY <1>5, <2>1 DEF OrderOf
    <3> QED
      BY <2>1, <3>2, <3>3, <3>4 DEF OrderOf
  <2>3. ASSUME i > a PROVE OrderOf(Append(q, i), z, a)
    <3> DEFINE y == Append(q, i)
    <3>1. /\ Len(y) = Len(q) + 1 /\ y[Len(q) + 1] = i
          /\ \A n \in 1..Len(q) : y[n] = q[n]
      BY <1>3, <1>4, <1>5, AppendProperties
    <3> HIDE DEF y
    <3>2. \A n \in 1..Len(y) : (n \in 1..Len(q) /\ y[n] = q[n]) \/ (n = Len(q) + 1 /\ y[n] = i)
      <4> SUFFICES ASSUME NEW n \in 1..(Len(q) + 1)
                   PROVE  n \in 1..Len(q) \/ n = Len(q) + 1
        BY <3>1
      <4> QED
        BY <2>1
    <3>3. Out(i)
      BY <1>5, <2>1 DEF OrderOf
    <3>4. ASSUME NEW m \in 1..Len(y), NEW n \in 1..Len(y), m < n, SameRun(y[m], y[n])
          PROVE  y[m] < y[n]
      <4>1. m \in 1..Len(q) /\ y[m] = q[m]
        <5>1. n <= Len(q) + 1 /\ m # Len(q) + 1
          BY <2>1, <3>1, <3>4
        <5> QED
          BY <3>2, <5>1
      <4>2. CASE n \in 1..Len(q) /\ y[n] = q[n]
        BY <2>1, <3>4, <4>1, <4>2 DEF OrderOf
      <4>3. CASE y[n] = i
        <5>1. CASE q[m] > a
          BY <1>5, <2>1, <3>4, <4>1, <4>3, <5>1 DEF OrderOf
        <5>2. CASE ~(q[m] > a)
          BY <2>1, <2>3, <4>1, <4>3, <5>2
        <5> QED
          BY <5>1, <5>2
      <4> QED
        BY <3>2, <4>2, <4>3
    <3>5. \A m \in 1..Len(y) : y[m] <= a \/ Out(y[m])
      BY <2>1, <3>2, <3>3 DEF OrderOf
    <3>6. ASSUME NEW m \in 1..Len(y), NEW n \in 1..Len(z), y[m] > a, SameRun(y[m], z[n])
          PROVE  y[m] < z[n]
      <4>1. CASE m \in 1..Len(q) /\ y[m] = q[m]
        BY <2>2, <3>6, <4>1 DEF OrderOf
      <4>2. CASE y[m] = i
        <5>1. n + 1 \in 1..Len(r) /\ 1 < n + 1 /\ z[n] = r[n + 1]
          BY <1>5
        <5> QED
          BY <1>5, <2>1, <3>6, <4>2, <5>1 DEF OrderOf
      <4> QED
        BY <3>2, <4>1, <4>2
    <3>7. OrderOf(y, z, a)
      BY <2>2, <3>4, <3>5, <3>6 DEF OrderOf
    <3> QED
      BY <3>7 DEF y
  <2>4. /\ inbox'[v] = z /\ after'[v] = a
        /\ sent'[v] = q \/ (sent'[v] = Append(q, i) /\ i > a)
    BY <1>1, <1>4, <1>6 DEF LogInv, ViewerInv
  <2>5. \A x \in Viewer \ {v} : sent'[x] = sent[x] /\ inbox'[x] = inbox[x] /\ after'[x] = after[x]
    BY <1>1, <1>6 DEF LogInv, ViewerInv
  <2> QED
    BY <1>1, <2>2, <2>3, <2>4, <2>5, OrderViewer DEF LogInv
<1> QED
  BY <1>2, <1>7a, <1>8, <1>9 DEF LogInv

-----------------------------------------------------------------------------
(* Every step keeps the invariant.                                         *)
LEMMA LogStepInv == LogInv /\ [Next]_vars => LogInv'
<1> SUFFICES ASSUME LogInv, [Next]_vars PROVE LogInv'
  OBVIOUS
<1>1. ASSUME NEW s \in Stream, Emit(s) \/ CloseBegins(s) \/ IngestStep(s) \/ StreamBreaks(s)
      PROVE  LogInv'
  BY <1>1, WorkerStep, PutBeginsStep, CommitStep, PublishStep DEF IngestStep
<1>2. ASSUME NEW v \in Viewer, ViewerStep(v) PROVE LogInv'
  BY <1>2, AskStep, AnswerStep, ArriveStep, OpenStreamStep, ConnectionStep, DeliverStep DEF ViewerStep
<1>3. CASE UNCHANGED vars
  <2> USE DEF streamVars, tableVars, viewerVars
  <2>1. UNCHANGED <<streamVars, tableVars, inbox, viewerVars>>
    BY <1>3 DEF vars
  <2>2. StreamInv' /\ ChunkInv' /\ IngestInv'
    BY <2>1, ViewerFrame
  <2>3. ViewerInv' /\ ShowInv'
    BY <2>1, ShowFrame DEF LogInv, ViewerInv
  <2>4. \A i \in 1..Len(chunkOf) : chunkOf'[i] = chunkOf[i] /\ (Out(i) => Out(i)')
    BY <2>1 DEF Out
  <2>5. OrderInv'
    BY <2>1, <2>4, OrderFrame DEF LogInv
  <2> QED
    BY <2>2, <2>3, <2>5 DEF LogInv
<1> QED
  BY <1>1, <1>2, <1>3 DEF Next

LEMMA LogInvGives == LogInv => TypeOK /\ RunInOrder /\ ResumesWhereShown
<1> SUFFICES ASSUME LogInv PROVE TypeOK /\ RunInOrder /\ ResumesWhereShown
  OBVIOUS
<1>1. DOMAIN chunkOf = 1..Len(chunkOf)
  BY DEF LogInv, ChunkInv
<1>2. TypeOK
  <2>1. Len(chunkOf) \in Nat
    BY DEF LogInv, ChunkInv
  <2>2. \A v \in Viewer : shown[v] \in Seq(DOMAIN chunkOf \cup {Whole})
    <3>1. 0..Len(chunkOf) \subseteq DOMAIN chunkOf \cup {Whole}
      BY <1>1, <2>1 DEF Whole
    <3> QED
      BY <3>1, SeqMonotonic DEF LogInv, ShowInv
  <2>3. \A v \in Viewer : /\ \A r \in asked[v] : r.kind \in Kind /\ r.n <= lists[v]
                          /\ \A a \in answers[v] : a.kind \in Kind /\ a.n <= lists[v]
    BY DEF LogInv, ShowInv, IsRequest, IsAnswer
  <2>4. cursor \in [Viewer -> 0..Len(chunkOf)]
    BY DEF LogInv, ShowInv
  <2> QED
    BY <1>1, <2>2, <2>3, <2>4 DEF TypeOK, LogInv, StreamInv, ChunkInv, IngestInv, ViewerInv
<1>3. RunInOrder
  <2> SUFFICES ASSUME NEW v \in Viewer, NEW m \in DOMAIN sent[v], NEW n \in DOMAIN sent[v],
                      m < n, chunkOf[sent[v][m]][1] = chunkOf[sent[v][n]][1]
               PROVE  chunkOf[sent[v][m]][2] < chunkOf[sent[v][n]][2]
    BY DEF RunInOrder
  <2>1. sent[v] \in Seq(1..Len(chunkOf)) /\ OrderOf(sent[v], inbox[v], after[v])
    BY ViewerFacts
  <2>2. /\ m \in 1..Len(sent[v]) /\ n \in 1..Len(sent[v])
        /\ sent[v][m] \in 1..Len(chunkOf) /\ sent[v][n] \in 1..Len(chunkOf)
    BY <2>1
  <2>3. sent[v][m] < sent[v][n]
    BY <2>1, <2>2 DEF OrderOf, SameRun
  <2> QED
    BY <2>2, <2>3 DEF LogInv, ChunkInv
<1>4. ResumesWhereShown
  BY DEF ResumesWhereShown, LogInv, ShowInv, Resumes
<1> QED
  BY <1>2, <1>3, <1>4

(* Runs, table, hub and viewers keep their types in every behaviour: every
   id in a channel, on a socket or on a screen was drawn by the table.     *)
THEOREM LogTypeCorrect == Spec => []TypeOK
<1>1. Init => LogInv
  BY LogInitInv
<1>2. LogInv /\ [Next]_vars => LogInv'
  BY LogStepInv
<1>3. LogInv => TypeOK
  BY LogInvGives
<1> QED
  BY <1>1, <1>2, <1>3, PTL DEF Spec

(* A websocket sends the lines of a run in the order in which they were
   written and none twice, with any number of runs at a time and whatever
   is dropped, fails or overlaps on the way.                               *)
THEOREM RunsAreInOrder == Spec => []RunInOrder
<1>1. Init => LogInv
  BY LogInitInv
<1>2. LogInv /\ [Next]_vars => LogInv'
  BY LogStepInv
<1>3. LogInv => RunInOrder
  BY LogInvGives
<1> QED
  BY <1>1, <1>2, <1>3, PTL DEF Spec

(* A viewer polls and reconnects from the last chunk it shows, or has the
   whole log in its place, with any number of loads, polls and live chunks
   under way and in whatever order they arrive: nothing is skipped between
   what is shown and what is asked for.                                    *)
THEOREM ViewerResumes == Spec => []ResumesWhereShown
<1>1. Init => LogInv
  BY LogInitInv
<1>2. LogInv /\ [Next]_vars => LogInv'
  BY LogStepInv
<1>3. LogInv => ResumesWhereShown
  BY LogInvGives
<1> QED
  BY <1>1, <1>2, <1>3, PTL DEF Spec

-----------------------------------------------------------------------------
(* The size of the table.                                                  *)

LEMMA StoredIsFinite ==
    ASSUME LogInv
    PROVE  /\ stored \in SUBSET (1..Len(chunkOf)) /\ Len(chunkOf) \in Nat
           /\ IsFiniteSet(stored) /\ Cardinality(stored) \in Nat
<1>1. stored \in SUBSET (1..Len(chunkOf)) /\ Len(chunkOf) \in Nat
  BY DEF LogInv, ChunkInv
<1> QED
  BY <1>1, Rank

LEMMA AddedIsFinite ==
    ASSUME IsFiniteSet(Stream), NEW A \in SUBSET (Stream \X (1..TrimEvery))
    PROVE  /\ IsFiniteSet(A) /\ Cardinality(A) \in Nat
           /\ Cardinality(A) <= TrimEvery * Cardinality(Stream)
<1>1. IsFiniteSet(1..TrimEvery) /\ Cardinality(1..TrimEvery) = TrimEvery
  BY LogStreamAssumption, FS_Interval
<1>2. /\ IsFiniteSet(Stream \X (1..TrimEvery))
      /\ Cardinality(Stream \X (1..TrimEvery)) = Cardinality(Stream) * TrimEvery
  BY <1>1, FS_Product
<1>3. IsFiniteSet(A) /\ Cardinality(A) <= Cardinality(Stream) * TrimEvery
  BY <1>2, FS_Subset
<1>4. Cardinality(A) \in Nat /\ Cardinality(Stream) \in Nat /\ TrimEvery \in Nat
  BY <1>3, LogStreamAssumption, FS_CardinalityType
<1>5. \A c, e \in Nat : c * e = e * c
  OBVIOUS
<1> QED
  BY <1>3, <1>4, <1>5

(* Rows may go, and what the runs may add before they trim may grow.       *)
LEMMA TableKept ==
    ASSUME LogInv, TableInv, IsFiniteSet(Stream), stored' = stored, Added \subseteq Added'
    PROVE  TableInv'
<1>1. Added' \in SUBSET (Stream \X (1..TrimEvery))
  BY DEF Added
<1>2. IsFiniteSet(Added') /\ Cardinality(Added') \in Nat
  BY <1>1, AddedIsFinite
<1>3. Cardinality(Added) <= Cardinality(Added') /\ IsFiniteSet(Added)
  BY <1>2, FS_Subset
<1>4. IsFiniteSet(stored) /\ Cardinality(stored) \in Nat /\ Cardinality(Added) \in Nat
  BY <1>3, StoredIsFinite, FS_CardinalityType
<1> QED
  BY <1>2, <1>3, <1>4, LogStreamAssumption DEF TableInv

(* A row that a run adds counts among those it may add.                    *)
LEMMA TableGrows ==
    ASSUME LogInv, TableInv, IsFiniteSet(Stream), NEW i, stored' = stored \cup {i},
           Added \subseteq Added', NEW x \in Added', x \notin Added
    PROVE  TableInv'
<1>1. Added' \in SUBSET (Stream \X (1..TrimEvery))
  BY DEF Added
<1>2. IsFiniteSet(Added') /\ Cardinality(Added') \in Nat
  BY <1>1, AddedIsFinite
<1>3. /\ IsFiniteSet(Added' \ {x}) /\ Cardinality(Added' \ {x}) = Cardinality(Added') - 1
  BY <1>2, FS_RemoveElement
<1>4. Added \in SUBSET (Added' \ {x})
  OBVIOUS
<1>5. Cardinality(Added) <= Cardinality(Added') - 1 /\ IsFiniteSet(Added)
  BY <1>3, <1>4, FS_Subset
<1>6. IsFiniteSet(stored) /\ Cardinality(stored) \in Nat /\ Cardinality(Added) \in Nat
  BY <1>5, StoredIsFinite, FS_CardinalityType
<1>7. Cardinality(stored') \in {Cardinality(stored), Cardinality(stored) + 1}
  BY <1>6, FS_AddElement
<1> QED
  BY <1>2, <1>5, <1>6, <1>7, LogStreamAssumption DEF TableInv

(* The ingesting handler's step and counter.                               *)
LEMMA IngestFacts ==
    ASSUME LogInv, NEW s \in Stream
    PROVE  /\ ingest = [x \in Stream |-> ingest[x]]
           /\ ingest[s] = [step |-> ingest[s].step, id |-> ingest[s].id, count |-> ingest[s].count]
           /\ ingest[s].step \in Step /\ ingest[s].count \in 0..(TrimEvery - 1)
           /\ ingest[s].id \in 0..Len(chunkOf)
           /\ TrimEvery \in Nat \ {0}
BY LogStreamAssumption DEF LogInv, IngestInv

LEMMA AddedGrows ==
    ASSUME LogInv, NEW s \in Stream,
           \A x \in Stream \ {s} : ingest'[x] = ingest[x],
           \/ ingest'[s].step \in {"trim", "last", "ended"}
           \/ /\ ingest[s].step \notin {"trim", "last", "ended"}
              /\ ingest[s].count <= ingest'[s].count /\ ingest'[s].count \in Int
    PROVE  Added \subseteq Added'
<1> SUFFICES ASSUME NEW x \in Added PROVE x \in Added'
  OBVIOUS
<1>1. /\ x \in Stream \X (1..TrimEvery) /\ x[1] \in Stream /\ x[2] \in Int
      /\ ingest[x[1]].step \in {"trim", "last", "ended"} \/ x[2] <= ingest[x[1]].count
  BY DEF Added
<1>2. CASE x[1] # s
  BY <1>1, <1>2 DEF Added
<1>3. CASE x[1] = s
  <2>1. ingest[s].count \in Int
    <3>1. ingest[s].count \in 0..(TrimEvery - 1)
      BY IngestFacts
    <3> QED
      BY <3>1
  <2> QED
    BY <1>1, <1>3, <2>1 DEF Added
<1> QED
  BY <1>2, <1>3

LEMMA TableStepInv ==
    ASSUME IsFiniteSet(Stream), "trim" \notin Faults
    PROVE  LogInv /\ TableInv /\ [Next]_vars => TableInv'
<1> SUFFICES ASSUME LogInv, TableInv, [Next]_vars PROVE TableInv'
  OBVIOUS
<1>1. ASSUME NEW s \in Stream, PutCommits(s) \/ (StreamBreaks(s) /\ stored' # stored)
      PROVE  TableInv'
  <2> DEFINE n == ingest[s].count + 1
             x == <<s, n>>
  <2>0. /\ ingest = [y \in Stream |-> ingest[y]]
        /\ ingest[s] = [step |-> ingest[s].step, id |-> ingest[s].id, count |-> ingest[s].count]
        /\ ingest[s].count \in 0..(TrimEvery - 1) /\ TrimEvery \in Nat \ {0}
    BY IngestFacts
  <2>1. ingest[s].step = "put" /\ stored' = stored \cup {ingest[s].id}
    BY <1>1 DEF PutCommits, StreamBreaks
  <2>2. \A y \in Stream \ {s} : ingest'[y] = ingest[y]
    BY <1>1, <2>0 DEF PutCommits, StreamBreaks
  <2>3. \/ ingest'[s].step \in {"trim", "last", "ended"}
        \/ ingest'[s].count = n
    <3>1. CASE PutCommits(s)
      BY <2>0, <3>1 DEF PutCommits
    <3>2. CASE StreamBreaks(s)
      BY <2>0, <2>1, <3>2 DEF StreamBreaks
    <3> QED
      BY <1>1, <3>1, <3>2
  <2>4. n \in 1..TrimEvery /\ n \in Int /\ ingest[s].count <= n /\ ~(n <= ingest[s].count)
    BY <2>0
  <2>5. x \in Stream \X (1..TrimEvery) /\ x[1] = s /\ x[2] = n
    BY <2>4
  <2> HIDE DEF n, x
  <2>6. x \notin Added
    BY <2>1, <2>4, <2>5 DEF Added
  <2>7. x \in Added'
    <3>1. n <= n
      BY <2>4
    <3> QED
      BY <2>3, <2>5, <3>1 DEF Added
  <2>8. Added \subseteq Added'
    BY <2>1, <2>2, <2>3, <2>4, AddedGrows
  <2> QED
    BY <2>1, <2>6, <2>7, <2>8, TableGrows
<1>2. ASSUME NEW s \in Stream, TrimLogChunks(s) PROVE TableInv'
  <2>1. stored' = Kept(stored)
    BY <1>2 DEF TrimLogChunks
  <2>2. Cardinality(stored') <= LogChunkMax + 1 /\ stored' \subseteq stored
    BY <2>1, StoredIsFinite, KeptIsBounded
  <2>3. IsFiniteSet(stored') /\ Cardinality(stored') \in Nat
    BY <2>2, StoredIsFinite, FS_Subset, FS_CardinalityType
  <2>4. Added' \in SUBSET (Stream \X (1..TrimEvery))
    BY DEF Added
  <2>5. Cardinality(Added') \in Nat
    BY <2>4, AddedIsFinite
  <2> QED
    BY <2>2, <2>3, <2>5, LogStreamAssumption DEF TableInv
<1>3. ASSUME NEW s \in Stream,
             PutBegins(s) \/ Publish(s) \/ StreamEnds(s) \/ (StreamBreaks(s) /\ stored' = stored)
      PROVE  TableInv'
  <2>0. /\ ingest = [y \in Stream |-> ingest[y]]
        /\ ingest[s] = [step |-> ingest[s].step, id |-> ingest[s].id, count |-> ingest[s].count]
        /\ ingest[s].count \in 0..(TrimEvery - 1) /\ ingest[s].count \in Int
        /\ ingest[s].count <= ingest[s].count
    BY IngestFacts
  <2>1. stored' = stored
    BY <1>3 DEF PutBegins, Publish, StreamEnds
  <2>2. \A y \in Stream \ {s} : ingest'[y] = ingest[y]
    BY <1>3, <2>0 DEF PutBegins, Publish, StreamEnds, StreamBreaks
  <2>3. \/ ingest'[s].step \in {"trim", "last", "ended"}
        \/ /\ ingest[s].step \notin {"trim", "last", "ended"}
           /\ ingest'[s].count = ingest[s].count
    <3>1. CASE PutBegins(s)
      BY <2>0, <3>1 DEF PutBegins
    <3>2. CASE Publish(s)
      BY <2>0, <3>2 DEF Publish
    <3>3. CASE StreamEnds(s)
      BY <2>0, <3>3 DEF StreamEnds
    <3>4. CASE StreamBreaks(s)
      BY <2>0, <3>4 DEF StreamBreaks
    <3> QED
      BY <1>3, <3>1, <3>2, <3>3, <3>4
  <2>4. Added \subseteq Added'
    BY <2>0, <2>2, <2>3, AddedGrows
  <2> QED
    BY <2>1, <2>4, TableKept
<1>4. ASSUME UNCHANGED <<ingest, stored>> PROVE TableInv'
  <2>1. Added' = Added
    BY <1>4 DEF Added
  <2> QED
    BY <1>4, <2>1, TableKept
<1>5. ASSUME NEW s \in Stream, Emit(s) \/ CloseBegins(s) \/ CloseReturns(s)
      PROVE  UNCHANGED <<ingest, stored>>
  BY <1>5 DEF Emit, CloseBegins, CloseReturns, tableVars
<1>6. ASSUME NEW v \in Viewer, ViewerStep(v)
      PROVE  UNCHANGED <<ingest, stored>>
  BY <1>6 DEF ViewerStep, LoadLog, PollLogChunks, OpenStream, Subscribe, Deliver, Disconnect,
              Answer, Arrive, tableVars
<1>7. CASE UNCHANGED vars
  BY <1>4, <1>7 DEF vars, tableVars
<1> QED
  BY <1>1, <1>2, <1>3, <1>4, <1>5, <1>6, <1>7 DEF Next, IngestStep

(* With finitely many runs and trims that succeed, log_chunks never exceeds
   LOG_CHUNK_MAX, the row that the trim leaves over and what each run adds
   before it trims.                                                        *)
THEOREM TableIsBounded ==
    ASSUME IsFiniteSet(Stream), "trim" \notin Faults
    PROVE  Spec => []TableBounded
<1>1. Init => LogInv /\ TableInv
  <2> SUFFICES ASSUME Init PROVE TableInv
    BY LogInitInv
  <2>1. stored = {} /\ Cardinality(stored) = 0
    BY FS_EmptySet DEF Init
  <2>2. Added \in SUBSET (Stream \X (1..TrimEvery))
    BY DEF Added
  <2>3. Cardinality(Added) \in Nat
    BY <2>2, AddedIsFinite
  <2> QED
    BY <2>1, <2>3, LogStreamAssumption DEF TableInv
<1>2. LogInv /\ TableInv /\ [Next]_vars => LogInv' /\ TableInv'
  BY LogStepInv, TableStepInv
<1>3. LogInv /\ TableInv => TableBounded
  <2> SUFFICES ASSUME LogInv, TableInv PROVE TableBounded
    OBVIOUS
  <2>1. Added \in SUBSET (Stream \X (1..TrimEvery))
    BY DEF Added
  <2>2. Cardinality(Added) \in Nat /\ Cardinality(Added) <= TrimEvery * Cardinality(Stream)
    BY <2>1, AddedIsFinite
  <2>3. TrimEvery * Cardinality(Stream) \in Nat
    <3>1. TrimEvery \in Nat /\ Cardinality(Stream) \in Nat
      BY LogStreamAssumption, FS_CardinalityType
    <3> QED
      BY <3>1
  <2>4. Cardinality(stored) \in Nat
    BY StoredIsFinite
  <2> QED
    BY <2>2, <2>3, <2>4, LogStreamAssumption DEF TableInv, TableBounded
<1> QED
  BY <1>1, <1>2, <1>3, PTL DEF Spec

=============================================================================
