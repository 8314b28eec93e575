-------------------------- MODULE RequestQueueProofs --------------------------
(***************************************************************************)
(* For any number of workers, any batch size and any number of requests    *)
(* and faults: the request queue is type correct, implements RequestFifo,  *)
(* and keeps every accepted request at exactly one place.                  *)
(*                                                                         *)
(* FileInv is why the file is a queue at all: until two processes overlap  *)
(* or a write fails half-way, the process in the middle of an operation is *)
(* alone, so what it read is still what the queue holds, and the file it   *)
(* truncated is still empty when it writes.  PlaceInv strengthens          *)
(* NoneLostOrRepeated with what is needed when requests move: they wait in *)
(* the order of their numbers, hence each once, and two pops hold none in  *)
(* common.                                                                 *)
(***************************************************************************)
EXTENDS RequestQueue, SequenceTheorems, TLAPS

Requests == 1..sent

Op == [step : {"idle", "truncate", "write", "pop"},
       old : Seq(Requests), new : Seq(Requests), take : Seq(Requests)]

ReqTypeOK ==
    /\ backend \in Backends /\ batch \in BatchSizes
    /\ sent \in 0..RequestBound /\ faults \in 0..FaultBound
    /\ items \in Seq(Requests) /\ torn \in BOOLEAN
    /\ popAt \in 0..Len(items) /\ peekAt \in 0..Len(items)
    /\ op \in [Process -> Op]
    /\ out \in Seq(Requests)
    /\ accepted \in SUBSET Requests /\ dropped \in SUBSET Requests
    /\ served \in SUBSET Requests /\ lost \in SUBSET Requests
    /\ broken \in BOOLEAN

(* Which backend has which operations and offsets.                         *)
BackendInv ==
    /\ backend # "kafka" => popAt = 0 /\ peekAt = 0
    /\ backend # "file" => ~broken
    /\ \A p \in Process :
          /\ op[p].step = "pop" => backend # "file" /\ p \in Worker
          /\ op[p].step \in {"truncate", "write"} => backend = "file"
          /\ op[p].step = "idle" => op[p] = Idle

(* What the file operations write and take of what they read.              *)
Pops(o) ==
    \E n \in 0..Len(o.old) : /\ o.take = SubSeq(o.old, 1, n)
                             /\ o.new = SubSeq(o.old, n + 1, Len(o.old))
Enqueues(o, n, before) == n > 0 /\ n \notin before /\ o.new = Append(o.old, n)
Clears(o) == o.new = <<>>

FileInv ==
    backend = "file" /\ ~broken =>
        /\ ~torn
        /\ \A p, q \in Process : op[p].step # "idle" /\ op[q].step # "idle" => p = q
        /\ \A p \in Process :
              /\ op[p].step = "truncate" => items = op[p].old
              /\ op[p].step = "write" => items = <<>>
              /\ op[p].step # "idle" =>
                    IF p \in Worker THEN Pops(op[p]) ELSE Enqueues(op[p], sent, accepted) \/ Clears(op[p])

Ascending(s) == \A i, j \in 1..Len(s) : i < j => s[i] < s[j]

Taken(w) == IF op[w].step = "pop" THEN ToSet(op[w].take) ELSE {}

PlaceInv ==
    ~broken =>
        /\ accepted = ToSet(Waiting) \cup Held \cup served \cup dropped \cup lost
        /\ ToSet(Waiting) \cap (Held \cup served \cup dropped \cup lost) = {}
        /\ Held \cap (served \cup dropped \cup lost) = {}
        /\ served \cap (dropped \cup lost) = {}
        /\ dropped \cap lost = {}
        /\ Ascending(Waiting)
        /\ \A v, w \in Worker : v # w => Taken(v) \cap Taken(w) = {}

ReqInv == ReqTypeOK /\ BackendInv /\ FileInv /\ PlaceInv

-----------------------------------------------------------------------------
(* Sequences.                                                              *)

LEMMA SeqMono ==
    ASSUME NEW m \in Nat, NEW n \in Nat, m <= n, NEW s \in Seq(1..m)
    PROVE  s \in Seq(1..n)
  OBVIOUS

LEMMA ToSetIn == \A S : \A s \in Seq(S) : ToSet(s) \subseteq S
  BY DEF ToSet

LEMMA ToSetEmpty == ToSet(<<>>) = {}
  BY DEF ToSet

LEMMA ToSetAppend ==
    ASSUME NEW S, NEW s \in Seq(S), NEW x \in S
    PROVE  ToSet(Append(s, x)) = ToSet(s) \cup {x}
<1> DEFINE t == Append(s, x)
<1>1. /\ DOMAIN t = 1..(Len(s) + 1) /\ DOMAIN s = 1..Len(s)
      /\ \A i \in 1..Len(s) : t[i] = s[i]
      /\ t[Len(s) + 1] = x
  OBVIOUS
<1>2. Len(s) + 1 \in DOMAIN t /\ \A i \in DOMAIN t : i \in DOMAIN s \/ i = Len(s) + 1
  BY <1>1
<1>3. DOMAIN s \subseteq DOMAIN t
  BY <1>1
<1> HIDE DEF t
<1>4. \A y : y \in ToSet(t) <=> y \in ToSet(s) \/ y = x
  BY <1>1, <1>2, <1>3 DEF ToSet
<1>5. ToSet(t) = ToSet(s) \cup {x}
  BY <1>4
<1> QED BY <1>5 DEF t

(* A sequence cut in two.                                                  *)
LEMMA Cut ==
    ASSUME NEW S, NEW s \in Seq(S), NEW n \in 0..Len(s)
    PROVE  /\ SubSeq(s, 1, n) \in Seq(S) /\ Len(SubSeq(s, 1, n)) = n
           /\ SubSeq(s, n + 1, Len(s)) \in Seq(S)
           /\ Len(SubSeq(s, n + 1, Len(s))) = Len(s) - n
           /\ \A i \in 1..n : SubSeq(s, 1, n)[i] = s[i]
           /\ \A i \in 1..(Len(s) - n) : SubSeq(s, n + 1, Len(s))[i] = s[i + n]
  OBVIOUS

LEMMA CutNothing ==
    ASSUME NEW S, NEW s \in Seq(S)
    PROVE  SubSeq(s, 1, Len(s)) = s /\ SubSeq(s, 1, 0) = <<>>
  OBVIOUS

LEMMA CutAppend ==
    ASSUME NEW S, NEW s \in Seq(S), NEW x \in S, NEW n \in 0..Len(s)
    PROVE  SubSeq(Append(s, x), n + 1, Len(Append(s, x))) = Append(SubSeq(s, n + 1, Len(s)), x)
<1> DEFINE t == Append(s, x)
           a == SubSeq(t, n + 1, Len(t))
           b == SubSeq(s, n + 1, Len(s))
           c == Append(b, x)
<1>1. /\ t \in Seq(S) /\ Len(t) = Len(s) + 1 /\ n \in 0..Len(t)
      /\ \A i \in 1..Len(s) : t[i] = s[i]
      /\ t[Len(s) + 1] = x
  OBVIOUS
<1>2. a \in Seq(S) /\ Len(a) = Len(s) + 1 - n /\ \A i \in 1..(Len(s) + 1 - n) : a[i] = t[i + n]
  <2> HIDE DEF t
  <2> QED BY <1>1, Cut
<1>3. b \in Seq(S) /\ Len(b) = Len(s) - n /\ \A i \in 1..(Len(s) - n) : b[i] = s[i + n]
  BY Cut
<1> HIDE DEF a, b, t
<1>4. /\ c \in Seq(S) /\ Len(c) = Len(s) - n + 1
      /\ \A i \in 1..(Len(s) - n) : c[i] = b[i]
      /\ c[Len(s) - n + 1] = x
  BY <1>3
<1> HIDE DEF c
<1>5. \A i \in 1..Len(a) : a[i] = c[i]
  <2> SUFFICES ASSUME NEW i \in 1..(Len(s) + 1 - n) PROVE a[i] = c[i]
    BY <1>2
  <2>1. Len(s) \in Nat
    OBVIOUS
  <2>2. CASE i = Len(s) - n + 1
    <3>1. i + n = Len(s) + 1
      BY <2>1, <2>2
    <3> QED BY <1>1, <1>2, <1>4, <2>2, <3>1
  <2>3. CASE i # Len(s) - n + 1
    <3>1. i \in 1..(Len(s) - n) /\ i + n \in 1..Len(s)
      BY <2>1, <2>3
    <3> QED BY <1>1, <1>2, <1>3, <1>4, <3>1
  <2> QED BY <2>2, <2>3
<1>6. a = c
  BY <1>2, <1>4, <1>5, SeqEqual
<1> QED BY <1>6 DEF a, b, c, t

LEMMA CutHead ==
    ASSUME NEW S, NEW s \in Seq(S), NEW n \in 0..Len(s), SubSeq(s, n + 1, Len(s)) # <<>>
    PROVE  /\ n < Len(s)
           /\ SubSeq(s, (n + 1) + 1, Len(s)) = Tail(SubSeq(s, n + 1, Len(s)))
           /\ Head(SubSeq(s, n + 1, Len(s))) = s[n + 1]
  OBVIOUS

-----------------------------------------------------------------------------
(* Types.                                                                  *)

LEMMA SentNat == ReqTypeOK => sent \in Nat
  BY RequestQueueAssumption DEF ReqTypeOK

LEMMA IdleOp == ReqTypeOK => Idle \in Op
  BY DEF Idle, Op

LEMMA SameRequests == UNCHANGED sent => Requests' = Requests /\ Op' = Op
  BY DEF Requests, Op

LEMMA OpsGrow ==
    ASSUME ReqTypeOK, sent' = sent + 1
    PROVE  /\ Requests \subseteq Requests' /\ Op \subseteq Op' /\ sent' \in Requests'
           /\ items \in Seq(Requests') /\ out \in Seq(Requests')
<1>1. sent \in Nat /\ sent' \in Nat
  BY SentNat
<1>2. Requests \subseteq Requests' /\ sent' \in Requests'
  BY <1>1 DEF Requests
<1>3. Seq(Requests) \subseteq Seq(Requests')
  BY <1>1, SeqMono DEF Requests
<1>4. Op \subseteq Op'
  BY <1>3 DEF Op
<1> QED BY <1>2, <1>3, <1>4 DEF ReqTypeOK

LEMMA FaultType == ReqTypeOK /\ (Fault \/ UNCHANGED faults) => faults' \in 0..FaultBound
  BY RequestQueueAssumption DEF ReqTypeOK, Fault

LEMMA ReqTypeInit == Init => ReqTypeOK
<1> SUFFICES ASSUME Init PROVE ReqTypeOK
  OBVIOUS
<1>1. sent \in 0..RequestBound /\ faults \in 0..FaultBound
  BY RequestQueueAssumption DEF Init
<1>2. Idle \in Op
  BY DEF Idle, Op
<1>3. items \in Seq(Requests) /\ out \in Seq(Requests) /\ Len(items) = 0
  BY DEF Init
<1>4. popAt \in 0..Len(items) /\ peekAt \in 0..Len(items)
  BY <1>3 DEF Init
<1>5. op \in [Process -> Op]
  BY <1>2 DEF Init
<1> QED BY <1>1, <1>3, <1>4, <1>5 DEF Init, ReqTypeOK

LEMMA EnqueueType == ReqTypeOK /\ QueueEnqueue => ReqTypeOK'
<1> SUFFICES ASSUME ReqTypeOK, QueueEnqueue PROVE ReqTypeOK'
  OBVIOUS
<1>1. /\ sent' = sent + 1 /\ sent' \in 0..RequestBound
      /\ UNCHANGED <<backend, batch, faults, torn, popAt, peekAt, out, dropped, served, lost>>
  BY RequestQueueAssumption DEF QueueEnqueue, EnqueueServer, EnqueueFile, queueVars, ReqTypeOK
<1>2. /\ Requests \subseteq Requests' /\ Op \subseteq Op' /\ sent' \in Requests'
      /\ items \in Seq(Requests') /\ out \in Seq(Requests')
  BY <1>1, OpsGrow
<1>3. /\ Append(items, sent + 1) \in Seq(Requests')
      /\ Len(Append(items, sent + 1)) = Len(items) + 1
  BY <1>1, <1>2
<1>4. CASE EnqueueServer
  <2>1. items' = Append(items, sent + 1) /\ UNCHANGED <<op, broken>>
    BY <1>4 DEF EnqueueServer, EnqueueRedis, EnqueueKafka
  <2>2. accepted' \in SUBSET Requests'
    BY <1>1, <1>2, <1>4 DEF EnqueueServer, ReqTypeOK
  <2>3. popAt' \in 0..Len(items') /\ peekAt' \in 0..Len(items')
    BY <1>1, <1>3, <2>1 DEF ReqTypeOK
  <2> QED BY <1>1, <1>2, <1>3, <2>1, <2>2, <2>3 DEF ReqTypeOK
<1>5. CASE EnqueueFile(Api)
  <2> DEFINE o == [step |-> "truncate", old |-> items, new |-> Append(items, sent + 1), take |-> <<>>]
  <2>1. op' = [op EXCEPT ![Api] = o] /\ UNCHANGED <<items, accepted>> /\ broken' \in BOOLEAN
    BY <1>5 DEF EnqueueFile, Lock, Load, queueVars, ReqTypeOK
  <2>2. o \in Op'
    BY <1>2, <1>3 DEF Op
  <2>3. op' \in [Process -> Op']
    BY <1>2, <2>1, <2>2 DEF ReqTypeOK
  <2> QED BY <1>1, <1>2, <2>1, <2>3 DEF ReqTypeOK
<1> QED BY <1>4, <1>5 DEF QueueEnqueue

LEMMA ClearType == ReqTypeOK /\ QueueClear /\ BackendInv => ReqTypeOK'
<1> SUFFICES ASSUME ReqTypeOK, QueueClear, BackendInv PROVE ReqTypeOK'
  OBVIOUS
<1> USE DEF ReqTypeOK
<1>1. CASE ClearRedis
  <2>1. ToSet(items) \subseteq Requests
    BY ToSetIn
  <2>2. items' \in Seq(Requests) /\ Len(items') = 0 /\ popAt' = 0 /\ peekAt' = 0
    BY <1>1 DEF ClearRedis, BackendInv
  <2>3. popAt' \in 0..Len(items') /\ peekAt' \in 0..Len(items')
    BY <2>2
  <2>4. dropped' \in SUBSET Requests
    BY <1>1, <2>1 DEF ClearRedis
  <2> QED BY <1>1, <2>2, <2>3, <2>4, SameRequests DEF ClearRedis, QueueClear
<1>2. CASE ClearFile(Api)
  <2>1. [step |-> "truncate", old |-> items, new |-> <<>>, take |-> <<>>] \in Op
    BY DEF Op
  <2>2. UNCHANGED <<items, torn, popAt, peekAt>> /\ broken' \in BOOLEAN /\ op' \in [Process -> Op]
    BY <1>2, <2>1 DEF ClearFile, Lock, queueVars
  <2> QED BY <1>2, <2>2, SameRequests DEF ClearFile, QueueClear
<1> QED BY <1>1, <1>2 DEF QueueClear

(* The part of a list that PopFile takes.                                  *)
LEMMA PopFileCuts ==
    ASSUME ReqTypeOK, NEW w \in Worker, DrainFile(w)
    PROVE  \E n \in 0..Len(items) :
              op' = [op EXCEPT ![w] = [step |-> "truncate", old |-> items,
                                       new |-> SubSeq(items, n + 1, Len(items)),
                                       take |-> SubSeq(items, 1, n)]]
<1> DEFINE n == IF batch <= 0 \/ batch > Len(items) THEN Len(items) ELSE batch
<1>1. batch \in Nat /\ Len(items) \in Nat
  BY RequestQueueAssumption DEF ReqTypeOK
<1>2. n \in 0..Len(items)
  BY <1>1
<1>3. Load(w, SubSeq(items, n + 1, Len(items)), SubSeq(items, 1, n))
  BY DEF DrainFile, PopFile
<1> HIDE DEF n
<1> QED BY <1>2, <1>3 DEF Load

LEMMA DrainFileType == ReqTypeOK /\ (\E w \in Worker : DrainFile(w)) => ReqTypeOK'
<1> SUFFICES ASSUME ReqTypeOK, NEW w \in Worker, DrainFile(w) PROVE ReqTypeOK'
  OBVIOUS
<1> USE DEF ReqTypeOK
<1>1. PICK n \in 0..Len(items) :
         op' = [op EXCEPT ![w] = [step |-> "truncate", old |-> items,
                                  new |-> SubSeq(items, n + 1, Len(items)),
                                  take |-> SubSeq(items, 1, n)]]
  BY PopFileCuts
<1>2. [step |-> "truncate", old |-> items, new |-> SubSeq(items, n + 1, Len(items)),
       take |-> SubSeq(items, 1, n)] \in Op
  BY Cut DEF Op
<1>3. op' \in [Process -> Op] /\ broken' \in BOOLEAN
  BY <1>1, <1>2 DEF DrainFile, PopFile, Lock
<1> QED BY <1>3, SameRequests DEF DrainFile, PopFile, queueVars

LEMMA FileStepType == ReqTypeOK /\ (\E p \in Process : FileStep(p) \/ FileFails(p)) /\ BackendInv => ReqTypeOK'
<1> SUFFICES ASSUME ReqTypeOK, NEW p \in Process, FileStep(p) \/ FileFails(p), BackendInv PROVE ReqTypeOK'
  OBVIOUS
<1> USE DEF ReqTypeOK
<1>1. op[p] \in Op /\ Idle \in Op
  BY IdleOp
<1>2. <<>> \in Seq(Requests) /\ Len(<<>>) = 0
  OBVIOUS
<1>3. op[p].step \in {"truncate", "write"} => popAt = 0 /\ peekAt = 0
  BY DEF BackendInv
<1>4. CASE Truncate(p) /\ UNCHANGED <<backend, batch>>
  <2>1. [op[p] EXCEPT !.step = "write"] \in Op
    BY <1>1 DEF Op
  <2>2. op' \in [Process -> Op]
    BY <1>4, <2>1 DEF Truncate
  <2>3. items' \in Seq(Requests) /\ popAt' \in 0..Len(items') /\ peekAt' \in 0..Len(items')
    BY <1>2, <1>3, <1>4 DEF Truncate
  <2> QED BY <1>4, <2>2, <2>3, SameRequests DEF Truncate, history
<1>5. CASE WriteFile(p) /\ UNCHANGED <<backend, batch>>
  <2>1. items' \in Seq(Requests) /\ torn' \in BOOLEAN /\ popAt' = 0 /\ peekAt' = 0
    BY <1>1, <1>2, <1>3, <1>5 DEF WriteFile, Op
  <2>2. op' \in [Process -> Op]
    BY <1>1, <1>5 DEF WriteFile
  <2> DEFINE o == op[p]
  <2>3. o.take \in Seq(Requests) /\ o.old \in Seq(Requests) /\ o.new \in Seq(Requests)
    BY <1>1 DEF Op
  <2>4. ToSet(o.take) \subseteq Requests /\ ToSet(o.old) \subseteq Requests
    BY <2>3, ToSetIn
  <2>5. o.new # <<>> => Last(o.new) \in Requests
    BY <2>3 DEF Last
  <2>6. Returns(p, o)
    BY <1>5 DEF WriteFile
  <2> HIDE DEF o
  <2>7. out' \in Seq(Requests)
    <3>1. out \o o.take \in Seq(Requests)
      BY <2>3
    <3> QED BY <2>6, <3>1 DEF Returns
  <2>8. /\ accepted' \in SUBSET Requests /\ dropped' \in SUBSET Requests
        /\ served' \in SUBSET Requests
    BY <2>4, <2>5, <2>6 DEF Returns
  <2>9. popAt' \in 0..Len(items') /\ peekAt' \in 0..Len(items')
    BY <2>1
  <2> QED BY <1>5, <2>1, <2>2, <2>7, <2>8, <2>9, SameRequests DEF WriteFile
<1>6. CASE SaveFails(p) /\ UNCHANGED <<backend, batch>>
  <2>1. op' \in [Process -> Op] /\ faults' \in 0..FaultBound
    BY <1>1, <1>6, FaultType DEF SaveFails
  <2>2. items' \in Seq(Requests) /\ torn' \in BOOLEAN /\ broken' \in BOOLEAN /\ popAt' = 0 /\ peekAt' = 0
    BY <1>2, <1>3, <1>6 DEF SaveFails
  <2>3. popAt' \in 0..Len(items') /\ peekAt' \in 0..Len(items')
    BY <2>2
  <2> QED BY <1>6, <2>1, <2>2, <2>3, SameRequests DEF SaveFails
<1> QED BY <1>4, <1>5, <1>6 DEF FileStep, FileFails

LEMMA RemainingType == ReqTypeOK => Remaining \in Seq(Requests) /\ Len(Remaining) = Len(items) - popAt
  BY Cut DEF ReqTypeOK, Remaining

LEMMA PopType ==
    ASSUME ReqTypeOK, BackendInv, NEW w \in Worker,
           PopBegins(w) \/ PopOne(w) \/ PopEnds(w) \/ PopFails(w)
    PROVE  ReqTypeOK'
<1> USE DEF ReqTypeOK
<1>1. w \in Process /\ op[w] \in Op /\ Idle \in Op /\ ToSet(op[w].take) \subseteq Requests
  BY IdleOp, ToSetIn DEF Process, Op
<1>2. CASE PopBegins(w)
  <2>1. [op[w] EXCEPT !.step = "pop"] \in Op
    BY <1>1 DEF Op
  <2>2. op' \in [Process -> Op]
    BY <1>2, <2>1 DEF PopBegins
  <2> QED BY <1>2, <2>2, SameRequests DEF PopBegins, queueVars, history
<1>3. CASE PopOne(w)
  <2>1. Remaining \in Seq(Requests) /\ Len(Remaining) = Len(items) - popAt /\ Remaining # <<>>
    BY <1>3, RemainingType DEF PopOne
  <2>2. Head(Remaining) \in Requests /\ popAt < Len(items)
    BY <2>1
  <2> DEFINE h == Head(Remaining)
             t == Append(op[w].take, h)
  <2>3. t \in Seq(Requests) /\ Append(out, h) \in Seq(Requests)
    BY <1>1, <2>2 DEF Op
  <2>4. op' = [op EXCEPT ![w].take = t] /\ out' = Append(out, h)
    BY <1>3 DEF PopOne
  <2> HIDE DEF h, t
  <2>5. [op[w] EXCEPT !.take = t] \in Op
    BY <1>1, <2>3 DEF Op
  <2>6. op' \in [Process -> Op] /\ out' \in Seq(Requests)
    BY <2>3, <2>4, <2>5
  <2>7. CASE PopRedis
    <3>1. popAt' = 0 /\ peekAt' = 0
      BY <1>3, <2>7 DEF PopOne, PopRedis, BackendInv
    <3>2. items' \in Seq(Requests)
      BY <2>2, <2>7 DEF PopRedis
    <3>3. popAt' \in 0..Len(items') /\ peekAt' \in 0..Len(items')
      BY <3>1, <3>2
    <3> QED BY <1>3, <2>6, <2>7, <3>2, <3>3, SameRequests DEF PopOne, PopRedis
  <2>8. CASE PopKafka
    <3>1. popAt' \in 0..Len(items)
      BY <2>2, <2>8 DEF PopKafka
    <3> QED BY <1>3, <2>6, <2>8, <3>1, SameRequests DEF PopOne, PopKafka
  <2> QED BY <1>3, <2>7, <2>8 DEF PopOne
<1>4. CASE PopEnds(w)
  <2>1. op' \in [Process -> Op] /\ served' \in SUBSET Requests
    BY <1>1, <1>4 DEF PopEnds
  <2> QED BY <1>4, <2>1, SameRequests DEF PopEnds, queueVars
<1>5. CASE PopFails(w)
  <2>1. /\ op' \in [Process -> Op] /\ served' \in SUBSET Requests /\ lost' \in SUBSET Requests
        /\ faults' \in 0..FaultBound
    BY <1>1, <1>5, FaultType DEF PopFails
  <2> QED BY <1>5, <2>1, SameRequests DEF PopFails, queueVars
<1> QED BY <1>2, <1>3, <1>4, <1>5

LEMMA ListType == ReqTypeOK /\ ListKafka => ReqTypeOK'
<1> SUFFICES ASSUME ReqTypeOK, ListKafka PROVE ReqTypeOK'
  OBVIOUS
<1>1. peekAt' \in 0..Len(items)
  BY RequestQueueAssumption DEF ListKafka, ReqTypeOK
<1> QED BY <1>1, SameRequests DEF ListKafka, ReqTypeOK, history

LEMMA ReqTypeStep == ReqTypeOK /\ BackendInv /\ [Next]_vars => ReqTypeOK'
<1> SUFFICES ASSUME ReqTypeOK, BackendInv, [Next]_vars PROVE ReqTypeOK'
  OBVIOUS
<1>1. CASE UNCHANGED vars
  BY <1>1, SameRequests DEF vars, queueVars, history, ReqTypeOK
<1> QED BY <1>1, EnqueueType, ClearType, ListType, DrainFileType, FileStepType, PopType DEF Next

-----------------------------------------------------------------------------
(* Which backend does what, and the file's operations.                     *)

LEMMA BackendStep == ReqTypeOK /\ BackendInv /\ [Next]_vars => BackendInv'
<1> SUFFICES ASSUME ReqTypeOK, BackendInv, [Next]_vars PROVE BackendInv'
  OBVIOUS
<1>1. op \in [Process -> Op] /\ Worker \subseteq Process /\ Api \in Process
  BY DEF ReqTypeOK, Process
<1>2. ASSUME UNCHANGED <<backend, popAt, peekAt, op, broken>> PROVE BackendInv'
  BY <1>2 DEF BackendInv
<1>3. ASSUME backend = "file", NEW p \in Process, op'[p].step \in {"truncate", "write"},
             \A q \in Process : q # p => op'[q] = op[q], UNCHANGED <<backend, popAt, peekAt>>
      PROVE  BackendInv'
  BY <1>1, <1>3 DEF BackendInv
<1>4. CASE QueueEnqueue
  <2>1. CASE EnqueueServer
    BY <1>2, <1>4, <2>1 DEF QueueEnqueue, EnqueueServer
  <2>2. CASE EnqueueFile(Api)
    BY <1>1, <1>3, <1>4, <2>2 DEF QueueEnqueue, EnqueueFile, Lock, Load, queueVars
  <2> QED BY <1>4, <2>1, <2>2 DEF QueueEnqueue
<1>5. CASE QueueClear
  <2>1. CASE ClearRedis
    BY <1>2, <1>5, <2>1 DEF QueueClear, ClearRedis
  <2>2. CASE ClearFile(Api)
    BY <1>1, <1>3, <1>5, <2>2 DEF QueueClear, ClearFile, Lock, queueVars
  <2> QED BY <1>5, <2>1, <2>2 DEF QueueClear
<1>6. CASE ListKafka
  BY <1>6 DEF ListKafka, history, BackendInv
<1>7. ASSUME NEW w \in Worker, DrainFile(w) PROVE BackendInv'
  BY <1>1, <1>3, <1>7 DEF DrainFile, PopFile, Lock, Load, queueVars
<1>8. ASSUME NEW w \in Worker, PopBegins(w) PROVE BackendInv'
  <2>1. op[w] \in Op /\ op' = [op EXCEPT ![w] = [op[w] EXCEPT !.step = "pop"]] /\ backend # "file"
    BY <1>1, <1>8 DEF PopBegins
  <2>2. [op[w] EXCEPT !.step = "pop"].step = "pop"
    BY <2>1 DEF Op
  <2>3. op'[w].step = "pop" /\ \A p \in Process : p # w => op'[p] = op[p]
    BY <1>1, <2>1, <2>2
  <2> QED BY <1>8, <2>1, <2>3 DEF PopBegins, queueVars, history, BackendInv
<1>9. ASSUME NEW w \in Worker, PopOne(w) PROVE BackendInv'
  <2> DEFINE t == Append(op[w].take, Head(Remaining))
  <2>1. op[w] \in Op /\ op' = [op EXCEPT ![w] = [op[w] EXCEPT !.take = t]] /\ op[w].step = "pop"
    BY <1>1, <1>9 DEF PopOne
  <2> HIDE DEF t
  <2>2. [op[w] EXCEPT !.take = t].step = "pop"
    BY <2>1 DEF Op
  <2>3. op'[w].step = "pop" /\ \A p \in Process : p # w => op'[p] = op[p]
    BY <1>1, <2>1, <2>2
  <2>4. /\ backend' = backend /\ broken' = broken /\ peekAt' = peekAt
        /\ backend # "kafka" => popAt' = popAt
    BY <1>9 DEF PopOne, PopRedis, PopKafka
  <2>5. backend # "file"
    BY <1>1, <2>1 DEF BackendInv
  <2> QED BY <2>3, <2>4, <2>5 DEF BackendInv
<1>10. ASSUME NEW p \in Process, op' = [op EXCEPT ![p] = Idle],
              UNCHANGED <<backend, popAt, peekAt>>, backend = "file" \/ UNCHANGED broken
       PROVE  BackendInv'
  BY <1>1, <1>10 DEF BackendInv, Idle
<1>11. ASSUME NEW w \in Worker, PopEnds(w) \/ PopFails(w) PROVE BackendInv'
  BY <1>1, <1>10, <1>11 DEF PopEnds, PopFails, queueVars
<1>12. ASSUME NEW p \in Process, FileStep(p) \/ FileFails(p) PROVE BackendInv'
  <2>1. CASE Truncate(p) /\ UNCHANGED <<backend, batch>>
    <3>1. op[p] \in Op /\ op' = [op EXCEPT ![p] = [op[p] EXCEPT !.step = "write"]]
      BY <1>1, <2>1 DEF Truncate
    <3>2. [op[p] EXCEPT !.step = "write"].step = "write"
      BY <3>1 DEF Op
    <3>3. backend = "file"
      BY <2>1 DEF Truncate, BackendInv
    <3> DEFINE o == [op[p] EXCEPT !.step = "write"]
    <3>4. op'[p] = o /\ \A q \in Process : q # p => op'[q] = op[q]
      BY <1>1, <3>1
    <3> QED BY <1>3, <2>1, <3>2, <3>3, <3>4 DEF Truncate
  <2>2. CASE WriteFile(p) /\ UNCHANGED <<backend, batch>>
    BY <1>10, <2>2 DEF WriteFile
  <2>3. CASE SaveFails(p) /\ UNCHANGED <<backend, batch>>
    <3>1. backend = "file"
      BY <2>3 DEF SaveFails, BackendInv
    <3> QED BY <1>10, <2>3, <3>1 DEF SaveFails
  <2> QED BY <1>12, <2>1, <2>2, <2>3 DEF FileStep, FileFails
<1>13. CASE UNCHANGED vars
  BY <1>2, <1>13 DEF vars, queueVars, history
<1> QED BY <1>4, <1>5, <1>6, <1>7, <1>8, <1>9, <1>11, <1>12, <1>13 DEF Next

(* An operation begins where no other is under way, and reads the queue.   *)
LEMMA BeginsAlone ==
    ASSUME ReqTypeOK, FileInv, NEW p \in Process, Lock(p), ~broken',
           NEW o, o.step = "truncate", o.old = items, op' = [op EXCEPT ![p] = o],
           UNCHANGED <<backend, items, torn>>, ~torn \/ FileInv,
           IF p \in Worker THEN Pops(o) ELSE Enqueues(o, sent', accepted') \/ Clears(o)
    PROVE  FileInv'
<1>1. /\ ~broken /\ backend = "file"
      /\ \A q \in Process : op[q].step = "idle"
  BY DEF Lock, ReqTypeOK
<1>2. op'[p] = o /\ \A q \in Process : q # p => op'[q].step = "idle"
  BY <1>1 DEF ReqTypeOK
<1>3. ~torn
  BY <1>1 DEF FileInv
<1> QED BY <1>1, <1>2, <1>3 DEF FileInv

LEMMA FileStepInv == ReqTypeOK /\ BackendInv /\ FileInv /\ [Next]_vars => FileInv'
<1> SUFFICES ASSUME ReqTypeOK, BackendInv, FileInv, [Next]_vars, backend' = "file", ~broken'
             PROVE  FileInv'
  BY DEF FileInv
<1>1. op \in [Process -> Op] /\ Worker \subseteq Process /\ Api \in Process /\ Api \notin Worker
  BY RequestQueueAssumption DEF ReqTypeOK, Process
<1>2. CASE QueueEnqueue /\ EnqueueFile(Api)
  <2> DEFINE o == [step |-> "truncate", old |-> items, new |-> Append(items, sent + 1), take |-> <<>>]
  <2>1. /\ Lock(Api) /\ op' = [op EXCEPT ![Api] = o] /\ sent' = sent + 1
        /\ UNCHANGED <<backend, items, torn, accepted>>
    BY <1>2 DEF QueueEnqueue, EnqueueFile, Load, queueVars
  <2>2. sent' > 0 /\ sent' \notin accepted'
    BY <2>1, SentNat DEF ReqTypeOK, Requests
  <2>3. o.new = Append(o.old, sent')
    BY <2>1
  <2>4. o.step = "truncate" /\ o.old = items
    OBVIOUS
  <2> HIDE DEF o
  <2>5. Enqueues(o, sent', accepted')
    BY <2>2, <2>3 DEF Enqueues
  <2> QED BY <1>1, <2>1, <2>4, <2>5, BeginsAlone
<1>3. CASE QueueClear /\ ClearFile(Api)
  <2> DEFINE o == [step |-> "truncate", old |-> items, new |-> <<>>, take |-> <<>>]
  <2>1. Lock(Api) /\ op' = [op EXCEPT ![Api] = o] /\ UNCHANGED <<backend, items, torn>>
    BY <1>3 DEF QueueClear, ClearFile, queueVars
  <2>2. Clears(o) /\ o.step = "truncate" /\ o.old = items
    BY DEF Clears
  <2> HIDE DEF o
  <2> QED BY <1>1, <2>1, <2>2, BeginsAlone
<1>4. ASSUME NEW w \in Worker, DrainFile(w) PROVE FileInv'
  <2>1. PICK n \in 0..Len(items) :
           op' = [op EXCEPT ![w] = [step |-> "truncate", old |-> items,
                                    new |-> SubSeq(items, n + 1, Len(items)),
                                    take |-> SubSeq(items, 1, n)]]
    BY <1>4, PopFileCuts
  <2> DEFINE o == [step |-> "truncate", old |-> items, new |-> SubSeq(items, n + 1, Len(items)),
                   take |-> SubSeq(items, 1, n)]
  <2>2. Pops(o) /\ o.step = "truncate" /\ o.old = items
    BY DEF Pops
  <2>3. Lock(w) /\ op' = [op EXCEPT ![w] = o] /\ UNCHANGED <<backend, items, torn>>
    BY <1>4, <2>1 DEF DrainFile, PopFile, queueVars
  <2> HIDE DEF o
  <2> QED BY <1>1, <1>4, <2>2, <2>3, BeginsAlone
<1>5. ASSUME NEW p \in Process, Truncate(p), UNCHANGED <<backend, batch>> PROVE FileInv'
  <2> DEFINE o == [op[p] EXCEPT !.step = "write"]
  <2>1. op' = [op EXCEPT ![p] = o] /\ op[p] \in Op /\ op[p].step = "truncate"
    BY <1>1, <1>5 DEF Truncate
  <2>2. o.step = "write" /\ o.old = op[p].old /\ o.new = op[p].new /\ o.take = op[p].take
    BY <2>1 DEF Op
  <2>3. items' = <<>> /\ ~torn' /\ UNCHANGED <<sent, accepted, broken, backend>>
    BY <1>5 DEF Truncate, history
  <2>4. /\ op'[p] = o
        /\ \A q \in Process : q # p => op'[q] = op[q] /\ op[q].step = "idle"
    BY <1>1, <2>1, <2>3 DEF FileInv
  <2> HIDE DEF o
  <2>5. IF p \in Worker THEN Pops(op[p]) ELSE Enqueues(op[p], sent, accepted) \/ Clears(op[p])
    BY <2>1, <2>3 DEF FileInv
  <2>6. IF p \in Worker THEN Pops(o) ELSE Enqueues(o, sent', accepted') \/ Clears(o)
    BY <2>2, <2>3, <2>5 DEF Pops, Enqueues, Clears
  <2> QED BY <2>2, <2>3, <2>4, <2>6 DEF FileInv
<1>6. ASSUME NEW p \in Process, op' = [op EXCEPT ![p] = Idle], op[p].step # "idle",
             ~broken, backend = "file", ~torn'
      PROVE  FileInv'
  <2>1. \A q \in Process : op'[q].step = "idle"
    BY <1>1, <1>6 DEF FileInv, Idle
  <2> QED BY <1>6, <2>1 DEF FileInv
<1>7. ASSUME NEW p \in Process, WriteFile(p), UNCHANGED <<backend, batch>> PROVE FileInv'
  <2>1. ~broken /\ backend = "file" /\ op[p].step = "write"
    BY <1>7 DEF WriteFile
  <2>2. items = <<>> /\ ~torn
    BY <2>1 DEF FileInv
  <2> QED BY <1>6, <1>7, <2>1, <2>2 DEF WriteFile
<1>8. ASSUME NEW p \in Process, SaveFails(p), UNCHANGED <<backend, batch>> PROVE FileInv'
  <2>1. /\ ~broken /\ backend = "file" /\ op[p].step = "truncate" /\ torn' = torn
        /\ op' = [op EXCEPT ![p] = Idle]
    BY <1>8 DEF SaveFails
  <2>2. ~torn
    BY <2>1 DEF FileInv
  <2> QED BY <1>6, <2>1, <2>2
<1>9. CASE UNCHANGED vars
  BY <1>9 DEF vars, queueVars, history, FileInv
<1>10. CASE (QueueEnqueue /\ EnqueueServer) \/ (QueueClear /\ ClearRedis) \/ ListKafka
  BY <1>10 DEF QueueEnqueue, EnqueueServer, EnqueueRedis, EnqueueKafka, QueueClear, ClearRedis, ListKafka
<1>11. ASSUME NEW w \in Worker, PopBegins(w) \/ PopOne(w) \/ PopEnds(w) \/ PopFails(w) PROVE FileInv'
  BY <1>1, <1>11 DEF PopBegins, PopOne, PopEnds, PopFails, BackendInv
<1> QED BY <1>2, <1>3, <1>4, <1>5, <1>7, <1>8, <1>9, <1>10, <1>11
        DEF Next, QueueEnqueue, QueueClear, FileStep, FileFails

-----------------------------------------------------------------------------
(* What a step that does not break the queue does to its requests: the
   refinement of RequestFifo and the places of the requests both follow
   from this.                                                              *)

SameHolders == \A w \in Worker : Taken(w)' = Taken(w)

Stay == UNCHANGED <<Waiting, accepted, out, dropped, served, lost>> /\ SameHolders

PutOne ==
    \E r \in Requests' :
        /\ \A q \in accepted : q < r
        /\ accepted' = accepted \cup {r}
        /\ Waiting' = Append(Waiting, r)
        /\ UNCHANGED <<out, dropped, served, lost>> /\ SameHolders

ServeSome ==
    \E n \in 1..Len(Waiting) :
        /\ out' = out \o SubSeq(Waiting, 1, n)
        /\ served' = served \cup ToSet(SubSeq(Waiting, 1, n))
        /\ Waiting' = SubSeq(Waiting, n + 1, Len(Waiting))
        /\ UNCHANGED <<accepted, dropped, lost>> /\ SameHolders

DropAll ==
    /\ Waiting' = <<>>
    /\ dropped' = dropped \cup ToSet(Waiting)
    /\ UNCHANGED <<accepted, out, served, lost>> /\ SameHolders

HoldOne(w) ==
    /\ Waiting # <<>>
    /\ Waiting' = Tail(Waiting)
    /\ out' = Append(out, Head(Waiting))
    /\ Taken(w)' = Taken(w) \cup {Head(Waiting)}
    /\ \A v \in Worker : v # w => Taken(v)' = Taken(v)
    /\ UNCHANGED <<accepted, dropped, served, lost>>

Settle(w) ==
    /\ Taken(w)' = {}
    /\ \A v \in Worker : v # w => Taken(v)' = Taken(v)
    /\ \/ served' = served \cup Taken(w) /\ UNCHANGED lost
       \/ lost' = lost \cup Taken(w) /\ UNCHANGED served
    /\ UNCHANGED <<Waiting, accepted, out, dropped>>

Move == Stay \/ PutOne \/ ServeSome \/ DropAll \/ \E w \in Worker : HoldOne(w) \/ Settle(w)

LEMMA WaitingIsRemaining ==
    (\A p \in Process : op[p].step # "write") => Waiting = Remaining
  BY DEF Waiting

LEMMA WaitingIsRemainingNext ==
    (\A p \in Process : op'[p].step # "write") => Waiting' = Remaining'
  BY DEF Waiting

(* The one process that rewrites the file holds the queue.                 *)
LEMMA WaitingIsOld ==
    ASSUME NEW p \in Process, op[p].step = "write",
           \A q \in Process : op[q].step = "write" => q = p
    PROVE  Waiting = op[p].old
<1>1. {q \in Process : op[q].step = "write"} = {p}
  OBVIOUS
<1> QED BY <1>1 DEF Waiting

LEMMA WaitingIsOldNext ==
    ASSUME NEW p \in Process, op'[p].step = "write",
           \A q \in Process : op'[q].step = "write" => q = p
    PROVE  Waiting' = op'[p].old
<1>1. {q \in Process : op'[q].step = "write"} = {p}
  OBVIOUS
<1> QED BY <1>1 DEF Waiting

LEMMA RemainingIsItems == ReqTypeOK /\ popAt = 0 => Remaining = items
  BY CutNothing DEF ReqTypeOK, Remaining

LEMMA WaitingType == ReqTypeOK => Waiting \in Seq(Requests)
<1> SUFFICES ASSUME ReqTypeOK PROVE Waiting \in Seq(Requests)
  OBVIOUS
<1>1. Remaining \in Seq(Requests)
  BY RemainingType
<1>2. \A p \in Process : op[p].old \in Seq(Requests)
  BY DEF ReqTypeOK, Op
<1> QED BY <1>1, <1>2 DEF Waiting

(* Server backends: the queue is what remains of the list or the topic.    *)
LEMMA ServerMoves ==
    ASSUME ReqTypeOK, BackendInv, backend # "file", ReqTypeOK', BackendInv', backend' = backend
    PROVE  Waiting = Remaining /\ Waiting' = Remaining'
<1>1. \A p \in Process : op[p].step # "write" /\ op'[p].step # "write"
  BY DEF BackendInv
<1> QED BY <1>1, WaitingIsRemaining, WaitingIsRemainingNext

LEMMA SameOps == UNCHANGED op => SameHolders
  BY DEF SameHolders, Taken

LEMMA EnqueueServerMoves ==
    ASSUME ReqInv, QueueEnqueue, EnqueueServer, ReqTypeOK', BackendInv'
    PROVE  PutOne
<1> USE DEF ReqInv
<1>1. /\ sent' = sent + 1 /\ items' = Append(items, sent + 1) /\ backend # "file"
      /\ UNCHANGED <<backend, popAt, op, out, dropped, served, lost>>
      /\ accepted' = accepted \cup {sent + 1}
  BY DEF QueueEnqueue, EnqueueServer, EnqueueRedis, EnqueueKafka
<1>2. Waiting = Remaining /\ Waiting' = Remaining'
  BY <1>1, ServerMoves
<1>3. sent + 1 \in Requests' /\ items \in Seq(Requests') /\ popAt \in 0..Len(items)
  BY <1>1, OpsGrow DEF ReqTypeOK
<1>4. Remaining' = Append(Remaining, sent + 1)
  BY <1>1, <1>3, CutAppend DEF Remaining
<1>5. \A q \in accepted : q < sent + 1
  BY SentNat DEF ReqTypeOK, Requests
<1> QED BY <1>1, <1>2, <1>3, <1>4, <1>5, SameOps DEF PutOne

LEMMA ClearRedisMoves ==
    ASSUME ReqInv, QueueClear, ClearRedis, ReqTypeOK', BackendInv'
    PROVE  DropAll
<1> USE DEF ReqInv
<1>1. /\ items' = <<>> /\ dropped' = dropped \cup ToSet(items) /\ backend = "redis"
      /\ UNCHANGED <<backend, popAt, op, accepted, out, served, lost>>
  BY DEF QueueClear, ClearRedis
<1>2. Waiting = Remaining /\ Waiting' = Remaining' /\ popAt = 0
  BY <1>1, ServerMoves DEF BackendInv
<1>3. Remaining = items
  BY <1>2, RemainingIsItems
<1>4. Remaining' = <<>>
  BY <1>1, <1>2 DEF Remaining
<1> QED BY <1>1, <1>2, <1>3, <1>4, SameOps DEF DropAll

LEMMA PopMoves ==
    ASSUME ReqInv, NEW w \in Worker, PopBegins(w) \/ PopOne(w) \/ PopEnds(w) \/ PopFails(w),
           ReqTypeOK', BackendInv'
    PROVE  Stay \/ HoldOne(w) \/ Settle(w)
<1> USE DEF ReqInv
<1>1. w \in Process /\ op \in [Process -> Op] /\ Worker \subseteq Process
  BY DEF Process, ReqTypeOK
<1>2. backend # "file" /\ backend' = backend
  BY <1>1 DEF PopBegins, PopOne, PopEnds, PopFails, BackendInv
<1>3. Waiting = Remaining /\ Waiting' = Remaining'
  BY <1>2, ServerMoves
<1>4. ASSUME NEW o, op' = [op EXCEPT ![w] = o]
      PROVE  /\ op'[w] = o
             /\ \A v \in Worker : v # w => Taken(v)' = Taken(v)
  BY <1>1, <1>4 DEF Taken
<1>5. CASE PopBegins(w)
  <2> DEFINE o == [op[w] EXCEPT !.step = "pop"]
  <2>1. op' = [op EXCEPT ![w] = o] /\ UNCHANGED <<items, popAt, history>> /\ op[w] = Idle
    BY <1>1, <1>5 DEF PopBegins, queueVars, BackendInv
  <2>2. o.step = "pop" /\ o.take = <<>>
    BY <2>1 DEF Idle
  <2> HIDE DEF o
  <2>3. Taken(w) = {} /\ Taken(w)' = {}
    BY <1>4, <2>1, <2>2, ToSetEmpty DEF Taken, Idle
  <2>4. SameHolders
    BY <1>4, <2>1, <2>3 DEF SameHolders
  <2>5. Remaining' = Remaining
    BY <2>1 DEF Remaining
  <2> QED BY <1>3, <2>1, <2>4, <2>5 DEF Stay, history
<1>6. CASE PopOne(w)
  <2> DEFINE h == Head(Remaining)
             t == Append(op[w].take, h)
             o == [op[w] EXCEPT !.take = t]
  <2>1. /\ op' = [op EXCEPT ![w] = o] /\ op[w].step = "pop" /\ Remaining # <<>>
        /\ out' = Append(out, h)
        /\ UNCHANGED <<accepted, dropped, served, lost>>
    BY <1>6 DEF PopOne
  <2>2. o.step = "pop" /\ o.take = t
    BY <1>1, <2>1 DEF Op
  <2>3. op[w].take \in Seq(Requests) /\ Remaining \in Seq(Requests)
    BY <1>1, RemainingType DEF Op
  <2>4. h \in Requests
    BY <2>1, <2>3
  <2>5. ToSet(t) = ToSet(op[w].take) \cup {h}
    <3> HIDE DEF h
    <3> QED BY <2>3, <2>4, ToSetAppend
  <2> HIDE DEF o, t
  <2>6. Taken(w)' = Taken(w) \cup {h}
    BY <1>4, <2>1, <2>2, <2>5 DEF Taken
  <2>7. Remaining' = Tail(Remaining)
    <3>1. items \in Seq(Requests) /\ popAt \in 0..Len(items)
      BY DEF ReqTypeOK
    <3>2. CASE PopRedis
      <4>1. popAt = 0 /\ popAt' = 0 /\ items' = Tail(items)
        BY <3>2 DEF PopRedis, BackendInv
      <4>2. Remaining = items
        BY <4>1, RemainingIsItems
      <4>3. Tail(items) \in Seq(Requests)
        BY <2>1, <3>1, <4>2
      <4>4. Remaining' = Tail(items)
        BY <4>1, <4>3, CutNothing DEF Remaining
      <4> QED BY <4>2, <4>4
    <3>3. CASE PopKafka
      <4>1. popAt' = popAt + 1 /\ items' = items
        BY <3>3 DEF PopKafka
      <4> QED BY <2>1, <3>1, <4>1, CutHead DEF Remaining
    <3> QED BY <1>6, <3>2, <3>3 DEF PopOne
  <2> QED BY <1>3, <1>4, <2>1, <2>6, <2>7 DEF HoldOne
<1>7. CASE PopEnds(w) \/ PopFails(w)
  <2>1. /\ op' = [op EXCEPT ![w] = Idle] /\ op[w].step = "pop"
        /\ UNCHANGED <<items, popAt, accepted, out, dropped>>
        /\ \/ served' = served \cup ToSet(op[w].take) /\ UNCHANGED lost
           \/ lost' = lost \cup ToSet(op[w].take) /\ UNCHANGED served
    BY <1>7 DEF PopEnds, PopFails, queueVars
  <2>2. Taken(w)' = {} /\ Taken(w) = ToSet(op[w].take)
    <3>1. op'[w] = Idle
      BY <1>4, <2>1
    <3>2. Idle.step = "idle"
      BY DEF Idle
    <3> QED BY <2>1, <3>1, <3>2 DEF Taken
  <2>3. Remaining' = Remaining
    BY <2>1 DEF Remaining
  <2> QED BY <1>3, <1>4, <2>1, <2>2, <2>3 DEF Settle
<1> QED BY <1>5, <1>6, <1>7

(* The file: an operation shows when it has written.                       *)
LEMMA FileHolders ==
    ASSUME BackendInv, BackendInv', backend = "file", backend' = "file"
    PROVE  \A w \in Worker : Taken(w) = {} /\ Taken(w)' = {}
<1>1. \A w \in Worker : w \in Process
  BY DEF Process
<1>2. \A w \in Worker : op[w].step # "pop" /\ op'[w].step # "pop"
  BY <1>1 DEF BackendInv
<1> QED BY <1>2 DEF Taken

LEMMA BeginMoves ==
    ASSUME ReqInv, BackendInv', NEW p \in Process, Lock(p), ~broken', backend' = backend,
           NEW o, o.step = "truncate", op' = [op EXCEPT ![p] = o],
           UNCHANGED <<items, popAt, accepted, out, dropped, served, lost>>
    PROVE  Stay
<1> USE DEF ReqInv
<1>1. /\ backend = "file"
      /\ \A q \in Process : op[q].step = "idle"
  BY DEF Lock, ReqTypeOK
<1>2. \A q \in Process : op[q].step # "write" /\ op'[q].step # "write"
  BY <1>1 DEF ReqTypeOK
<1>3. Waiting' = Waiting
  BY <1>2, WaitingIsRemaining, WaitingIsRemainingNext DEF Remaining
<1> QED BY <1>1, <1>3, FileHolders DEF Stay, SameHolders

LEMMA TruncateMoves ==
    ASSUME ReqInv, BackendInv', NEW p \in Process, Truncate(p), ~broken', backend' = backend
    PROVE  Stay
<1> USE DEF ReqInv
<1>1. /\ op[p] \in Op /\ op[p].step = "truncate" /\ ~broken /\ backend = "file" /\ popAt = 0
      /\ op' = [op EXCEPT ![p] = [op[p] EXCEPT !.step = "write"]]
      /\ UNCHANGED <<popAt, accepted, out, dropped, served, lost>>
  BY DEF Truncate, history, ReqTypeOK, BackendInv
<1>2. items = op[p].old /\ \A q \in Process : q # p => op[q].step = "idle"
  BY <1>1 DEF FileInv
<1> DEFINE o == [op[p] EXCEPT !.step = "write"]
<1>3. o.step = "write" /\ o.old = op[p].old
  BY <1>1 DEF Op
<1>4. op'[p] = o /\ \A q \in Process : q # p => op'[q].step = "idle"
  BY <1>1, <1>2 DEF ReqTypeOK
<1> HIDE DEF o
<1>5. Waiting' = op[p].old
  BY <1>3, <1>4, WaitingIsOldNext
<1>6. \A q \in Process : op[q].step # "write"
  BY <1>1, <1>2
<1>7. Waiting = items
  BY <1>1, <1>6, WaitingIsRemaining, RemainingIsItems
<1> QED BY <1>1, <1>2, <1>5, <1>7, FileHolders DEF Stay, SameHolders

LEMMA WriteMoves ==
    ASSUME ReqInv, ReqTypeOK', BackendInv', NEW p \in Process, WriteFile(p), ~broken', backend' = backend
    PROVE  Stay \/ PutOne \/ ServeSome \/ DropAll
<1> USE DEF ReqInv
<1> DEFINE o == op[p]
<1>1. /\ o \in Op /\ o.step = "write" /\ ~broken /\ backend = "file" /\ popAt = 0
      /\ op' = [op EXCEPT ![p] = Idle] /\ Returns(p, o) /\ UNCHANGED <<popAt, sent, lost>>
  BY DEF WriteFile, ReqTypeOK, BackendInv
<1>2. items' = o.new
  BY <1>1 DEF WriteFile, FileInv
<1>3. \A q \in Process : q # p => op[q].step = "idle"
  BY <1>1 DEF FileInv
<1>4. \A q \in Process : op'[q].step # "write"
  BY <1>1, <1>3 DEF ReqTypeOK, Idle
<1>5. Waiting' = Remaining' /\ Remaining' = items'
  BY <1>1, <1>4, WaitingIsRemainingNext, CutNothing DEF ReqTypeOK, Remaining
<1>6. Waiting = o.old
  BY <1>1, <1>3, WaitingIsOld
<1>7. SameHolders
  BY <1>1, FileHolders DEF SameHolders
<1>8. o.old \in Seq(Requests) /\ o.new \in Seq(Requests) /\ o.take \in Seq(Requests)
  BY <1>1 DEF Op
<1>9. IF p \in Worker THEN Pops(o) ELSE Enqueues(o, sent, accepted) \/ Clears(o)
  BY <1>1 DEF FileInv
<1> HIDE DEF o
<1>10. CASE p \in Worker
  <2>1. PICK n \in 0..Len(o.old) : /\ o.take = SubSeq(o.old, 1, n)
                                   /\ o.new = SubSeq(o.old, n + 1, Len(o.old))
    BY <1>9, <1>10 DEF Pops
  <2>2. out' = out \o o.take /\ served' = served \cup ToSet(o.take) /\ UNCHANGED <<accepted, dropped>>
    BY <1>1, <1>10 DEF Returns
  <2>3. CASE n = 0
    <3>1. o.take = <<>> /\ o.new = o.old
      BY <1>8, <2>1, <2>3, CutNothing
    <3>2. out' = out /\ served' = served
      BY <2>2, <3>1, ToSetEmpty DEF ReqTypeOK
    <3> QED BY <1>1, <1>2, <1>5, <1>6, <1>7, <2>2, <3>1, <3>2 DEF Stay
  <2>4. CASE n # 0
    <3>1. n \in 1..Len(Waiting)
      BY <1>6, <2>4
    <3> QED BY <1>1, <1>2, <1>5, <1>6, <1>7, <2>1, <2>2, <3>1 DEF ServeSome
  <2> QED BY <2>3, <2>4
<1>11. CASE p \notin Worker /\ o.new = <<>>
  <2>1. dropped' = dropped \cup ToSet(o.old) /\ UNCHANGED <<accepted, out, served>>
    BY <1>1, <1>11 DEF Returns
  <2> QED BY <1>1, <1>2, <1>5, <1>6, <1>7, <1>11, <2>1 DEF DropAll
<1>12. CASE p \notin Worker /\ o.new # <<>>
  <2>1. accepted' = accepted \cup {Last(o.new)} /\ UNCHANGED <<out, dropped, served>>
    BY <1>1, <1>12 DEF Returns
  <2>2. sent > 0 /\ sent \notin accepted /\ o.new = Append(o.old, sent)
    BY <1>9, <1>12 DEF Enqueues, Clears
  <2>3. sent \in Requests
    BY <2>2, SentNat DEF Requests
  <2>4. Last(o.new) = sent
    BY <1>8, <2>2, <2>3 DEF Last
  <2>5. \A q \in accepted : q < sent
    BY <2>2, SentNat DEF ReqTypeOK, Requests
  <2>6. sent \in Requests'
    BY <1>1, <2>3 DEF Requests
  <2> QED BY <1>1, <1>2, <1>5, <1>6, <1>7, <2>1, <2>2, <2>4, <2>5, <2>6 DEF PutOne
<1> QED BY <1>10, <1>11, <1>12

LEMMA SaveFailsMoves ==
    ASSUME ReqInv, BackendInv', NEW p \in Process, SaveFails(p), ~broken', backend' = backend
    PROVE  Stay
<1> USE DEF ReqInv
<1>1. /\ op[p].step = "truncate" /\ ~broken /\ backend = "file"
      /\ op' = [op EXCEPT ![p] = Idle]
      /\ UNCHANGED <<items, popAt, accepted, out, dropped, served, lost>>
  BY DEF SaveFails, BackendInv
<1>2. \A q \in Process : op[q].step # "write" /\ op'[q].step # "write"
  BY <1>1 DEF FileInv, ReqTypeOK, Idle
<1>3. Waiting' = Waiting
  BY <1>1, <1>2, WaitingIsRemaining, WaitingIsRemainingNext DEF Remaining
<1> QED BY <1>1, <1>3, FileHolders DEF Stay, SameHolders

LEMMA StepMoves ==
    ASSUME ReqInv, [Next]_vars, ReqTypeOK', BackendInv', ~broken'
    PROVE  Move
<1> USE DEF ReqInv, Move
<1>1. Worker \subseteq Process /\ Api \in Process
  BY DEF Process
<1>2. CASE QueueEnqueue
  <2>1. CASE EnqueueServer
    BY <1>2, <2>1, EnqueueServerMoves
  <2>2. CASE EnqueueFile(Api)
    <3> DEFINE o == [step |-> "truncate", old |-> items, new |-> Append(items, sent + 1), take |-> <<>>]
    <3>1. /\ Lock(Api) /\ op' = [op EXCEPT ![Api] = o] /\ o.step = "truncate" /\ backend' = backend
          /\ UNCHANGED <<items, popAt, accepted, out, dropped, served, lost>>
      BY <1>2, <2>2 DEF QueueEnqueue, EnqueueFile, Load, queueVars
    <3> HIDE DEF o
    <3> QED BY <1>1, <3>1, BeginMoves
  <2> QED BY <1>2, <2>1, <2>2 DEF QueueEnqueue
<1>3. CASE QueueClear
  <2>1. CASE ClearRedis
    BY <1>3, <2>1, ClearRedisMoves
  <2>2. CASE ClearFile(Api)
    <3> DEFINE o == [step |-> "truncate", old |-> items, new |-> <<>>, take |-> <<>>]
    <3>1. /\ Lock(Api) /\ op' = [op EXCEPT ![Api] = o] /\ o.step = "truncate" /\ backend' = backend
          /\ UNCHANGED <<items, popAt, accepted, out, dropped, served, lost>>
      BY <1>3, <2>2 DEF QueueClear, ClearFile, queueVars
    <3> HIDE DEF o
    <3> QED BY <1>1, <3>1, BeginMoves
  <2> QED BY <1>3, <2>1, <2>2 DEF QueueClear
<1>4. CASE ListKafka \/ UNCHANGED vars
  <2>1. UNCHANGED <<items, popAt, op, accepted, out, dropped, served, lost>>
    BY <1>4 DEF ListKafka, vars, queueVars, history
  <2>2. Waiting' = Waiting
    BY <2>1 DEF Waiting, Remaining
  <2> QED BY <2>1, <2>2, SameOps DEF Stay
<1>5. ASSUME NEW w \in Worker, DrainFile(w) PROVE Move
  <2>1. PICK n \in 0..Len(items) :
           op' = [op EXCEPT ![w] = [step |-> "truncate", old |-> items,
                                    new |-> SubSeq(items, n + 1, Len(items)),
                                    take |-> SubSeq(items, 1, n)]]
    BY <1>5, PopFileCuts
  <2> DEFINE o == [step |-> "truncate", old |-> items, new |-> SubSeq(items, n + 1, Len(items)),
                   take |-> SubSeq(items, 1, n)]
  <2>2. /\ Lock(w) /\ op' = [op EXCEPT ![w] = o] /\ o.step = "truncate" /\ backend' = backend
        /\ UNCHANGED <<items, popAt, accepted, out, dropped, served, lost>>
    BY <1>5, <2>1 DEF DrainFile, PopFile, queueVars
  <2> HIDE DEF o
  <2> QED BY <1>1, <1>5, <2>2, BeginMoves
<1>6. ASSUME NEW p \in Process, FileStep(p) \/ FileFails(p) PROVE Move
  BY <1>6, TruncateMoves, WriteMoves, SaveFailsMoves DEF FileStep, FileFails
<1>7. ASSUME NEW w \in Worker, PopBegins(w) \/ PopOne(w) \/ PopEnds(w) \/ PopFails(w) PROVE Move
  BY <1>7, PopMoves
<1> QED BY <1>2, <1>3, <1>4, <1>5, <1>6, <1>7 DEF Next

-----------------------------------------------------------------------------
(* Where the requests are.                                                 *)

LEMMA HeldIsTaken == \A r : r \in Held <=> \E w \in Worker : r \in Taken(w)
  BY DEF Held, Taken

LEMMA HeldIsTakenNext == \A r : r \in Held' <=> \E w \in Worker : r \in Taken(w)'
  BY DEF Held, Taken

LEMMA CutOne ==
    ASSUME NEW S, NEW s \in Seq(S), s # <<>>
    PROVE  /\ 1 \in 0..Len(s) /\ 1 \in 1..Len(s) /\ Head(s) \in S
           /\ Tail(s) = SubSeq(s, 1 + 1, Len(s))
           /\ SubSeq(s, 1, 1) = <<Head(s)>>
<1>1. 1 \in 0..Len(s) /\ 1 \in 1..Len(s) /\ Head(s) \in S /\ Head(s) = s[1]
  OBVIOUS
<1>2. Tail(s) = SubSeq(s, 1 + 1, Len(s))
  BY TailIsSubSeq
<1> DEFINE a == SubSeq(s, 1, 1)
           b == <<Head(s)>>
<1>3. a \in Seq(S) /\ Len(a) = 1 /\ a[1] = s[1]
  BY <1>1, Cut
<1>4. b \in Seq(S) /\ Len(b) = 1 /\ b[1] = s[1]
  BY <1>1
<1> HIDE DEF a, b
<1>5. a = b
  BY <1>3, <1>4, SeqEqual
<1> QED BY <1>1, <1>2, <1>5 DEF a, b

(* An ascending sequence cut in two has nothing in both parts.             *)
LEMMA CutAscending ==
    ASSUME NEW s \in Seq(Nat), Ascending(s), NEW n \in 0..Len(s)
    PROVE  LET a == SubSeq(s, 1, n)
               b == SubSeq(s, n + 1, Len(s))
           IN  /\ ToSet(a) \cup ToSet(b) = ToSet(s)
               /\ ToSet(a) \cap ToSet(b) = {}
               /\ Ascending(b)
<1> DEFINE a == SubSeq(s, 1, n)
           b == SubSeq(s, n + 1, Len(s))
<1>1. /\ DOMAIN a = 1..n /\ \A i \in 1..n : a[i] = s[i]
      /\ DOMAIN b = 1..(Len(s) - n) /\ Len(b) = Len(s) - n
      /\ \A i \in 1..(Len(s) - n) : b[i] = s[i + n]
      /\ DOMAIN s = 1..Len(s) /\ Len(s) \in Nat
  BY Cut
<1> HIDE DEF a, b
<1>2. \A i \in 1..(Len(s) - n) : i + n \in (n + 1)..Len(s)
  BY <1>1
<1>3. \A j \in (n + 1)..Len(s) : j - n \in 1..(Len(s) - n) /\ (j - n) + n = j
  BY <1>1
<1>4. \A r : r \in ToSet(b) <=> \E j \in (n + 1)..Len(s) : r = s[j]
  <2>1. ASSUME NEW i \in 1..(Len(s) - n) PROVE \E j \in (n + 1)..Len(s) : b[i] = s[j]
    BY <1>1, <1>2
  <2>2. ASSUME NEW j \in (n + 1)..Len(s) PROVE \E i \in 1..(Len(s) - n) : b[i] = s[j]
    <3>1. j - n \in 1..(Len(s) - n) /\ b[j - n] = s[(j - n) + n] /\ (j - n) + n = j
      BY <1>1, <1>3
    <3> QED BY <3>1
  <2>3. \A r : r \in ToSet(b) <=> \E i \in 1..(Len(s) - n) : r = b[i]
    BY <1>1 DEF ToSet
  <2>4. ASSUME NEW r \in ToSet(b) PROVE \E j \in (n + 1)..Len(s) : r = s[j]
    <3>1. PICK i \in 1..(Len(s) - n) : r = b[i]
      BY <2>3
    <3> QED BY <2>1, <3>1
  <2>5. ASSUME NEW j \in (n + 1)..Len(s) PROVE s[j] \in ToSet(b)
    <3>1. PICK i \in 1..(Len(s) - n) : b[i] = s[j]
      BY <2>2
    <3> QED BY <2>3, <3>1
  <2> QED BY <2>4, <2>5
<1>5. \A r : r \in ToSet(a) <=> \E i \in 1..n : r = s[i]
  BY <1>1 DEF ToSet
<1>6. ToSet(a) \cup ToSet(b) = ToSet(s)
  <2>1. \A r : r \in ToSet(s) <=> \E i \in 1..Len(s) : r = s[i]
    BY <1>1 DEF ToSet
  <2>2. 1..Len(s) = (1..n) \cup ((n + 1)..Len(s))
    BY <1>1
  <2> QED BY <1>4, <1>5, <2>1, <2>2
<1>7. ToSet(a) \cap ToSet(b) = {}
  <2> SUFFICES ASSUME NEW i \in 1..n, NEW j \in (n + 1)..Len(s) PROVE s[i] # s[j]
    BY <1>4, <1>5
  <2>1. i < j /\ i \in 1..Len(s) /\ j \in 1..Len(s)
    BY <1>1
  <2>2. s[i] < s[j] /\ s[i] \in Nat /\ s[j] \in Nat
    BY <2>1 DEF Ascending
  <2> QED BY <2>2
<1>8. Ascending(b)
  <2> SUFFICES ASSUME NEW i \in 1..(Len(s) - n), NEW j \in 1..(Len(s) - n), i < j PROVE b[i] < b[j]
    BY <1>1 DEF Ascending
  <2>1. i + n \in 1..Len(s) /\ j + n \in 1..Len(s) /\ i + n < j + n
    BY <1>1
  <2> QED BY <1>1, <2>1 DEF Ascending
<1> QED BY <1>6, <1>7, <1>8 DEF a, b

LEMMA AppendAscending ==
    ASSUME NEW s \in Seq(Nat), Ascending(s), NEW r \in Nat, \A q \in ToSet(s) : q < r
    PROVE  Ascending(Append(s, r))
<1> DEFINE t == Append(s, r)
<1>1. Len(t) = Len(s) + 1 /\ (\A i \in 1..Len(s) : t[i] = s[i]) /\ t[Len(s) + 1] = r /\ Len(s) \in Nat
  OBVIOUS
<1>2. \A i \in 1..Len(s) : s[i] < r
  BY DEF ToSet
<1> HIDE DEF t
<1>3. ASSUME NEW i \in 1..(Len(s) + 1), NEW j \in 1..(Len(s) + 1), i < j PROVE t[i] < t[j]
  <2>1. i \in 1..Len(s) /\ (j \in 1..Len(s) \/ j = Len(s) + 1)
    BY <1>1, <1>3
  <2> QED BY <1>1, <1>2, <1>3, <2>1 DEF Ascending
<1> QED BY <1>1, <1>3 DEF Ascending, t

LEMMA HeadAscending ==
    ASSUME NEW s \in Seq(Nat), Ascending(s), s # <<>>
    PROVE  /\ ToSet(s) = {Head(s)} \cup ToSet(Tail(s))
           /\ Head(s) \notin ToSet(Tail(s))
           /\ Ascending(Tail(s))
<1>1. 1 \in 0..Len(s) /\ Tail(s) = SubSeq(s, 1 + 1, Len(s)) /\ SubSeq(s, 1, 1) = <<Head(s)>>
  BY CutOne
<1>2. ToSet(<<Head(s)>>) = {Head(s)}
  BY DEF ToSet
<1> DEFINE a == SubSeq(s, 1, 1)
           b == SubSeq(s, 1 + 1, Len(s))
<1>3. ToSet(a) \cup ToSet(b) = ToSet(s) /\ ToSet(a) \cap ToSet(b) = {} /\ Ascending(b)
  BY <1>1, CutAscending
<1>4. ToSet(a) = {Head(s)} /\ b = Tail(s)
  BY <1>1, <1>2
<1> HIDE DEF a, b
<1> QED BY <1>3, <1>4

LEMMA WaitingNat == ReqTypeOK => Waiting \in Seq(Nat) /\ ToSet(Waiting) \subseteq Requests
<1> SUFFICES ASSUME ReqTypeOK PROVE Waiting \in Seq(Nat) /\ ToSet(Waiting) \subseteq Requests
  OBVIOUS
<1>1. Waiting \in Seq(Requests) /\ Requests \subseteq Nat
  BY WaitingType DEF Requests
<1>2. Waiting \in Seq(Nat)
  <2>1. /\ Len(Waiting) \in Nat /\ Waiting = [i \in 1..Len(Waiting) |-> Waiting[i]]
        /\ \A i \in 1..Len(Waiting) : Waiting[i] \in Requests
    BY <1>1
  <2>2. Waiting \in [1..Len(Waiting) -> Nat]
    BY <1>1, <2>1
  <2> QED BY <2>1, <2>2
<1> QED BY <1>1, <1>2, ToSetIn

LEMMA PlaceStep ==
    ASSUME ReqTypeOK, PlaceInv, ~broken, ReqTypeOK', Move
    PROVE  PlaceInv'
<1> DEFINE W == ToSet(Waiting)
<1>1. /\ accepted = W \cup Held \cup served \cup dropped \cup lost
      /\ W \cap (Held \cup served \cup dropped \cup lost) = {}
      /\ Held \cap (served \cup dropped \cup lost) = {}
      /\ served \cap (dropped \cup lost) = {}
      /\ dropped \cap lost = {}
  BY DEF PlaceInv
<1>2. Ascending(Waiting) /\ \A v, w \in Worker : v # w => Taken(v) \cap Taken(w) = {}
  BY DEF PlaceInv
<1>3. Waiting \in Seq(Nat) /\ W \subseteq Requests /\ Requests \subseteq Nat
  BY WaitingNat DEF Requests
<1>4. SameHolders => Held' = Held /\ \A v, w \in Worker : v # w => Taken(v)' \cap Taken(w)' = {}
  <2>1. SameHolders => \A r : r \in Held' <=> r \in Held
    BY HeldIsTaken, HeldIsTakenNext DEF SameHolders
  <2> QED BY <1>2, <2>1 DEF SameHolders
<1> HIDE DEF W
<1>5. CASE Stay
  <2>1. W' = W
    BY <1>5 DEF Stay, W
  <2> QED BY <1>1, <1>2, <1>4, <1>5, <2>1 DEF Stay, PlaceInv, W
<1>6. CASE PutOne
  <2>1. PICK r \in Requests' :
        /\ \A q \in accepted : q < r
        /\ accepted' = accepted \cup {r}
        /\ Waiting' = Append(Waiting, r)
        /\ UNCHANGED <<out, dropped, served, lost>> /\ SameHolders
    BY <1>6 DEF PutOne
  <2>2. r \in Nat /\ r \notin accepted
    <3>1. r \in Nat
      BY DEF Requests
    <3> QED BY <2>1, <3>1
  <2>3. W' = W \cup {r}
    BY <1>3, <2>1, <2>2, ToSetAppend DEF W
  <2>4. Ascending(Waiting)'
    <3>1. \A q \in ToSet(Waiting) : q < r
      BY <1>1, <2>1 DEF W
    <3>2. Ascending(Append(Waiting, r))
      BY <1>2, <1>3, <2>2, <3>1, AppendAscending
    <3> QED BY <2>1, <3>2 DEF Ascending
  <2>5. /\ accepted' = W' \cup Held' \cup served' \cup dropped' \cup lost'
        /\ W' \cap (Held' \cup served' \cup dropped' \cup lost') = {}
        /\ Held' \cap (served' \cup dropped' \cup lost') = {}
        /\ served' \cap (dropped' \cup lost') = {}
        /\ dropped' \cap lost' = {}
    BY <1>1, <1>4, <2>1, <2>2, <2>3
  <2> QED BY <1>4, <2>1, <2>4, <2>5 DEF PlaceInv, W
<1>7. CASE ServeSome
  <2>1. PICK n \in 1..Len(Waiting) :
        /\ served' = served \cup ToSet(SubSeq(Waiting, 1, n))
        /\ Waiting' = SubSeq(Waiting, n + 1, Len(Waiting))
        /\ UNCHANGED <<accepted, dropped, lost>> /\ SameHolders
    BY <1>7 DEF ServeSome
  <2> DEFINE T == ToSet(SubSeq(Waiting, 1, n))
  <2>2. n \in 0..Len(Waiting)
    BY <1>3
  <2>3. W' \cup T = W /\ W' \cap T = {} /\ Ascending(SubSeq(Waiting, n + 1, Len(Waiting)))
    BY <1>2, <1>3, <2>1, <2>2, CutAscending DEF W
  <2>4. Ascending(Waiting)'
    BY <2>1, <2>3 DEF Ascending
  <2> HIDE DEF T
  <2>5. served' = served \cup T
    BY <2>1 DEF T
  <2>6. /\ accepted' = W' \cup Held' \cup served' \cup dropped' \cup lost'
        /\ W' \cap (Held' \cup served' \cup dropped' \cup lost') = {}
        /\ Held' \cap (served' \cup dropped' \cup lost') = {}
        /\ served' \cap (dropped' \cup lost') = {}
        /\ dropped' \cap lost' = {}
    BY <1>1, <1>4, <2>1, <2>3, <2>5
  <2> QED BY <1>4, <2>1, <2>4, <2>6 DEF PlaceInv, W
<1>8. CASE DropAll
  <2>1. W' = {} /\ dropped' = dropped \cup W /\ Ascending(Waiting)'
    BY <1>8, ToSetEmpty DEF DropAll, W, Ascending
  <2>2. /\ accepted' = W' \cup Held' \cup served' \cup dropped' \cup lost'
        /\ W' \cap (Held' \cup served' \cup dropped' \cup lost') = {}
        /\ Held' \cap (served' \cup dropped' \cup lost') = {}
        /\ served' \cap (dropped' \cup lost') = {}
        /\ dropped' \cap lost' = {}
    BY <1>1, <1>4, <1>8, <2>1 DEF DropAll
  <2> QED BY <1>4, <1>8, <2>1, <2>2 DEF DropAll, PlaceInv, W
<1>9. ASSUME NEW w \in Worker, HoldOne(w) PROVE PlaceInv'
  <2> DEFINE h == Head(Waiting)
  <2>1. W = {h} \cup W' /\ h \notin W' /\ Ascending(Tail(Waiting))
    BY <1>2, <1>3, <1>9, HeadAscending DEF HoldOne, W
  <2>2. /\ Taken(w)' = Taken(w) \cup {h}
        /\ \A v \in Worker : v # w => Taken(v)' = Taken(v)
        /\ UNCHANGED <<accepted, dropped, served, lost>>
    BY <1>9 DEF HoldOne
  <2>3. Ascending(Waiting)'
    BY <1>9, <2>1 DEF HoldOne, Ascending
  <2> HIDE DEF h
  <2>4. Held' = Held \cup {h}
    <3>1. \A r : r \in Held' <=> r \in Held \/ r = h
      BY <2>2, HeldIsTaken, HeldIsTakenNext
    <3> QED BY <3>1
  <2>5. \A u, v \in Worker : u # v => Taken(u)' \cap Taken(v)' = {}
    <3>1. \A v \in Worker : h \notin Taken(v)
      BY <1>1, <2>1, HeldIsTaken
    <3> QED BY <1>2, <2>2, <3>1
  <2>6. /\ accepted' = W' \cup Held' \cup served' \cup dropped' \cup lost'
        /\ W' \cap (Held' \cup served' \cup dropped' \cup lost') = {}
        /\ Held' \cap (served' \cup dropped' \cup lost') = {}
        /\ served' \cap (dropped' \cup lost') = {}
        /\ dropped' \cap lost' = {}
    BY <1>1, <2>1, <2>2, <2>4
  <2> QED BY <2>3, <2>5, <2>6 DEF PlaceInv, W
<1>10. ASSUME NEW w \in Worker, Settle(w) PROVE PlaceInv'
  <2>1. W' = W /\ Ascending(Waiting)'
    BY <1>2, <1>10 DEF Settle, W, Ascending
  <2>2. Held = Held' \cup Taken(w) /\ Held' \cap Taken(w) = {}
    <3>1. \A r : r \in Held' <=> \E v \in Worker : v # w /\ r \in Taken(v)
      BY <1>10, HeldIsTakenNext DEF Settle
    <3>2. \A r : r \in Held' => r \in Held /\ r \notin Taken(w)
      BY <1>2, <3>1, HeldIsTaken
    <3>3. \A r : r \in Held => r \in Held' \/ r \in Taken(w)
      BY <3>1, HeldIsTaken
    <3>4. \A r \in Taken(w) : r \in Held
      BY HeldIsTaken
    <3> QED BY <3>2, <3>3, <3>4
  <2>3. \A u, v \in Worker : u # v => Taken(u)' \cap Taken(v)' = {}
    BY <1>2, <1>10 DEF Settle
  <2>4. /\ accepted' = W' \cup Held' \cup served' \cup dropped' \cup lost'
        /\ W' \cap (Held' \cup served' \cup dropped' \cup lost') = {}
        /\ Held' \cap (served' \cup dropped' \cup lost') = {}
        /\ served' \cap (dropped' \cup lost') = {}
        /\ dropped' \cap lost' = {}
    BY <1>1, <1>10, <2>1, <2>2 DEF Settle
  <2> QED BY <2>1, <2>3, <2>4 DEF PlaceInv, W
<1> QED BY <1>5, <1>6, <1>7, <1>8, <1>9, <1>10 DEF Move

-----------------------------------------------------------------------------
LEMMA ReqInitInv == Init => ReqInv
<1> SUFFICES ASSUME Init PROVE ReqInv
  OBVIOUS
<1>1. ReqTypeOK
  BY ReqTypeInit
<1>2. \A p \in Process : op[p] = Idle /\ op[p].step = "idle"
  BY DEF Init, Idle
<1>3. BackendInv /\ FileInv
  BY <1>2 DEF Init, BackendInv, FileInv
<1>4. Waiting = <<>>
  BY <1>1, <1>2, WaitingIsRemaining, RemainingIsItems DEF Init
<1>5. \A w \in Worker : Taken(w) = {}
  BY <1>2 DEF Taken, Process
<1>6. Held = {}
  BY <1>5, HeldIsTaken
<1>7. PlaceInv
  BY <1>4, <1>5, <1>6, ToSetEmpty DEF Init, PlaceInv, Ascending
<1> QED BY <1>1, <1>3, <1>7 DEF ReqInv

LEMMA StaysBroken == ReqTypeOK /\ [Next]_vars /\ ~broken' => ~broken
  BY DEF Next, vars, history, QueueEnqueue, EnqueueServer, EnqueueFile, QueueClear, ClearRedis,
         ClearFile, ListKafka, DrainFile, PopFile, Lock, PopBegins, PopOne, PopEnds, PopFails,
         FileStep, Truncate, WriteFile, FileFails, SaveFails, ReqTypeOK

LEMMA ReqStepInv == ReqInv /\ [Next]_vars => ReqInv'
<1> SUFFICES ASSUME ReqInv, [Next]_vars PROVE ReqInv'
  OBVIOUS
<1>1. ReqTypeOK' /\ BackendInv' /\ FileInv'
  BY ReqTypeStep, BackendStep, FileStepInv DEF ReqInv
<1>2. CASE broken'
  BY <1>1, <1>2 DEF ReqInv, PlaceInv
<1>3. CASE ~broken'
  BY <1>1, <1>3, StaysBroken, StepMoves, PlaceStep DEF ReqInv
<1> QED BY <1>2, <1>3

(* Every kind of request queue keeps its types, whatever overlaps, fails or
   is torn; offsets stay within the topic.                                 *)
THEOREM RequestTypeCorrect == Spec => []TypeOK
<1>1. ReqInv => TypeOK
  <2> SUFFICES ASSUME ReqInv PROVE TypeOK
    OBVIOUS
  <2> USE DEF ReqInv
  <2>1. ToSet(items) \subseteq Requests /\ ToSet(out) \subseteq Requests
    BY ToSetIn DEF ReqTypeOK
  <2>2. ASSUME NEW p \in Process
        PROVE  /\ op[p].step \in {"idle", "truncate", "write", "pop"}
               /\ ToSet(op[p].old) \cup ToSet(op[p].new) \cup ToSet(op[p].take) \subseteq Requests
    <3>1. op[p] \in Op
      BY DEF ReqTypeOK
    <3>2. /\ op[p].step \in {"idle", "truncate", "write", "pop"}
          /\ op[p].old \in Seq(Requests) /\ op[p].new \in Seq(Requests)
          /\ op[p].take \in Seq(Requests)
      BY <3>1 DEF Op
    <3>3. /\ ToSet(op[p].old) \subseteq Requests /\ ToSet(op[p].new) \subseteq Requests
          /\ ToSet(op[p].take) \subseteq Requests
      BY <3>2, ToSetIn
    <3> QED BY <3>2, <3>3
  <2>3. accepted \cup dropped \cup served \cup lost \subseteq Requests
    BY DEF ReqTypeOK
  <2> QED BY <2>1, <2>2, <2>3 DEF ReqTypeOK, TypeOK, Requests
<1> QED BY <1>1, ReqInitInv, ReqStepInv, PTL DEF Spec

(* With any number of workers and any faults: unless file operations overlap
   or a write fails half-way, each accepted request is in exactly one place. *)
THEOREM RequestsAreKept == Spec => []NoneLostOrRepeated
<1>1. ReqInv => NoneLostOrRepeated
  BY DEF ReqInv, PlaceInv, NoneLostOrRepeated, Places
<1> QED BY <1>1, ReqInitInv, ReqStepInv, PTL DEF Spec

(* Each step of the file, the Redis and the Kafka queue is a step of
   RequestFifo or leaves it alone.                                         *)
LEMMA MovesAreFifo == ReqInv /\ [Next]_vars => [Fifo!Next]_(Fifo!vars)
<1> SUFFICES ASSUME ReqInv, [Next]_vars PROVE [Fifo!Next]_(Fifo!vars)
  OBVIOUS
<1>1. CASE broken'
  BY <1>1 DEF Fifo!Next
<1>2. CASE ~broken'
  <2>1. ReqTypeOK' /\ BackendInv' /\ ~broken
    BY <1>2, ReqTypeStep, BackendStep, StaysBroken DEF ReqInv
  <2>2. broken' = broken
    BY <1>2, <2>1, ReqStepInv DEF ReqInv, ReqTypeOK
  <2>3. Move
    BY <1>2, <2>1, StepMoves
  <2>4. Waiting \in Seq(Requests)
    BY WaitingType DEF ReqInv
  <2>5. CASE Stay
    BY <2>2, <2>5 DEF Stay, Fifo!vars
  <2>6. CASE PutOne
    <3>1. PICK r \in Requests' :
          /\ \A q \in accepted : q < r
          /\ accepted' = accepted \cup {r}
          /\ Waiting' = Append(Waiting, r)
          /\ UNCHANGED <<out, dropped>>
      BY <2>6 DEF PutOne
    <3>2. r \in accepted' \ accepted
      <4>1. r \in Nat
        BY DEF Requests
      <4> QED BY <3>1, <4>1
    <3>3. Fifo!Put
      BY <2>2, <3>1, <3>2 DEF Fifo!Put
    <3> QED BY <3>3 DEF Fifo!Next
  <2>7. CASE ServeSome
    <3>1. Fifo!Take
      BY <2>2, <2>7 DEF ServeSome, Fifo!Take
    <3> QED BY <3>1 DEF Fifo!Next
  <2>8. CASE DropAll
    <3>1. ToSet(Waiting) = {Waiting[i] : i \in 1..Len(Waiting)}
      BY <2>4 DEF ToSet
    <3>2. Fifo!Clear
      BY <2>2, <2>8, <3>1 DEF DropAll, Fifo!Clear
    <3> QED BY <3>2 DEF Fifo!Next
  <2>9. ASSUME NEW w \in Worker, HoldOne(w) PROVE [Fifo!Next]_(Fifo!vars)
    <3>1. /\ 1 \in 1..Len(Waiting) /\ Tail(Waiting) = SubSeq(Waiting, 1 + 1, Len(Waiting))
          /\ SubSeq(Waiting, 1, 1) = <<Head(Waiting)>> /\ Head(Waiting) \in Requests
      BY <2>4, <2>9, CutOne DEF HoldOne
    <3>2. Append(out, Head(Waiting)) = out \o SubSeq(Waiting, 1, 1)
      BY <3>1, AppendIsConcat DEF ReqInv, ReqTypeOK
    <3>3. Fifo!Take
      BY <2>2, <2>9, <3>1, <3>2 DEF HoldOne, Fifo!Take
    <3> QED BY <3>3 DEF Fifo!Next
  <2>10. ASSUME NEW w \in Worker, Settle(w) PROVE [Fifo!Next]_(Fifo!vars)
    BY <2>2, <2>10 DEF Settle, Fifo!vars
  <2> QED BY <2>3, <2>5, <2>6, <2>7, <2>8, <2>9, <2>10 DEF Move
<1> QED BY <1>1, <1>2

(* The request queue implements RequestFifo for every backend: requests
   leave in the order of their arrival, each at most once.                 *)
THEOREM RequestsAreFifo == Spec => ImplementsFifo
<1>1. Init => Fifo!Init
  <2> SUFFICES ASSUME Init PROVE Fifo!Init
    OBVIOUS
  <2>1. Waiting = <<>>
    <3>1. \A p \in Process : op[p].step # "write"
      BY DEF Init, Idle
    <3> QED BY <3>1, WaitingIsRemaining, RemainingIsItems, ReqTypeInit DEF Init
  <2> QED BY <2>1 DEF Init, Fifo!Init
<1> QED BY <1>1, ReqInitInv, ReqStepInv, MovesAreFifo, PTL DEF Spec, ImplementsFifo, Fifo!Spec
=============================================================================
