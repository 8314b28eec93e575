----------------------------- MODULE RequestQueue -----------------------------
(***************************************************************************)
(* The request queue between the control-plane and a worker that has no    *)
(* build queue (BuildPopURL empty): internal/queue of both programs, the   *)
(* handlers /api/queue, and the pop at the start of Worker.Drain.  The     *)
(* control-plane enqueues, lists and clears; workers pop.                  *)
(*                                                                         *)
(* FileQueue holds a mutex, which orders the callers of ONE process; the   *)
(* control-plane and the workers are different processes on one file.  An  *)
(* operation reads the file, truncates it and writes it anew.  RedisQueue  *)
(* pops one element at a time, KafkaQueue reads one message at a time; an  *)
(* error on the way loses what was popped before it, because Drain returns *)
(* the error.  A request is abstracted to its number; List and Stats of    *)
(* the file and of Redis only read.                                        *)
(***************************************************************************)
EXTENDS Integers, Sequences, SequencesExt, FiniteSets

CONSTANTS
    Api,           \* the control-plane's process
    Worker,        \* the workers' processes
    Backends,      \* values of QUEUE_BACKEND
    BatchSizes,    \* values of BATCH_SIZE
    PeekMax,       \* messages one KafkaQueue.List returns at most (50)
    RequestBound,  \* bound: requests sent to the queue
    FaultBound     \* bound: calls that fail, processes that crash

ASSUME RequestQueueAssumption ==
    /\ Api \notin Worker
    /\ Backends \subseteq {"file", "redis", "kafka"}
    /\ BatchSizes \subseteq Nat
    /\ PeekMax \in Nat \ {0} /\ RequestBound \in Nat /\ FaultBound \in Nat

VARIABLES
    backend,    \* QUEUE_BACKEND, the same in both programs
    batch,      \* BATCH_SIZE of the workers
    items,      \* the file's list, the Redis list or the Kafka topic
    torn,       \* the file holds something that is not a JSON list
    popAt,      \* messages the consumer group refinery-pop has committed
    peekAt,     \* messages the consumer group refinery-peek has committed
    op,         \* a process's operation under way
    sent,       \* how many requests were sent to queueEnqueue
    faults,     \* how many faults have happened
    accepted, out, dropped,   \* history: see RequestFifo
    served,     \* history: requests a Drain went on with
    lost,       \* history: requests popped by a call that failed
    broken      \* history: file operations of two processes overlapped, or a
                \* write failed half-way

queueVars == <<items, torn, popAt, peekAt>>
history == <<accepted, out, dropped, served, lost, broken>>
vars == <<backend, batch, queueVars, op, sent, faults, history>>

Process == Worker \cup {Api}

(* An operation: its step, what it read, what it will write and what it
   has taken from the queue so far.                                        *)
Idle == [step |-> "idle", old |-> <<>>, new |-> <<>>, take |-> <<>>]

Fault == faults < FaultBound /\ faults' = faults + 1

-----------------------------------------------------------------------------
(* FileQueue.                                                              *)

(* The mutex of p's process is free; another process may be in the middle. *)
Lock(p) ==
    /\ backend = "file"
    /\ op[p].step = "idle"
    /\ broken' = (broken \/ \E q \in Process : op[q].step # "idle")

(* load: a missing and an empty file are the empty list; anything else that
   is not a list is an error, and the operation returns.                   *)
Load(p, new, take) ==
    /\ ~torn
    /\ op' = [op EXCEPT ![p] = [step |-> "truncate", old |-> items, new |-> new, take |-> take]]

EnqueueFile(p) ==
    /\ Lock(p)
    /\ Load(p, Append(items, sent + 1), <<>>)
    /\ sent' = sent + 1
    /\ UNCHANGED <<queueVars, accepted, out, dropped, served, lost>>

(* Clear does not load: it also mends a torn file.                         *)
ClearFile(p) ==
    /\ Lock(p)
    /\ op' = [op EXCEPT ![p] = [step |-> "truncate", old |-> items, new |-> <<>>, take |-> <<>>]]
    /\ UNCHANGED <<queueVars, sent, accepted, out, dropped, served, lost>>

(* Mutant of PopFile: the batch stays in the file.                         *)
PopFile_Keeps(p) ==
    LET n == IF batch <= 0 \/ batch > Len(items) THEN Len(items) ELSE batch IN
    /\ Lock(p)
    /\ Load(p, items, SubSeq(items, 1, n))
    /\ UNCHANGED <<queueVars, sent, accepted, out, dropped, served, lost>>

(* Pop: max <= 0 means everything.                                         *)
PopFile(p) ==
    LET n == IF batch <= 0 \/ batch > Len(items) THEN Len(items) ELSE batch IN
    /\ Lock(p)
    /\ Load(p, SubSeq(items, n + 1, Len(items)), SubSeq(items, 1, n))
    /\ UNCHANGED <<queueVars, sent, accepted, out, dropped, served, lost>>

(* save, first half: os.WriteFile opens the file with O_TRUNC.             *)
Truncate(p) ==
    /\ op[p].step = "truncate"
    /\ items' = <<>> /\ torn' = FALSE
    /\ op' = [op EXCEPT ![p].step = "write"]
    /\ UNCHANGED <<popAt, peekAt, sent, faults, history>>

(* The operation returns without an error: Pop gives its requests to Drain,
   Clear and Enqueue answer 200.  Recorded as long as broken is FALSE.     *)
Returns(p, o) ==
    IF broken THEN UNCHANGED <<accepted, out, dropped, served>> ELSE
    IF p \in Worker
    THEN /\ out' = out \o o.take
         /\ served' = served \cup ToSet(o.take)
         /\ UNCHANGED <<accepted, dropped>> ELSE
    IF o.new = <<>>
    THEN /\ dropped' = dropped \cup ToSet(o.old)
         /\ UNCHANGED <<accepted, out, served>>
    ELSE /\ accepted' = accepted \cup {Last(o.new)}
         /\ UNCHANGED <<out, dropped, served>>

(* save, second half.  Over what another process has written since the
   truncation, the shorter of the two may leave a tail of the longer one.  *)
WriteFile(p) ==
    /\ op[p].step = "write"
    /\ \/ items' = op[p].new /\ torn' = FALSE
       \/ (items # <<>> \/ torn) /\ items' = <<>> /\ torn' = TRUE
    /\ op' = [op EXCEPT ![p] = Idle]
    /\ Returns(p, op[p])
    /\ UNCHANGED <<popAt, peekAt, sent, faults, lost, broken>>

(* The directory or the file cannot be opened: nothing has changed.  The
   write fails or the process dies in it: the file is empty or torn.       *)
SaveFails(p) ==
    /\ Fault
    /\ \/ /\ op[p].step = "truncate"
          /\ UNCHANGED <<items, torn, broken>>
       \/ /\ op[p].step = "write"
          /\ items' = <<>> /\ torn' \in BOOLEAN
          /\ broken' = TRUE
    /\ op' = [op EXCEPT ![p] = Idle]
    /\ UNCHANGED <<popAt, peekAt, sent, accepted, out, dropped, served, lost>>

-----------------------------------------------------------------------------
(* RedisQueue and KafkaQueue: every call of the server is atomic.          *)

(* The requests no pop has removed yet.  A Redis list has only those.      *)
Remaining == SubSeq(items, popAt + 1, Len(items))

(* Mutant of EnqueueRedis: LPUSH.                                          *)
EnqueueRedis_LPush == backend = "redis" /\ items' = <<sent + 1>> \o items

(* RPUSH; a message at the end of the topic.                               *)
EnqueueRedis == backend = "redis" /\ items' = Append(items, sent + 1)

EnqueueKafka == backend = "kafka" /\ items' = Append(items, sent + 1)

EnqueueServer ==
    /\ EnqueueRedis \/ EnqueueKafka
    /\ sent' = sent + 1
    /\ accepted' = accepted \cup {sent + 1}
    /\ UNCHANGED <<op, torn, popAt, peekAt, out, dropped, served, lost, broken>>

(* Mutant of ClearRedis: a Kafka topic is emptied as well.                 *)
ClearRedis_Topic ==
    /\ backend \in {"redis", "kafka"}
    /\ items' = <<>>
    /\ dropped' = dropped \cup ToSet(items)
    /\ UNCHANGED <<op, torn, popAt, peekAt, sent, accepted, out, served, lost, broken>>

(* DEL; KafkaQueue.Clear only returns an error.                            *)
ClearRedis ==
    /\ backend = "redis"
    /\ items' = <<>>
    /\ dropped' = dropped \cup ToSet(items)
    /\ UNCHANGED <<op, torn, popAt, peekAt, sent, accepted, out, served, lost, broken>>

(* KafkaQueue.List reads with a group of its own, which commits what it
   reads: up to PeekMax messages, fewer if its 2 s are over.               *)
ListKafka ==
    /\ backend = "kafka"
    /\ peekAt' \in peekAt .. (IF peekAt + PeekMax < Len(items) THEN peekAt + PeekMax ELSE Len(items))
    /\ peekAt' # peekAt
    /\ UNCHANGED <<backend, batch, items, torn, popAt, op, sent, faults, history>>

(* Pop: max <= 0 means one.                                                *)
PopMax == IF batch <= 0 THEN 1 ELSE batch

(* Drain begins: the plan was loaded, nothing is popped before that.       *)
PopBegins(w) ==
    /\ backend # "file"
    /\ op[w].step = "idle"
    /\ op' = [op EXCEPT ![w].step = "pop"]
    /\ UNCHANGED <<backend, batch, queueVars, sent, faults, history>>

(* LPOP; ReadMessage, which commits the message it returns.                *)
PopRedis == backend = "redis" /\ items' = Tail(items) /\ UNCHANGED popAt

PopKafka == backend = "kafka" /\ popAt' = popAt + 1 /\ UNCHANGED items

PopOne(w) ==
    /\ op[w].step = "pop"
    /\ Len(op[w].take) < PopMax
    /\ Remaining # <<>>
    /\ PopRedis \/ PopKafka
    /\ out' = Append(out, Head(Remaining))
    /\ op' = [op EXCEPT ![w].take = Append(@, Head(Remaining))]
    /\ UNCHANGED <<backend, batch, torn, peekAt, sent, faults, accepted, dropped, served, lost, broken>>

(* Mutant of PopEnds: the list is not known to be empty (redis.Nil).       *)
PopEnds_Waits(w) ==
    /\ op[w].step = "pop"
    /\ Len(op[w].take) = PopMax
    /\ served' = served \cup ToSet(op[w].take)
    /\ op' = [op EXCEPT ![w] = Idle]
    /\ UNCHANGED <<backend, batch, queueVars, sent, faults, accepted, out, dropped, lost, broken>>

(* The batch is full, or Redis has no more: Drain goes on with it.  Kafka
   waits for the next message until the batch is full.                     *)
PopEnds(w) ==
    /\ op[w].step = "pop"
    /\ Len(op[w].take) = PopMax \/ (backend = "redis" /\ items = <<>>)
    /\ served' = served \cup ToSet(op[w].take)
    /\ op' = [op EXCEPT ![w] = Idle]
    /\ UNCHANGED <<backend, batch, queueVars, sent, faults, accepted, out, dropped, lost, broken>>

(* The worker's context is cancelled: KafkaQueue returns what it has, Redis
   an error.  Any other error: Drain returns, the requests are gone.       *)
PopFails(w) ==
    /\ Fault
    /\ op[w].step = "pop"
    /\ \/ backend = "kafka" /\ served' = served \cup ToSet(op[w].take) /\ UNCHANGED lost
       \/ lost' = lost \cup ToSet(op[w].take) /\ UNCHANGED served
    /\ op' = [op EXCEPT ![w] = Idle]
    /\ UNCHANGED <<backend, batch, queueVars, sent, accepted, out, dropped, broken>>

-----------------------------------------------------------------------------
(* The handlers.  A request without a package, and one of the wrong method,
   is refused and changes nothing.                                         *)

QueueEnqueue ==
    /\ sent < RequestBound
    /\ EnqueueServer \/ EnqueueFile(Api)
    /\ UNCHANGED <<backend, batch, faults>>

QueueClear ==
    /\ ClearRedis \/ ClearFile(Api)
    /\ UNCHANGED <<backend, batch, faults>>

DrainFile(w) == PopFile(w) /\ UNCHANGED <<backend, batch, faults>>

FileStep(p) ==
    /\ Truncate(p) \/ WriteFile(p)
    /\ UNCHANGED <<backend, batch>>

FileFails(p) == SaveFails(p) /\ UNCHANGED <<backend, batch>>

Init ==
    /\ backend \in Backends
    /\ batch \in BatchSizes
    /\ items = <<>> /\ torn = FALSE
    /\ popAt = 0 /\ peekAt = 0
    /\ op = [p \in Process |-> Idle]
    /\ sent = 0 /\ faults = 0
    /\ out = <<>>
    /\ accepted = {} /\ dropped = {} /\ served = {} /\ lost = {}
    /\ broken = FALSE

Next ==
    \/ QueueEnqueue \/ QueueClear \/ ListKafka
    \/ \E w \in Worker : DrainFile(w) \/ PopBegins(w) \/ PopOne(w) \/ PopEnds(w) \/ PopFails(w)
    \/ \E p \in Process : FileStep(p) \/ FileFails(p)

(* A worker drains at every tick of WORKER_AUTORUN_INTERVAL, and a call that
   has begun goes on.                                                      *)
Fairness ==
    /\ \A w \in Worker : /\ WF_vars(DrainFile(w)) /\ WF_vars(PopBegins(w))
                         /\ WF_vars(PopOne(w)) /\ WF_vars(PopEnds(w))
    /\ \A p \in Process : WF_vars(FileStep(p))

Spec == Init /\ [][Next]_vars /\ Fairness

-----------------------------------------------------------------------------
(* Properties.                                                             *)

Held == UNION {ToSet(op[w].take) : w \in {v \in Worker : op[v].step = "pop"}}

(* The requests that are in the queue.  While a process rewrites the file,
   its callers' queue is what that process has read.                       *)
Waiting ==
    LET writing == {p \in Process : op[p].step = "write"} IN
    IF writing # {} THEN op[CHOOSE p \in writing : TRUE].old ELSE Remaining

TypeOK ==
    /\ backend \in Backends /\ batch \in BatchSizes
    /\ ToSet(items) \subseteq 1..sent /\ torn \in BOOLEAN
    /\ popAt \in 0..Len(items) /\ peekAt \in 0..Len(items)
    /\ \A p \in Process : /\ op[p].step \in {"idle", "truncate", "write", "pop"}
                          /\ ToSet(op[p].old) \cup ToSet(op[p].new) \cup ToSet(op[p].take)
                                \subseteq 1..sent
    /\ sent \in 0..RequestBound /\ faults \in 0..FaultBound
    /\ ToSet(out) \subseteq 1..sent
    /\ accepted \cup dropped \cup served \cup lost \subseteq 1..sent
    /\ broken \in BOOLEAN

(* Every request that was accepted is at exactly one place: in the queue, in
   the hands of a pop, with a Drain, cleared, or lost by a pop that failed.
   No interleaving of the control-plane and the workers loses or repeats one
   as long as two processes do not work on the file at a time.             *)
Places(r) == (IF r \in ToSet(Waiting) THEN 1 ELSE 0) + (IF r \in Held THEN 1 ELSE 0)
             + (IF r \in served THEN 1 ELSE 0) + (IF r \in dropped THEN 1 ELSE 0)
             + (IF r \in lost THEN 1 ELSE 0)

NoneLostOrRepeated == broken \/ \A r \in accepted : Places(r) = 1

(* The three back ends implement the queue of RequestFifo: first in, first
   out, each request at most once, whatever fails on the way.  The file does
   so only until two processes overlap on it or a write fails half-way.    *)
Fifo == INSTANCE RequestFifo WITH waiting <- Waiting, accepted <- accepted, out <- out,
                                  dropped <- dropped, broken <- broken
ImplementsFifo == Fifo!Spec

(* A request in the file or the Redis list is not left there: a Drain gets
   it, it is cleared or a failing pop loses it.  Not so with Kafka, whose pop
   waits for a full batch and keeps what it has read.                      *)
EventuallyServed ==
    \A r \in 1..RequestBound :
        (r \in ToSet(Waiting) /\ backend # "kafka") ~> (r \in served \cup dropped \cup lost \/ broken)
=============================================================================
