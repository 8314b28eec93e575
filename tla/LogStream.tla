------------------------------ MODULE LogStream ------------------------------
(***************************************************************************)
(* The live log of one build: logStreamWriter in the worker                *)
(* (service/log_stream.go), the POST and GET handlers of                   *)
(* /api/logs/stream and the log hub in the control-plane (api/handlers.go, *)
(* api/log_hub.go), the log_chunks table (store/postgres.go) and the log   *)
(* viewer of the UI (ui/src/App.jsx).                                      *)
(*                                                                         *)
(* A stream is one run of the build: a lease may expire while its holder   *)
(* is still building, so two streams of one log may be open at a time.     *)
(* Every queue on the way is bounded and drops what does not fit: neither  *)
(* the container nor the ingesting handler ever waits for a reader.        *)
(* Lines are abstracted to their seq, chunks to their id, stream and seq.  *)
(***************************************************************************)
EXTENDS Integers, Sequences, FiniteSets, SequencesExt, Lists

CONSTANTS
    Stream,        \* runs of the build that stream a log
    Viewer,        \* open log viewers
    SendCap,       \* capacity of logStreamWriter.ch (256)
    ChanCap,       \* capacity of a subscriber's channel (256)
    Limit,         \* the most chunks one list request returns (200 or 500)
    LogChunkMax,   \* LOG_CHUNK_MAX
    TrimEvery,     \* trimEvery (50)
    Faults,        \* what may go wrong: see below
    LineBound,     \* bound: lines a stream emits
    ViewBound      \* bound: lists a viewer asks for

ASSUME LogStreamAssumption ==
    /\ SendCap \in Nat \ {0} /\ ChanCap \in Nat \ {0} /\ Limit \in Nat \ {0}
    /\ LogChunkMax \in Nat \ {0} /\ TrimEvery \in Nat \ {0}
    /\ Faults \subseteq {"stream", "trim", "list"}
    /\ LineBound \in Nat /\ ViewBound \in Nat

(* The faults: the connection of a stream breaks or an insert fails; a trim
   fails, which the handler ignores; a list fails, which the viewer takes
   for an empty one.                                                       *)

VARIABLES
    writer,     \* logStreamWriter of each stream: open, closing, closed
    seq,        \* its last sequence number
    sendQ,      \* its channel
    ingest,     \* the POST handler: step, the chunk in hand, the trim counter
    chunkOf,    \* every id handed out by the table: id -> its stream and seq
    stored,     \* ids of the rows in log_chunks
    socket,     \* a viewer's websocket: off, opening, listed, live, polling
    after,      \* the after of its handler
    inbox,      \* its channel in the hub
    sent,       \* the ids it has sent, since it was opened
    shown,      \* the ids whose content the viewer shows, or Whole
    cursor,     \* the viewer's logAfterRef
    asked,      \* the viewer's requests on their way to the handler
    answers,    \* the answers on their way back
    lists       \* how many lists the viewer has asked for

streamVars == <<writer, seq, sendQ>>
tableVars == <<ingest, chunkOf, stored>>
viewerVars == <<socket, after, sent, shown, cursor, asked, answers, lists>>
vars == <<streamVars, tableVars, inbox, viewerVars>>

Kind == {"load", "poll", "whole"}
Step == {"read", "put", "trim", "publish", "last", "final", "ended"}

-----------------------------------------------------------------------------
(* The worker.                                                             *)

(* emitChunk: a line that finds the channel full is dropped.               *)
Emit(s) ==
    /\ writer[s] = "open"
    /\ seq[s] < LineBound
    /\ seq' = [seq EXCEPT ![s] = @ + 1]
    /\ sendQ' = [sendQ EXCEPT ![s] = IF Len(@) < SendCap THEN Append(@, seq[s] + 1) ELSE @]
    /\ UNCHANGED <<writer, tableVars, inbox, viewerVars>>

(* Close: close the channel, then wait for the sending goroutine.          *)
CloseBegins(s) ==
    /\ writer[s] = "open"
    /\ writer' = [writer EXCEPT ![s] = "closing"]
    /\ UNCHANGED <<seq, sendQ, tableVars, inbox, viewerVars>>

(* Mutant of CloseReturns: a goroutine whose write failed is waited for.   *)
CloseReturns_Drained(s) ==
    /\ writer[s] = "closing"
    /\ sendQ[s] = <<>>
    /\ writer' = [writer EXCEPT ![s] = "closed"]
    /\ UNCHANGED <<seq, sendQ, tableVars, inbox, viewerVars>>

(* The goroutine has returned: its channel is drained or a write failed.
   Lines on their way to the handler count as still in the channel.        *)
CloseReturns(s) ==
    /\ writer[s] = "closing"
    /\ sendQ[s] = <<>> \/ ingest[s].step = "ended"
    /\ writer' = [writer EXCEPT ![s] = "closed"]
    /\ UNCHANGED <<seq, sendQ, tableVars, inbox, viewerVars>>

-----------------------------------------------------------------------------
(* The ingesting handler.                                                  *)

(* A line arrives and its INSERT draws an id.                              *)
PutBegins(s) ==
    /\ ingest[s].step = "read"
    /\ sendQ[s] # <<>>
    /\ sendQ' = [sendQ EXCEPT ![s] = Tail(@)]
    /\ chunkOf' = Append(chunkOf, <<s, Head(sendQ[s])>>)
    /\ ingest' = [ingest EXCEPT ![s].step = "put", ![s].id = Len(chunkOf) + 1]
    /\ UNCHANGED <<writer, seq, stored, inbox, viewerVars>>

(* Mutant of PutCommits: the trim comes one chunk late.                    *)
PutCommits_Late(s) ==
    LET n == ingest[s].count + 1 IN
    /\ ingest[s].step = "put"
    /\ stored' = stored \cup {ingest[s].id}
    /\ ingest' = [ingest EXCEPT ![s].step = IF n > TrimEvery THEN "trim" ELSE "publish",
                                ![s].count = IF n > TrimEvery THEN 0 ELSE n]
    /\ UNCHANGED <<streamVars, chunkOf, inbox, viewerVars>>

(* Mutant of PutCommits: chunks are trimmed only at the end of a stream.   *)
PutCommits_AtEnd(s) ==
    /\ ingest[s].step = "put"
    /\ stored' = stored \cup {ingest[s].id}
    /\ ingest' = [ingest EXCEPT ![s].step = "publish", ![s].count = 1]
    /\ UNCHANGED <<streamVars, chunkOf, inbox, viewerVars>>

(* PutLogChunk commits; every TrimEvery chunks it is followed by a trim.   *)
PutCommits(s) ==
    LET n == ingest[s].count + 1 IN
    /\ ingest[s].step = "put"
    /\ stored' = stored \cup {ingest[s].id}
    /\ ingest' = [ingest EXCEPT ![s].step = IF n >= TrimEvery THEN "trim" ELSE "publish",
                                ![s].count = IF n >= TrimEvery THEN 0 ELSE n]
    /\ UNCHANGED <<streamVars, chunkOf, inbox, viewerVars>>

(* The rows TrimLogChunks keeps: the cutoff is the id at OFFSET max, and
   only older rows are deleted.                                            *)
Kept(S) == {i \in S : Cardinality({j \in S : j > i}) <= LogChunkMax}

TrimLogChunks(s) ==
    /\ ingest[s].step \in {"trim", "final"}
    /\ stored' = Kept(stored) \/ ("trim" \in Faults /\ UNCHANGED stored)
    /\ ingest' = [ingest EXCEPT ![s].step = IF @ = "trim" THEN "publish" ELSE "ended"]
    /\ UNCHANGED <<streamVars, chunkOf, inbox, viewerVars>>

(* One subscriber's channel after publish.                                 *)
Published(q, i) == IF Len(q) < ChanCap THEN Append(q, i) ELSE q

Publish(s) ==
    /\ ingest[s].step \in {"publish", "last"}
    /\ inbox' = [v \in Viewer |-> IF socket[v] = "live" THEN Published(inbox[v], ingest[s].id)
                                                        ELSE inbox[v]]
    /\ ingest' = [ingest EXCEPT ![s].step = IF @ = "publish" THEN "read" ELSE "ended"]
    /\ UNCHANGED <<streamVars, chunkOf, stored, viewerVars>>

(* End of the body: a last trim, if chunks came in since the previous one. *)
StreamEnds(s) ==
    /\ ingest[s].step = "read"
    /\ writer[s] # "open" /\ sendQ[s] = <<>>
    /\ ingest' = [ingest EXCEPT ![s].step = IF ingest[s].count > 0 THEN "final" ELSE "ended"]
    /\ UNCHANGED <<streamVars, chunkOf, stored, inbox, viewerVars>>

(* The connection breaks or the insert fails: no last trim.  Statements on
   the request's context fail then, too, but the insert may have committed;
   a chunk that was inserted is still published.  The sending goroutine
   returns at its next write.                                              *)
StreamBreaks(s) ==
    /\ "stream" \in Faults
    /\ ingest[s].step \in {"read", "put", "trim", "final"}
    /\ \/ UNCHANGED stored
       \/ ingest[s].step = "put" /\ stored' = stored \cup {ingest[s].id}
    /\ ingest' = [ingest EXCEPT ![s].step = IF @ = "trim" THEN "last" ELSE "ended"]
    /\ UNCHANGED <<streamVars, chunkOf, inbox, viewerVars>>

-----------------------------------------------------------------------------
(* The viewer and its websocket handler.                                   *)

LastOr(q, i) == IF q = <<>> THEN i ELSE Last(q)

(* ORDER BY id.  ListLogChunks: the oldest Limit rows after i;
   TailLogChunks: the newest.                                              *)
ListLogChunks(i) == LET q == Sorted({j \in stored : j > i})
                    IN  SubSeq(q, 1, IF Len(q) < Limit THEN Len(q) ELSE Limit)
TailLogChunks == Sorted({i \in stored : Cardinality({j \in stored : j > i}) < Limit})

(* What a request for list q brings: q or, when it fails, nothing.         *)
Listed(q) == {q} \cup {r \in {<<>>} : "list" \in Faults}

(* In shown: the log of /api/logs, as a whole.                             *)
Whole == 0

(* A request: the viewer never waits for one before it goes on.            *)
Ask(v, kind, i) ==
    /\ lists[v] < ViewBound
    /\ asked' = [asked EXCEPT ![v] = @ \cup {[n |-> lists[v] + 1, kind |-> kind, after |-> i]}]
    /\ lists' = [lists EXCEPT ![v] = @ + 1]

(* Mutant of LoadLog: the content goes and the cursor stays.               *)
LoadLog_Stale(v) ==
    /\ Ask(v, "load", 0)
    /\ shown' \in {shown, [shown EXCEPT ![v] = <<>>]}
    /\ UNCHANGED <<streamVars, tableVars, inbox, socket, after, sent, cursor, answers>>

(* loadLog, at a click on "View log" or "Watch logs" or when the build's
   status changes, with the websocket open or not: the cursor is reset and,
   unless the content is preserved, what is shown; the newest chunks are
   asked for.                                                              *)
LoadLog(v) ==
    /\ Ask(v, "load", 0)
    /\ cursor' = [cursor EXCEPT ![v] = 0]
    /\ shown' \in {shown, [shown EXCEPT ![v] = <<>>]}
    /\ UNCHANGED <<streamVars, tableVars, inbox, socket, after, sent, answers>>

(* pollLogChunks, the fallback when the websocket fails, every 3 s.        *)
PollLogChunks(v) ==
    /\ socket[v] = "polling"
    /\ Ask(v, "poll", cursor[v])
    /\ UNCHANGED <<streamVars, tableVars, inbox, socket, after, sent, shown, cursor, answers>>

(* What a request may bring; /api/logs has a log once a build has ended.   *)
Results(r) ==
    IF r.kind = "whole" THEN {<<Whole>>, <<>>}
    ELSE Listed(IF r.kind = "load" THEN TailLogChunks ELSE ListLogChunks(r.after))

(* The control-plane answers, and goes on.                                 *)
Answer(v, r) ==
    /\ r \in asked[v]
    /\ asked' = [asked EXCEPT ![v] = @ \ {r}]
    /\ \E q \in Results(r) :
          answers' = [answers EXCEPT ![v] = @ \cup {[n |-> r.n, kind |-> r.kind, list |-> q]}]
    /\ UNCHANGED <<streamVars, tableVars, inbox, socket, after, sent, shown, cursor, lists>>

(* The answer arrives, in whatever order: a load replaces what is shown, a
   poll is appended, and the cursor follows.  A load that brings nothing
   asks for the whole log, which replaces what is shown and leaves the
   cursor alone.  The load of a viewer that watches then opens a websocket,
   from the cursor on.                                                     *)
Arrive(v, a) ==
    LET again == a.kind = "load" /\ a.list = <<>> IN
    /\ a \in answers[v]
    /\ answers' = [answers EXCEPT ![v] = @ \ {a}]
    /\ shown' = [shown EXCEPT ![v] = IF a.list = <<>> THEN @
                                     ELSE IF a.kind = "poll" THEN @ \o a.list ELSE a.list]
    /\ cursor' = [cursor EXCEPT ![v] = IF a.kind = "whole" THEN @ ELSE LastOr(a.list, @)]
    /\ asked' = [asked EXCEPT ![v] =
                    @ \cup {r \in {[n |-> a.n, kind |-> "whole", after |-> 0]} : again}]
    /\ \/ UNCHANGED <<socket, after>>
       \/ /\ socket[v] = "off" /\ a.kind # "poll" /\ ~again
          /\ socket' = [socket EXCEPT ![v] = "opening"]
          /\ after' = [after EXCEPT ![v] = cursor'[v]]
    /\ UNCHANGED <<streamVars, tableVars, inbox, sent, lists>>

(* logsStream GET: first the chunks after the one asked for; a list that
   fails is skipped.                                                       *)
OpenStream(v) ==
    /\ socket[v] = "opening"
    /\ socket' = [socket EXCEPT ![v] = "listed"]
    /\ \E q \in Listed(ListLogChunks(after[v])) :
          /\ after' = [after EXCEPT ![v] = LastOr(q, @)]
          /\ sent' = [sent EXCEPT ![v] = q]
          /\ shown' = [shown EXCEPT ![v] = @ \o q]
          /\ cursor' = [cursor EXCEPT ![v] = LastOr(q, @)]
    /\ UNCHANGED <<streamVars, tableVars, inbox, asked, answers, lists>>

Subscribe(v) ==
    /\ socket[v] = "listed"
    /\ socket' = [socket EXCEPT ![v] = "live"]
    /\ inbox' = [inbox EXCEPT ![v] = <<>>]
    /\ UNCHANGED <<streamVars, tableVars, after, sent, shown, cursor, asked, answers, lists>>

(* Mutant of IsNew: the list and the live chunks may overlap.              *)
IsNew_Always(v, i) == TRUE

IsNew(v, i) == i > after[v]

(* A chunk from the channel: skipped, or sent and shown.                   *)
Deliver(v) ==
    LET i == Head(inbox[v]) IN
    /\ socket[v] = "live"
    /\ inbox[v] # <<>>
    /\ inbox' = [inbox EXCEPT ![v] = Tail(@)]
    /\ \/ /\ IsNew(v, i)
          /\ sent' = [sent EXCEPT ![v] = Append(@, i)]
          /\ shown' = [shown EXCEPT ![v] = Append(@, i)]
          /\ cursor' = [cursor EXCEPT ![v] = i]
       \/ /\ ~IsNew(v, i)
          /\ UNCHANGED <<sent, shown, cursor>>
    /\ UNCHANGED <<streamVars, tableVars, socket, after, asked, answers, lists>>

(* The websocket closes: the viewer polls, or no longer watches.  The
   handler notices at its next send and unsubscribes; what is left in its
   channel reaches nobody.                                                 *)
Disconnect(v) ==
    /\ socket[v] # "off"
    /\ socket' \in {[socket EXCEPT ![v] = k] : k \in {"off", "polling"} \ {socket[v]}}
    /\ inbox' = [inbox EXCEPT ![v] = <<>>]
    /\ sent' = [sent EXCEPT ![v] = <<>>]
    /\ UNCHANGED <<streamVars, tableVars, after, shown, cursor, asked, answers, lists>>

-----------------------------------------------------------------------------
Init ==
    /\ writer = [s \in Stream |-> "open"]
    /\ seq = [s \in Stream |-> 0]
    /\ sendQ = [s \in Stream |-> <<>>]
    /\ ingest = [s \in Stream |-> [step |-> "read", id |-> 0, count |-> 0]]
    /\ chunkOf = <<>>
    /\ stored = {}
    /\ socket = [v \in Viewer |-> "off"]
    /\ after = [v \in Viewer |-> 0]
    /\ inbox = [v \in Viewer |-> <<>>]
    /\ sent = [v \in Viewer |-> <<>>]
    /\ shown = [v \in Viewer |-> <<>>]
    /\ cursor = [v \in Viewer |-> 0]
    /\ asked = [v \in Viewer |-> {}]
    /\ answers = [v \in Viewer |-> {}]
    /\ lists = [v \in Viewer |-> 0]

IngestStep(s) ==
    \/ PutBegins(s) \/ PutCommits(s) \/ TrimLogChunks(s) \/ Publish(s) \/ StreamEnds(s)
    \/ CloseReturns(s)

ViewerStep(v) ==
    \/ LoadLog(v) \/ PollLogChunks(v) \/ OpenStream(v) \/ Subscribe(v) \/ Deliver(v)
    \/ Disconnect(v)
    \/ (\E r \in asked[v] : Answer(v, r)) \/ (\E a \in answers[v] : Arrive(v, a))

Next ==
    \/ \E s \in Stream : Emit(s) \/ CloseBegins(s) \/ IngestStep(s) \/ StreamBreaks(s)
    \/ \E v \in Viewer : ViewerStep(v)

Spec == Init /\ [][Next]_vars

(* The handler keeps reading and the container ends; viewers owe nothing.  *)
FairSpec == Spec /\ \A s \in Stream : WF_vars(IngestStep(s)) /\ WF_vars(CloseBegins(s))

-----------------------------------------------------------------------------
(* Properties.                                                             *)

(* Type invariant.                                                         *)
TypeOK ==
    /\ writer \in [Stream -> {"open", "closing", "closed"}]
    /\ seq \in [Stream -> 0..LineBound]
    /\ \A s \in Stream : sendQ[s] \in Seq(1..LineBound) /\ Len(sendQ[s]) <= SendCap
    /\ ingest \in [Stream -> [step : Step, id : 0..Len(chunkOf), count : 0..(TrimEvery - 1)]]
    /\ chunkOf \in Seq(Stream \X (1..LineBound))
    /\ stored \subseteq DOMAIN chunkOf
    /\ socket \in [Viewer -> {"off", "opening", "listed", "live", "polling"}]
    /\ after \in [Viewer -> 0..Len(chunkOf)]
    /\ cursor \in [Viewer -> 0..Len(chunkOf)]
    /\ \A v \in Viewer : /\ inbox[v] \in Seq(DOMAIN chunkOf) /\ Len(inbox[v]) <= ChanCap
                         /\ sent[v] \in Seq(DOMAIN chunkOf)
                         /\ shown[v] \in Seq(DOMAIN chunkOf \cup {Whole})
                         /\ \A r \in asked[v] : r.kind \in Kind /\ r.n <= lists[v]
                         /\ \A a \in answers[v] : a.kind \in Kind /\ a.n <= lists[v]
    /\ lists \in [Viewer -> 0..ViewBound]

(* The lines of one run reach a websocket in the order the container wrote
   them and none of them twice, although lines are dropped at every queue,
   backlog and live chunks overlap, and another run streams at the same
   time.                                                                   *)
RunInOrder ==
    \A v \in Viewer : \A m, n \in DOMAIN sent[v] :
        LET a == chunkOf[sent[v][m]]
            b == chunkOf[sent[v][n]]
        IN  m < n /\ a[1] = b[1] => a[2] < b[2]

(* The viewer goes on where what it shows ends: unless it starts over, the
   point from which it polls or reconnects is the last chunk it shows, or
   the whole log is shown in its place, whatever loads, polls and live
   chunks arrive in whatever order.  So no chunk is skipped between what is
   shown and what is asked for next.                                       *)
ResumesWhereShown ==
    \A v \in Viewer : cursor[v] # 0 =>
        shown[v] # <<>> /\ Last(shown[v]) \in {cursor[v], Whole}

(* The table is bounded by LOG_CHUNK_MAX, the one row the trim leaves over,
   and what each run may add before it trims, although a run whose
   connection breaks leaves its chunks behind; trims that fail undo it.    *)
TableBounded ==
    Cardinality(stored) <= LogChunkMax + 1 + TrimEvery * Cardinality(Stream)

(* Closing the log of a build ends, whatever happens to the connection: the
   goroutine of the build is not held up by its log.                       *)
CloseEnds == \A s \in Stream : writer[s] = "closing" ~> writer[s] = "closed"
=============================================================================
