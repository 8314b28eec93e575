----------------------------- MODULE RequestFifo -----------------------------
(***************************************************************************)
(* What a request queue promises its users (queue.Backend in               *)
(* go-control-plane/internal/queue/queue.go and its copy in the worker):   *)
(* requests leave in the order in which they were accepted, each at most   *)
(* once, and none disappears except by a clear.  A queue may give the      *)
(* promise up for good: then it is broken, and may do anything.            *)
(***************************************************************************)
EXTENDS Integers, Sequences, FiniteSets

VARIABLES
    waiting,    \* the requests in the queue, oldest first
    accepted,   \* the requests accepted so far, numbered in the order of arrival
    out,        \* the requests removed by a pop, in the order of removal
    dropped,    \* the requests removed by a clear
    broken      \* the promise was given up

vars == <<waiting, accepted, out, dropped, broken>>

Init ==
    /\ waiting = <<>> /\ out = <<>>
    /\ accepted = {} /\ dropped = {}
    /\ broken = FALSE

Put ==
    /\ \E r \in accepted' \ accepted :
          /\ \A q \in accepted : q < r
          /\ accepted' = accepted \cup {r}
          /\ waiting' = Append(waiting, r)
    /\ UNCHANGED <<out, dropped, broken>>

Take ==
    /\ \E n \in 1..Len(waiting) :
          /\ out' = out \o SubSeq(waiting, 1, n)
          /\ waiting' = SubSeq(waiting, n + 1, Len(waiting))
    /\ UNCHANGED <<accepted, dropped, broken>>

Clear ==
    /\ waiting' = <<>>
    /\ dropped' = dropped \cup {waiting[i] : i \in 1..Len(waiting)}
    /\ UNCHANGED <<accepted, out, broken>>

Next == Put \/ Take \/ Clear \/ broken'

Spec == Init /\ [][Next]_vars
==============================================================================
