------------------------------- MODULE LossyFifo -------------------------------
(***************************************************************************)
(* What a family of byte paths, each through one FreeRTOS StreamBuffer,    *)
(* promises to the tasks at its ends: bytes come out in the order they     *)
(* went in, none comes out twice, and a byte is lost only when its path is *)
(* full at the moment it is offered.  A byte is its position in the input. *)
(***************************************************************************)
EXTENDS Integers, Sequences

CONSTANTS Path, Capacity   \* Capacity[p]: bytes the stream buffer of p holds

VARIABLES
    offered,               \* offered[p]: bytes offered to p so far
    queue,                 \* queue[p]: bytes accepted and not delivered yet
    delivered              \* delivered[p]: bytes that left p, in order

vars == <<offered, queue, delivered>>

Init == /\ offered = [p \in Path |-> 0]
        /\ queue = [p \in Path |-> <<>>]
        /\ delivered = [p \in Path |-> <<>>]

\* n new bytes are offered and the first k are kept; fewer than all only if
\* that fills the path.
Offer(p, n, k) ==
    /\ k < n => Len(queue[p]) + k >= Capacity[p]
    /\ offered' = [offered EXCEPT ![p] = @ + n]
    /\ queue' = [queue EXCEPT ![p] = @ \o [i \in 1..k |-> offered[p] + i]]
    /\ UNCHANGED delivered

\* The k oldest accepted bytes leave the path.
Deliver(p, k) ==
    /\ delivered' = [delivered EXCEPT ![p] = @ \o SubSeq(queue[p], 1, k)]
    /\ queue' = [queue EXCEPT ![p] = SubSeq(@, k + 1, Len(@))]
    /\ UNCHANGED offered

\* A step determines the sizes n and k, so they need no quantifier.
OfferStep(p) ==
    LET n == offered'[p] - offered[p]
        k == Len(queue'[p]) - Len(queue[p])
    IN  n > 0 /\ k \in 0..n /\ Offer(p, n, k)

DeliverStep(p) ==
    LET k == Len(delivered'[p]) - Len(delivered[p])
    IN  k \in 1..Len(queue[p]) /\ Deliver(p, k)

Next == \E p \in Path : OfferStep(p) \/ DeliverStep(p)

Spec == Init /\ [][Next]_vars
================================================================================
