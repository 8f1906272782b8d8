---------------------------- MODULE EventDelivery ----------------------------
(***************************************************************************)
(* What EventStreamProcessor promises its handlers, whatever the threads   *)
(* do: events are accepted one after the other, and each registration of a *)
(* handler is given batches of at most BatchSize events that it was not    *)
(* given before, none of them twice in a batch.  What it was given is a    *)
(* sequence: an event given again would be there again.                    *)
(* Nothing is promised about order across overlapping workers, nor that an *)
(* event accepted around a stop() is ever handed over.                     *)
(***************************************************************************)
EXTENDS Naturals, Sequences, Functions

CONSTANTS Registrations, BatchSize

VARIABLES
  accepted,  \* events accepted so far: 1..accepted
  handed     \* handed[r]: the events registration r was given, in order

vars == <<accepted, handed>>

Init ==
  /\ accepted = 0
  /\ handed = [r \in Registrations |-> <<>>]

Accept ==
  /\ accepted' = accepted + 1
  /\ UNCHANGED handed

Batches == UNION {[1..n -> 1..accepted] : n \in 1..BatchSize}

\* Registration r is given a batch of events that are new to it.
Give(r, events) ==
  /\ IsInjective(events)
  /\ Range(events) \intersect Range(handed[r]) = {}
  /\ handed' = [handed EXCEPT ![r] = @ \o events]
  /\ UNCHANGED accepted

Next ==
  \/ Accept
  \/ \E r \in Registrations, events \in Batches : Give(r, events)

Spec == Init /\ [][Next]_vars

==============================================================================
