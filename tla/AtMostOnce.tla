----------------------------- MODULE AtMostOnce -----------------------------
(***************************************************************************)
(* What an anti-replay window promises: a sequence number is accepted at   *)
(* most once, and never when a number Span or more above it was accepted.  *)
(***************************************************************************)
EXTENDS Integers

CONSTANTS Span, Numbers

VARIABLES accepted,     (* every number accepted so far                    *)
          deliveries    (* how many datagrams were let in                  *)

Fresh(s) == s \notin accepted /\ \A a \in accepted : a - s < Span

Init == accepted = {} /\ deliveries = 0

Deliver(s) ==
    /\ Fresh(s)
    /\ accepted' = accepted \cup {s}
    /\ deliveries' = deliveries + 1

Next == \E s \in Numbers : Deliver(s)

Spec == Init /\ [][Next]_<<accepted, deliveries>>

=============================================================================
