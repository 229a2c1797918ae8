----------------------------- MODULE Agreement ------------------------------
(***************************************************************************)
(* What ADR 0004 promises of live rotation, without threads, messages or   *)
(* failures: each side goes through the generations one by one, and enters *)
(* one either because its own user pressed "rotate keys" or to follow a    *)
(* peer that is ahead of it.  So two presses that cross make one           *)
(* generation, and no generation exists that nobody pressed for.           *)
(***************************************************************************)
EXTENDS Integers

CONSTANT Peers

VARIABLES gen,          (* the generation each side seals under            *)
          announced     (* every generation some user rotated to           *)

Init == gen = [p \in Peers |-> 0] /\ announced = {}

Press(p) ==
    /\ gen' = [gen EXCEPT ![p] = @ + 1]
    /\ announced' = announced \cup {gen[p] + 1}

Follow(p) ==
    /\ \E q \in Peers : gen[q] > gen[p]
    /\ gen' = [gen EXCEPT ![p] = @ + 1]
    /\ UNCHANGED announced

Next == \E p \in Peers : Press(p) \/ Follow(p)

Spec == Init /\ [][Next]_<<gen, announced>>

=============================================================================
