------------------------------ MODULE LossModel -----------------------------
(***************************************************************************)
(* impair.LossModel as a value, and the knobs that drive it as             *)
(* controls.CallControls keeps them.  A draw of its random generator with  *)
(* a probability strictly between 0 and 1 may come out either way; where   *)
(* the code's arithmetic makes the probability 1, it may not.              *)
(***************************************************************************)
EXTENDS Integers

(* CallControls.set: a value beyond its range becomes the range's end. *)
Within(lo, hi, v) == IF v < lo THEN lo ELSE IF v > hi THEN hi ELSE v

(* The knobs as they stand after values of `pcts` and `lens` were asked for. *)
LossKnobs(pcts, lens) ==
    [pct   : {Within(0, 100, p) : p \in pcts},
     model : {"random", "burst"},
     burst : {Within(1, 50, b) : b \in lens}]

NewLoss == [bad |-> FALSE, model |-> "none"]

(* effective_loss_pct: a burst can carry at most burst/(burst + 1) of the    *)
(* traffic, and a knob above that starts a new burst after every gap.        *)
AtItsCeiling(k) == k.pct * (k.burst + 1) >= 100 * k.burst

Chance(certain) == IF certain THEN {TRUE} ELSE BOOLEAN

(* The two-state chain: in a burst it recovers once in `burst` draws.        *)
NextInBurst(bad, k) ==
    IF bad THEN {~recovers : recovers \in Chance(k.burst = 1)}
    ELSE Chance(AtItsCeiling(k))

Drawn(drop, bad, model) ==
    [drop |-> drop, loss |-> [bad |-> bad, model |-> model]]

(* drop(): what it may answer and leave behind. *)
Draws(loss, k) ==
    CASE k.pct = 0   -> {Drawn(FALSE, FALSE, loss.model)}
      [] k.pct = 100 -> {Drawn(TRUE, TRUE, loss.model)}
      [] k.pct \in 1..99 /\ k.model = "random" ->
            {Drawn(d, FALSE, loss.model) : d \in BOOLEAN}
      [] k.pct \in 1..99 /\ k.model = "burst" ->
            {Drawn(b, b, "burst") :
                b \in NextInBurst(loss.bad /\ loss.model = "burst", k)}

=============================================================================
