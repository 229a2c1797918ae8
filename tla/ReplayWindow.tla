---------------------------- MODULE ReplayWindow ----------------------------
(***************************************************************************)
(* The sliding anti-replay window of hpqv.replay as a value with           *)
(* operators, so that a key ring can hold one.  The window covers          *)
(* [top - WindowSize + 1, top].                                            *)
(*                                                                         *)
(* The integer `_bits` of the code is the set of the offsets i for which   *)
(* bit i is set (bit i set = seq top - i accepted); shifting left by n is  *)
(* adding n to every offset, masking is intersecting with Offsets.         *)
(***************************************************************************)
EXTENDS Integers

CONSTANTS WindowSize,   (* ReplayWindow(size): 256 in the code             *)
          MaxSeq        (* packet.MAX_SEQ: 2^48 - 1 in the code            *)

ASSUME WindowAssumption == WindowSize \in Nat \ {0} /\ MaxSeq \in Nat

Seqs == 0..MaxSeq

Offsets == 0..(WindowSize - 1)

Windows == [top : Seqs \cup {-1}, bits : SUBSET Offsets]

NewWindow == [top |-> -1, bits |-> {}]

(* Mutant: the window is one number too wide (<= for < on line 24). *)
CheckTooWide(w, seq) ==
    /\ seq \in Seqs
    /\ \/ seq > w.top
       \/ w.top - seq <= WindowSize /\ w.top - seq \notin w.bits

(* New and inside the window. *)
Check(w, seq) ==
    /\ seq \in Seqs
    /\ \/ seq > w.top
       \/ /\ w.top - seq < WindowSize
          /\ w.top - seq \notin w.bits

(* The bits after the top moved forward to seq. *)
Slide(w, seq) ==
    LET shift == seq - w.top
    IN  IF shift >= WindowSize
        THEN {0}
        ELSE ({i + shift : i \in w.bits} \cup {0}) \cap Offsets

(* Mutant: a number behind the top is let in and not marked. *)
AcceptForgetsLate(w, seq) ==
    IF seq > w.top THEN [top |-> seq, bits |-> Slide(w, seq)] ELSE w

(* Callers check first: the code raises ValueError otherwise. *)
Accept(w, seq) ==
    IF seq > w.top
    THEN [top |-> seq, bits |-> Slide(w, seq)]
    ELSE [w EXCEPT !.bits = @ \cup {w.top - seq}]

-----------------------------------------------------------------------------
(* w remembers of the set `seen` what its size lets it: the bits are the     *)
(* numbers of seen that the window covers, the top is the highest of all.    *)
Mirrors(w, seen) ==
    /\ \A i \in Offsets : i \in w.bits <=> w.top - i \in seen
    /\ \A a \in seen : a <= w.top
    /\ seen # {} => w.top \in seen
    /\ seen = {} => w.top = -1

=============================================================================
