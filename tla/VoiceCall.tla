----------------------------- MODULE VoiceCall ------------------------------
(***************************************************************************)
(* A call's two planes together: voice datagrams sealed and opened by the  *)
(* two key rings, and KEY_ROTATE messages over the ordered control channel *)
(* (demo._sender_loop, demo._receiver_loop, CallHandle.rotate_keys and     *)
(* CallHandle._apply).  The planes are not ordered against each other.     *)
(*                                                                         *)
(* A tick is one frame time.  A datagram arrives any number of times, in   *)
(* any order, within MaxDelay ticks of its sealing (the delay line and the *)
(* network) or never; a rotation announced by one peer is processed by the *)
(* other within CtlDelay ticks.                                            *)
(***************************************************************************)
EXTENDS Keyring, Sequences

CONSTANTS Peers, Talkers,
          MaxDelay, CtlDelay,
          MaxGen        (* bound: users stop pressing rotate at this one   *)

ASSUME CallAssumption ==
    /\ \E a, b \in Peers : a # b /\ Peers = {a, b}
    /\ Talkers \subseteq Peers
    /\ MaxDelay \in Nat /\ CtlDelay \in Nat /\ MaxGen \in Nat

Other(p) == CHOOSE q \in Peers : q # p

VARIABLES ring,     (* ring[p]: p's Keyring                                *)
          air,      (* air[p]: datagrams that may still reach p            *)
          heard,    (* heard[p]: those of them that p has accepted         *)
          wire,     (* wire[p]: rotations on their way to p, with the time *)
                    (* by which p will have processed them                 *)
          now

vars == <<ring, air, heard, wire, now>>

Init ==
    /\ ring = [p \in Peers |-> NewRing]
    /\ air = [p \in Peers |-> {}]
    /\ heard = [p \in Peers |-> {}]
    /\ wire = [p \in Peers |-> <<>>]
    /\ now = 0

(* What is still under way at time t of the datagrams D: the n-th frame was  *)
(* sealed at tick n.                                                         *)
UnderWay(D, t) == {dg \in D : dg.seq + MaxDelay >= t}

(* MaxSeq bounds the run: frames are numbered by ticks.                      *)
Tick ==
    /\ now < MaxSeq
    /\ \A p \in Peers : wire[p] # <<>> => now < Head(wire[p]).by
    /\ now' = now + 1
    /\ air' = [p \in Peers |-> UnderWay(air[p], now + 1)]
    /\ heard' = [p \in Peers |-> UnderWay(heard[p], now + 1)]
    /\ UNCHANGED <<ring, wire>>

(* The frame of this tick.  A frame the simulated loss drops takes its       *)
(* number with it and is never sealed: no step here.                         *)
SendFrame(p) ==
    /\ p \in Talkers /\ CanSeal(ring[p], now)
    /\ air' = [air EXCEPT ![Other(p)] = @ \cup {Datagram(ring[p], now)}]
    /\ ring' = [ring EXCEPT ![p] = Seal(@, now)]
    /\ UNCHANGED <<heard, wire, now>>

(* A datagram arrives; it may arrive again. *)
ReceiveFrame(p, dg) ==
    /\ dg \in air[p]
    /\ ring' = [ring EXCEPT ![p] = Open(@, dg, now)]
    /\ heard' = [heard EXCEPT ![p] =
                    IF Verdict(ring[p], dg, now) = "ok" THEN @ \cup {dg} ELSE @]
    /\ UNCHANGED <<air, wire, now>>

(* rotate_keys(): without rotation_ready() nothing is announced. *)
RotateKeys(p) ==
    LET r == RotateNext(ring[p], now)
    IN  /\ ring[p].gen < MaxGen
        /\ ring' = [ring EXCEPT ![p] = r]
        /\ wire' = IF r.gen = ring[p].gen THEN wire
                   ELSE [wire EXCEPT ![Other(p)] =
                            Append(@, [gen |-> r.gen, by |-> now + CtlDelay])]
        /\ UNCHANGED <<air, heard, now>>

(* _apply() of a KEY_ROTATE between honest peers: never ahead of k + 1, see  *)
(* CallControl.NoProtocolError.                                              *)
ApplyRotate(p) ==
    /\ wire[p] # <<>>
    /\ ring' = [ring EXCEPT ![p] = RotateTo(@, Head(wire[p]).gen, now)]
    /\ wire' = [wire EXCEPT ![p] = Tail(@)]
    /\ UNCHANGED <<air, heard, now>>

Over == now = MaxSeq /\ UNCHANGED vars

Next ==
    \/ Tick \/ Over
    \/ \E p \in Peers : SendFrame(p) \/ RotateKeys(p) \/ ApplyRotate(p)
    \/ \E p \in Peers : \E dg \in air[p] : ReceiveFrame(p, dg)

Spec == Init /\ [][Next]_vars

-----------------------------------------------------------------------------
(* Every older key that is still there has a retirement time, and none lives *)
(* longer than RetireAfter from now.                                         *)
TypeOK ==
    /\ \A p \in Peers :
          /\ IsRing(ring[p]) /\ {ring[p].gen, ring[p].send} \subseteq 0..MaxGen
          /\ \A g \in DOMAIN ring[p].recv : ring[p].recv[g] \in 0..MaxGen
          /\ DOMAIN ring[p].expires = DOMAIN ring[p].recv \ {ring[p].gen}
          /\ \A g \in DOMAIN ring[p].expires : ring[p].expires[g] <= now + RetireAfter
          /\ \A dg \in air[p] : dg.seq \in Seqs /\ dg.tag \in Tags /\ dg.key \in 0..MaxGen
          /\ heard[p] \subseteq air[p]
          /\ wire[p] \in Seq([gen : 0..MaxGen, by : Nat])
    /\ now \in Seqs

(* A datagram whose generation its receiver has reached is accepted when it  *)
(* first arrives, however late, and never a second time: no key retires and  *)
(* the replay window does not pass a number while a datagram under that key  *)
(* or with that number can still arrive (keyring.py:20-22, ADR 0004: "in-    *)
(* flight datagrams survive a rotation").                                    *)
InFlightSurvives ==
    \A p \in Peers : \A dg \in air[p] :
        dg.key <= ring[p].gen =>
            Verdict(ring[p], dg, now) = IF dg \in heard[p] THEN "replay" ELSE "ok"

(* A datagram sealed ahead of its receiver finds no key rather than a wrong  *)
(* one: between honest peers nothing ever fails to authenticate (ADR 0004:   *)
(* "without ... a wrong-key attempt").                                       *)
NeverWrongKey ==
    \A p \in Peers : \A dg \in air[p] : Verdict(ring[p], dg, now) # "auth"

(* The keys p could open a datagram with at this moment. *)
LiveKeys(p) == DOMAIN Purge(ring[p], now).recv

(* An in-sequence peer rotation can leave up to three live generations       *)
(* (ADR 0004), never the fourth, which would have to give way                *)
(* (keyring.py:114-117): every key lives until its retirement time.          *)
AtMostThreeLive == \A p \in Peers : Cardinality(LiveKeys(p)) <= 3

=============================================================================
