---------------------------- MODULE VoiceNetwork ----------------------------
(***************************************************************************)
(* The UDP path that a sender and the proxy share: a bag of datagrams, in  *)
(* no order.                                                               *)
(***************************************************************************)
EXTENDS DelayLine

VARIABLE wire

Carry(v) == wire' = wire (+) One(v)
TakeOff(v) == BagIn(v, wire) /\ wire' = wire (-) One(v)

=============================================================================
