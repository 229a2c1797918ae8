-------------------------------- MODULE Voice -------------------------------
(***************************************************************************)
(* Voice from key ring to loudspeaker: what the rings of both peers do     *)
(* with datagrams and rotations (VoiceCall), and what one peer does with   *)
(* the datagrams its ring has opened (VoiceReceiver).  The receiver thread *)
(* asks the ring of one datagram only whether it is a new one, which is    *)
(* WindowExact; so each is followed by itself.                             *)
(***************************************************************************)
EXTENDS VoiceCall, VoiceReceiver

VARIABLE stage

AtRings   == stage = "rings"
AtPlayout == stage = "playout"

VInit ==
    /\ stage \in {"rings", "playout"}
    /\ Init /\ ReceiverInit
    /\ AtRings => depth = Min(Depths)

VNext ==
    \/ AtRings /\ Next /\ UNCHANGED <<stage, receiverVars>>
    \/ AtPlayout /\ ReceiverNext /\ UNCHANGED <<stage, vars>>

VSpec == VInit /\ [][VNext]_<<stage, vars, receiverVars>>

=============================================================================
