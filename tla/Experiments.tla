---------------------------- MODULE Experiments -----------------------------
(***************************************************************************)
(* The evaluation's two concurrent programs: the voice path through the    *)
(* impairment proxy (VoicePath) and the handshake trials (HandshakeTrial). *)
(* They share nothing, and one of them is run at a time.                   *)
(***************************************************************************)
EXTENDS VoicePath, HandshakeTrial

VARIABLE experiment

OnVoicePath  == experiment = "voice path"
OnHandshakes == experiment = "handshakes"

EInit ==
    /\ experiment \in {"voice path", "handshakes"}
    /\ Init /\ HInit
    /\ OnHandshakes => source = [mode |-> "file", left |-> 0]
    /\ OnVoicePath => transport = CHOOSE t \in Transports : TRUE

(* While one runs, the other has not been started.  Both come to an end.     *)
ENext ==
    \/ OnVoicePath /\ Next /\ UNCHANGED <<experiment, hvars>>
    \/ OnHandshakes /\ HNext /\ UNCHANGED <<experiment, vars>>

(* SFairness, PFairness, and the same for the trials: time passes, and       *)
(* threads that have something to do get to do it.                           *)
EFairness ==
    /\ WF_svars(OnVoicePath /\ (LoopEnds \/ CloseLine))
    /\ WF_svars(OnVoicePath /\ LineThread)
    /\ WF_<<wire, pvars>>(OnVoicePath /\ (FlushHeld \/ LaneLeaves))
    /\ WF_<<wire, pvars>>(OnVoicePath /\ CloseProxy)
    /\ WF_<<wire, pvars>>(OnVoicePath /\ \E d \in BagToSet(pline.heap) : ProxyLineDelivers(d))
    /\ WF_hvars(OnHandshakes /\ DeadlinePasses)
    /\ WF_hvars(OnHandshakes /\ (Finish \/ Judge \/ GiveUp))
    /\ WF_hvars(OnHandshakes /\ (Record \/ ResponderLeaves))
    /\ WF_hvars(OnHandshakes /\ NextTrial)

ESpec == EInit /\ [][ENext]_<<experiment, vars, hvars>> /\ EFairness

=============================================================================
