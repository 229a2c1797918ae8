----------------------------- MODULE VoiceSender ----------------------------
(***************************************************************************)
(* The sending half of a running call: demo._sender_loop with its source   *)
(* (FrameSource), its loss knob (LossModel) and its delay line, which      *)
(* sends from a thread of its own.                                         *)
(*                                                                         *)
(* A datagram is its sequence number.  The knobs may be turned between any *)
(* two frames, so every reading of them is possible at every frame.        *)
(***************************************************************************)
EXTENDS VoiceNetwork, LossModel

CONSTANTS MaxSeq,       (* packet.MAX_SEQ: the last sequence number        *)
          FileFrames,   (* bound: frames in the WAV file                   *)
          LossPcts, BurstLens   (* what the user asks of the loss knobs    *)

ASSUME SenderAssumption ==
    /\ MaxSeq \in Nat /\ FileFrames \in Nat
    /\ LossPcts \subseteq Int /\ BurstLens \subseteq Int

VARIABLES
    source,     (* FrameSource: its kind, and what is left to read         *)
    sender,     (* where the sending thread is                             *)
    seq,        (* the next sequence number                                *)
    loss,       (* its loss model                                          *)
    sline,      (* its delay line                                          *)
    sent, dropped,      (* the Stats counters                              *)
    stop,       (* the stop event                                          *)
    spilt       (* history: datagrams a failing socket threw away          *)

counters == <<sent, dropped>>
svars == <<source, sender, seq, loss, sline, counters, stop, wire, spilt>>

SInit ==
    /\ source \in [mode : {"file", "loop", "mic"}, left : 0..FileFrames]
    /\ sender = "looping" /\ seq = 0 /\ loss = NewLoss
    /\ sline = NewLine
    /\ sent = 0 /\ dropped = 0
    /\ stop = FALSE
    /\ wire = EmptyBag /\ spilt = 0

(* FrameSource.frames: a microphone goes on until its deadline, a file to    *)
(* its end, and a looped file of at least one frame for ever.                *)
HasFrame == source.mode # "file" \/ source.left > 0
MayEnd == source.mode = "mic" \/ source.left = 0
Read == IF source.mode = "file" THEN [source EXCEPT !.left = @ - 1] ELSE source

(* deliver(): the datagram is in the network and counted. *)
Deliver(v) ==
    /\ Carry(v)
    /\ sent' = sent + 1

(* One frame: it is sealed under the next number... *)
Frame ==
    /\ sender = "looping" /\ ~stop /\ seq <= MaxSeq
    /\ HasFrame
    /\ source' = Read
    /\ UNCHANGED stop

(* The knobs are read once per frame, and the loss model drops it or not. *)
Decides(drop) ==
    \E k \in LossKnobs(LossPcts, BurstLens) : \E d \in Draws(loss, k) :
        d.drop = drop /\ loss' = d.loss

(* Mutant: the number of a frame dropped on purpose is used again. *)
DropFrameQuietly ==
    /\ Frame /\ Decides(TRUE)
    /\ dropped' = dropped + 1
    /\ UNCHANGED <<seq, sender, sline, sent, wire, spilt>>

(* ...or dropped by the loss knob, which uses the number up, ... *)
DropFrame ==
    /\ Frame /\ Decides(TRUE)
    /\ dropped' = dropped + 1 /\ seq' = seq + 1
    /\ UNCHANGED <<sender, sline, sent, wire, spilt>>

(* ...and sent at once, or handed to the delay line. *)
SendFrame ==
    /\ Frame /\ Decides(FALSE) /\ ~Raises(sline) /\ Accepts(sline)
    /\ seq' = seq + 1
    /\ \/ Deliver(seq) /\ UNCHANGED sline
       \/ sline' = SendLater(sline, seq) /\ UNCHANGED <<wire, sent>>
    /\ UNCHANGED <<sender, dropped, spilt>>

(* The socket fails, now or earlier in the line's thread: the loop is left   *)
(* before the number is used up.                                             *)
SendFails ==
    /\ Frame /\ Decides(FALSE)
    /\ sender' = "closing"
    /\ UNCHANGED <<seq, sline, counters, wire, spilt>>

(* The delay line's thread. *)
LineDelivers(v) ==
    /\ sline.open
    /\ sline' = Taken(sline, v)
    /\ Deliver(v)
    /\ UNCHANGED <<source, sender, seq, loss, dropped, stop, spilt>>

LineFails ==
    /\ sline.open /\ sline.heap # EmptyBag
    /\ sline' = Failed(sline)
    /\ spilt' = spilt + BagCardinality(sline.heap)
    /\ UNCHANGED <<source, sender, seq, loss, counters, stop, wire>>

(* The loop ends: the source, the stop event or the sequence space. *)
LoopEnds ==
    /\ sender = "looping"
    /\ MayEnd \/ stop \/ seq > MaxSeq
    /\ sender' = "closing"
    /\ UNCHANGED <<source, seq, loss, sline, counters, stop, wire, spilt>>

(* The finally clauses: drain the line, close it, and then stop the call,    *)
(* whether or not closing raises.                                            *)
CloseLine ==
    /\ sender = "closing" /\ Drained(sline)
    /\ sline' = Closed(sline)
    /\ sender' = "ended" /\ stop' = TRUE
    /\ UNCHANGED <<source, seq, loss, counters, wire, spilt>>

StopAsked ==
    /\ ~stop /\ stop' = TRUE
    /\ UNCHANGED <<source, sender, seq, loss, sline, counters, wire, spilt>>

SenderThread == DropFrame \/ SendFrame \/ SendFails \/ LoopEnds \/ CloseLine
LineThread == (\E v \in BagToSet(sline.heap) : LineDelivers(v)) \/ LineFails

SNext == SenderThread \/ LineThread \/ StopAsked

(* Threads are scheduled, and what waits in the line falls due. *)
SFairness == WF_svars(LoopEnds \/ CloseLine) /\ WF_svars(LineThread)

-----------------------------------------------------------------------------
STypeOK ==
    /\ source \in [mode : {"file", "loop", "mic"}, left : 0..FileFrames]
    /\ sender \in {"looping", "closing", "ended"}
    /\ seq \in 0..(MaxSeq + 1)
    /\ loss \in [bad : BOOLEAN, model : {"none", "burst"}]
    /\ IsABag(sline.heap) /\ sline.open \in BOOLEAN /\ sline.failed \in BOOLEAN
    /\ sent \in Nat /\ dropped \in Nat /\ spilt \in Nat
    /\ stop \in BOOLEAN /\ IsABag(wire)

(* Every number used belongs to one frame that was sent, dropped on purpose, *)
(* lost with a failing socket, or still waits (the frame whose own sending   *)
(* fails ends the loop and leaves its number unused); a sender that has      *)
(* ended leaves nothing waiting, so the delay knob never eats the last       *)
(* frames of a call (demo.py:424-428).                                       *)
EveryFrameAccounted ==
    /\ seq = sent + dropped + spilt + BagCardinality(sline.heap)
    /\ sender = "ended" => sline.heap = EmptyBag

(* However the loop is left, through a failing socket too, the call is told  *)
(* to stop: draining never waits for ever (impair.py:85-110).                *)
SenderEnds == (sender = "closing" \/ stop) ~> (sender = "ended" /\ stop)

=============================================================================
