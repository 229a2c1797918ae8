------------------------------ MODULE CallSetup ------------------------------
(***************************************************************************)
(* What happens between the handshake and the call, on both sides: the     *)
(* caller announces its UDP port with CALL_START and talks at once; the    *)
(* listener opens its port, and either waits for CALL_START (demo.listen,  *)
(* listen_friends) or first asks its user (gui.DemoWindow._run).  Once     *)
(* both are in _run_call, CallControl and VoiceReceiver take over: here a  *)
(* call only ends.                                                         *)
(*                                                                         *)
(* A side that is over has closed its channel and its UDP socket.          *)
(***************************************************************************)
EXTENDS Integers, Sequences, FiniteSets

CONSTANTS MaxFrames,    (* bound: frames the caller sends                  *)
          DrainLimit    (* drain_udp: datagrams it discards at most        *)

(* The code's 4096 exceeds what a caller sends in ANSWER_TIMEOUT and         *)
(* CALL_START_TIMEOUT, 50 frames a second for 40 seconds.                    *)
ASSUME SetUpAssumption ==
    MaxFrames \in Nat /\ DrainLimit \in Nat /\ DrainLimit >= MaxFrames

VARIABLES
    asks,           (* the listener is a window, and asks its user         *)
    cal, lis,       (* where the caller and the listener are               *)
    toLis, toCal,   (* control messages under way                          *)
    reply,          (* what the listener's user answered                   *)
    hangUp,         (* the listener's stop event                           *)
    frames,         (* frames sent by the caller                           *)
    underWay,       (* the numbers of those not yet arrived or lost        *)
    socket,         (* the numbers of those in the listener's socket       *)
    settled,        (* history: those not under way when the call started  *)
    back,           (* a frame of the listener has reached the caller      *)
    ringing, live   (* the caller's window                                 *)

audio == <<frames, underWay, socket, settled, back>>
shown == <<ringing, live>>
setUpVars == <<asks, cal, lis, toLis, toCal, reply, hangUp, audio, shown>>

SetUpInit ==
    /\ asks \in BOOLEAN
    /\ cal = "open" /\ lis = "open"
    /\ toLis = <<>> /\ toCal = <<>>
    /\ reply = "none" /\ hangUp = FALSE
    /\ frames = 0 /\ underWay = {} /\ socket = {} /\ settled = {} /\ back = FALSE
    /\ ringing = FALSE /\ live = FALSE

Bound == lis \notin {"open", "over"}

-----------------------------------------------------------------------------
(* The caller. *)

KeepListener == UNCHANGED <<asks, lis, reply, hangUp>>

(* Its own port is open before it tells the number. *)
StartCall ==
    /\ cal = "open" /\ cal' = "talking"
    /\ toLis' = Append(toLis, "CALL_START")
    /\ ringing' = TRUE
    /\ KeepListener /\ UNCHANGED <<toCal, audio, live>>

(* No port, or a channel that is already closed. *)
CallerFails ==
    /\ cal = "open" /\ cal' = "over"
    /\ KeepListener /\ UNCHANGED <<toLis, toCal, audio, shown>>

CallerSends ==
    /\ cal = "talking" /\ frames < MaxFrames
    /\ frames' = frames + 1 /\ underWay' = underWay \cup {frames + 1}
    /\ KeepListener /\ UNCHANGED <<cal, toLis, toCal, socket, settled, back, shown>>

(* _refresh: the first frame of the listener says that it answered. *)
CallerHears ==
    /\ cal = "talking" /\ ringing /\ back
    /\ ringing' = FALSE /\ live' = TRUE
    /\ KeepListener /\ UNCHANGED <<cal, toLis, toCal, audio>>

(* CallControl's reader: CALL_END, or the channel is closed. *)
CallerReads ==
    /\ cal = "talking" /\ cal' = "over"
    /\ \/ toCal # <<>> /\ toCal' = Tail(toCal)
       \/ toCal = <<>> /\ lis = "over" /\ UNCHANGED toCal
    /\ KeepListener /\ UNCHANGED <<toLis, audio, shown>>

CallerHangsUp ==
    /\ cal = "talking" /\ cal' = "over"
    /\ toLis' = Append(toLis, "CALL_END")
    /\ KeepListener /\ UNCHANGED <<toCal, audio, shown>>

-----------------------------------------------------------------------------
(* The network: a datagram reaches the listener's socket or is lost.         *)

Arrives == \E f \in underWay :
    /\ Bound
    /\ underWay' = underWay \ {f} /\ socket' = socket \cup {f}
    /\ KeepListener /\ UNCHANGED <<cal, toLis, toCal, frames, settled, back, shown>>

IsLost == \E f \in underWay :
    /\ underWay' = underWay \ {f}
    /\ KeepListener
    /\ UNCHANGED <<cal, toLis, toCal, frames, socket, settled, back, shown>>

-----------------------------------------------------------------------------
(* The listener. *)

KeepCaller == UNCHANGED <<asks, cal, frames, underWay, shown>>
heard == <<socket, settled, back>>
Goes(from, to) == lis = from /\ lis' = to

OpenPort ==
    /\ Goes("open", IF asks THEN "asking" ELSE "awaiting")
    /\ KeepCaller /\ UNCHANGED <<toLis, toCal, reply, hangUp, heard>>

(* _open_bound_udp raises; the channel is closed on the way out.             *)
PortFails ==
    /\ Goes("open", "over")
    /\ KeepCaller /\ UNCHANGED <<toLis, toCal, reply, hangUp, heard>>

UserAnswers ==
    /\ lis = "asking" /\ reply = "none" /\ reply' \in {"yes", "no"}
    /\ KeepCaller /\ UNCHANGED <<lis, toLis, toCal, hangUp, heard>>

HangUpEarly ==
    /\ lis \in {"asking", "awaiting"} /\ asks /\ hangUp' = TRUE
    /\ KeepCaller /\ UNCHANGED <<lis, toLis, toCal, reply, heard>>

(* wait_for_answer: an answer counts unless Hang up was pressed. *)
TakeAnswer ==
    /\ lis = "asking" /\ reply # "none" /\ ~hangUp
    /\ lis' = IF reply = "yes" THEN "awaiting" ELSE "declining"
    /\ KeepCaller /\ UNCHANGED <<toLis, toCal, reply, hangUp, heard>>

(* Mutant: no answer in time is taken for a yes. *)
NoAnswerIsYes ==
    /\ Goes("asking", IF hangUp THEN "declining" ELSE "awaiting")
    /\ KeepCaller /\ UNCHANGED <<toLis, toCal, reply, hangUp, heard>>

(* Mutant: the prompt waits for ever. *)
NoAnswerWaitsOn ==
    /\ hangUp /\ Goes("asking", "declining")
    /\ KeepCaller /\ UNCHANGED <<toLis, toCal, reply, hangUp, heard>>

NoAnswer ==
    /\ Goes("asking", "declining")
    /\ KeepCaller /\ UNCHANGED <<toLis, toCal, reply, hangUp, heard>>

(* CALL_END, if the channel still takes it; then everything is closed.       *)
Decline ==
    /\ Goes("declining", "over")
    /\ toCal' \in {toCal, Append(toCal, "CALL_END")}
    /\ KeepCaller /\ UNCHANGED <<toLis, reply, hangUp, heard>>

AfterDrain(n) == IF n > DrainLimit THEN n - DrainLimit ELSE 0

(* wait_call_start returns: in the window, what waits in the socket goes,    *)
(* as far as the drain's limit takes it.                                     *)
StartArrives ==
    /\ toLis # <<>> /\ Head(toLis) = "CALL_START" /\ toLis' = Tail(toLis)
    /\ Goes("awaiting", "talking")
    /\ IF asks THEN /\ socket' \in SUBSET socket
                    /\ Cardinality(socket') = AfterDrain(Cardinality(socket))
               ELSE UNCHANGED socket
    /\ settled' = (1..frames) \ underWay
    /\ KeepCaller /\ UNCHANGED <<toCal, reply, hangUp, back>>

(* It raises: too late, hung up here, or the channel ends without a start.   *)
NotStarted ==
    /\ Goes("awaiting", "over")
    /\ KeepCaller /\ UNCHANGED <<toLis, toCal, reply, hangUp, heard>>

(* The receiving thread takes a datagram; VoiceReceiver has its order.       *)
ListenerPlays == \E f \in socket :
    /\ lis = "talking" /\ socket' = socket \ {f}
    /\ KeepCaller /\ UNCHANGED <<lis, toLis, toCal, reply, hangUp, settled, back>>

ListenerSends ==
    /\ lis = "talking" /\ ~back /\ back' = TRUE
    /\ KeepCaller /\ UNCHANGED <<lis, toLis, toCal, reply, hangUp, socket, settled>>

ListenerReads ==
    /\ Goes("talking", "over")
    /\ \/ toLis # <<>> /\ toLis' = Tail(toLis)
       \/ toLis = <<>> /\ cal = "over" /\ UNCHANGED toLis
    /\ KeepCaller /\ UNCHANGED <<toCal, reply, hangUp, heard>>

ListenerHangsUp ==
    /\ Goes("talking", "over")
    /\ toCal' = Append(toCal, "CALL_END")
    /\ KeepCaller /\ UNCHANGED <<toLis, reply, hangUp, heard>>

-----------------------------------------------------------------------------
CallerSteps   == StartCall \/ CallerFails \/ CallerSends \/ CallerHears
                 \/ CallerReads \/ CallerHangsUp
ListenerSteps == OpenPort \/ PortFails \/ UserAnswers \/ HangUpEarly \/ TakeAnswer
                 \/ NoAnswer \/ Decline \/ StartArrives \/ NotStarted \/ ListenerPlays
                 \/ ListenerSends \/ ListenerReads \/ ListenerHangsUp

SetUpNext == CallerSteps \/ ListenerSteps \/ Arrives \/ IsLost

(* What the code does in the end, whatever comes: every wait has a timeout,  *)
(* and TCP delivers.                                                         *)
CallerGoesOn   == StartCall \/ CallerFails \/ CallerReads
ListenerGoesOn == OpenPort \/ PortFails \/ TakeAnswer \/ NoAnswer \/ Decline
                  \/ StartArrives \/ NotStarted

SetUpFairness == WF_setUpVars(CallerGoesOn) /\ WF_setUpVars(ListenerGoesOn)

SetUpSpec == SetUpInit /\ [][SetUpNext]_setUpVars /\ SetUpFairness

-----------------------------------------------------------------------------
SetUpTypeOK ==
    /\ asks \in BOOLEAN /\ hangUp \in BOOLEAN /\ back \in BOOLEAN
    /\ ringing \in BOOLEAN /\ live \in BOOLEAN
    /\ cal \in {"open", "talking", "over"}
    /\ lis \in {"open", "asking", "awaiting", "talking", "declining", "over"}
    /\ toLis \in Seq({"CALL_START", "CALL_END"}) /\ toCal \in Seq({"CALL_END"})
    /\ reply \in {"none", "yes", "no"}
    /\ frames \in 0..MaxFrames /\ {underWay, socket, settled} \subseteq SUBSET (1..frames)

(* A caller whose window says that the call is live has been answered, by    *)
(* the user where there is one: "first audio means it did" (gui.py:389).     *)
AudioMeansAnswered == live /\ asks => reply = "yes"

(* What the caller said while it rang and had reached the listener is never  *)
(* played when the user answers at last (gui.py:378).  What was still under  *)
(* way when the call started is played like anything said later: a datagram  *)
(* does not say when it was spoken.                                          *)
StaleAudioIsGone == lis = "talking" /\ asks => socket \cap settled = {}

(* Whatever the user does, a caller does not ring for ever: the listener     *)
(* comes to the call, or the caller is told that there is none               *)
(* (demo.py:24-26, gui.py:369).                                              *)
RingingEnds ==
    cal = "talking" /\ lis # "talking" ~> lis = "talking" \/ cal = "over"

=============================================================================
