---------------------------- MODULE VoiceReceiver ---------------------------
(***************************************************************************)
(* The receiving half of a running call: the receiver thread               *)
(* (demo._receiver_loop) with its meter, jitter buffer, playout and sink,  *)
(* the tail of demo._run_call that stops it and closes the sink, and the   *)
(* telemetry the window samples meanwhile.                                 *)
(*                                                                         *)
(* The peer's stream is the slots 0..Slots-1; the network and the peer's   *)
(* own loss knob may lose, reorder and duplicate datagrams.  The key ring  *)
(* opens each datagram once (KeyringLife), so `arrived` stands for it.     *)
(* The knobs may be turned between any two reads of them, so each read     *)
(* takes any value.  Audio is abstracted to which slot a frame is for and  *)
(* how it was made.                                                        *)
(***************************************************************************)
EXTENDS Integers, Sequences, SequencesExt, FiniteSetsExt

CONSTANTS Slots,        (* bound: datagrams the peer may send              *)
          Depths,       (* values of the jitter_depth knob                 *)
          MaxGap,       (* playout.MAX_GAP: longer stalls are not filled   *)
          MaxSamples,   (* bound: telemetry rows                           *)
          MaxRejects    (* bound: duplicates that reach the socket         *)

ASSUME ReceiverAssumption ==
    /\ Slots \in Nat \ {0} /\ MaxGap \in Nat \ {0}
    /\ Depths \subseteq Nat \ {0} /\ Depths # {}
    /\ MaxSamples \in Nat /\ MaxRejects \in Nat

Stream == 0..(Slots - 1)
None == -1

VARIABLES
    rx,         (* where the receiver thread is in handling a datagram     *)
    cur,        (* that datagram's sequence number                         *)
    arrived,    (* the sequence numbers the key ring has accepted          *)
    meter,      (* RxMeter: highest and lowest sequence number seen        *)
    jb,         (* JitterBuffer: the frames waiting                        *)
    last,       (* JitterBuffer._last: the last one popped                 *)
    depth,      (* JitterBuffer.depth                                      *)
    next,       (* Playout.next_seq                                        *)
    st,         (* the Stats counters                                      *)
    queued,     (* FrameSink._queued                                       *)
    sink,       (* "open", or "closed" at hang-up                          *)
    stop,       (* the stop event                                          *)
    main,       (* where _run_call is                                      *)
    telemetry,  (* Telemetry: counters at the last sample, loss shown      *)
    out,        (* history: what playout made, in order                    *)
    played,      (* history: how many of them the sink took                 *)
    torn        (* history: samples taken between two counter updates      *)

buffer  == <<jb, last, depth, next>>
speaker == <<queued, played>>
history == <<out, torn>>
receiverVars == <<rx, cur, arrived, meter, buffer, st, speaker, sink, stop, main, telemetry, history>>

Counters == {"received", "expected", "incoming_dropped", "late", "recovered",
             "concealed", "skipped", "rejects"}
Zeros == [c \in Counters |-> 0]

ReceiverInit ==
    /\ rx = "waiting" /\ cur = None
    /\ arrived = {}
    /\ meter = [top |-> None, low |-> None]
    /\ jb = {} /\ last = None /\ next = None
    /\ depth \in Depths
    /\ st = Zeros
    /\ queued = 0 /\ sink = "open" /\ played = 0
    /\ stop = FALSE /\ main = "sending"
    /\ telemetry = [prev |-> Zeros, lost |-> 0, rows |-> 0]
    /\ out = <<>> /\ torn = 0

Plus(f, c, n) == [f EXCEPT ![c] = @ + n]

-----------------------------------------------------------------------------
(* recvfrom and ring.open_: a datagram not yet opened counts as received; a  *)
(* replay is a Reject and touches neither the meter nor the buffer.          *)
Receive(s) ==
    /\ rx = "waiting"
    /\ \/ /\ s \notin arrived
          /\ arrived' = arrived \cup {s}
          /\ st' = Plus(st, "received", 1)
          /\ rx' = "received" /\ cur' = s
       \/ /\ s \in arrived /\ st["rejects"] < MaxRejects
          /\ st' = Plus(st, "rejects", 1)
          /\ UNCHANGED <<rx, cur, arrived>>
    /\ UNCHANGED <<meter, buffer, speaker, sink, stop, main, telemetry, history>>

(* RxMeter.arrive: `expected` grows by what this number widens the span.     *)
Arrive(s) ==
    /\ meter' = [top |-> Max({meter.top, s}),
                 low |-> IF meter.low = None THEN s ELSE Min({meter.low, s})]
    /\ st' = Plus(st, "expected",
                  IF meter.top = None THEN 1
                  ELSE Max({0, s - meter.top}) + Max({0, meter.low - s}))

Measure ==
    /\ rx = "received"
    /\ Arrive(cur)
    /\ rx' = "measured"
    /\ UNCHANGED <<cur, arrived, buffer, speaker, sink, stop, main, telemetry, history>>

(* The receiver-side loss knob (LossModel.drop): any datagram may be taken.  *)
DropIncoming ==
    /\ rx = "measured"
    /\ st' = Plus(st, "incoming_dropped", 1)
    /\ rx' = "waiting" /\ cur' = None
    /\ UNCHANGED <<arrived, meter, buffer, speaker, sink, stop, main, telemetry, history>>

Late(s) == next # None /\ s < next

DropLate ==
    /\ rx = "measured" /\ Late(cur)
    /\ st' = Plus(st, "late", 1)
    /\ depth' \in Depths
    /\ rx' = "waiting" /\ cur' = None
    /\ UNCHANGED <<arrived, meter, jb, last, next, speaker, sink, stop, main,
                   telemetry, history>>

(* Mutant: a late datagram goes to the buffer, which ignores it: uncounted.  *)
PushLate ==
    /\ rx = "measured"
    /\ jb' = jb \cup {s \in {cur} : s > last}
    /\ depth' \in Depths
    /\ rx' = "popping" /\ cur' = None
    /\ UNCHANGED <<arrived, meter, last, next, st, speaker, sink, stop, main,
                   telemetry, history>>

(* The depth is read again, then the frame is buffered. *)
Push ==
    /\ rx = "measured" /\ ~Late(cur)
    /\ jb' = jb \cup {s \in {cur} : s > last}
    /\ depth' \in Depths
    /\ rx' = "popping" /\ cur' = None
    /\ UNCHANGED <<arrived, meter, last, next, st, speaker, sink, stop, main,
                   telemetry, history>>

-----------------------------------------------------------------------------
(* Playout.frames: the slots missing before s that are filled in, ... *)
Gap(s) == IF next = None THEN 0 ELSE s - next

(* Mutant: a gap of just MAX_GAP is not filled. *)
FilledIfShorter(s) == IF Gap(s) < MaxGap THEN Gap(s) ELSE 0

Filled(s) == IF Gap(s) <= MaxGap THEN Gap(s) ELSE 0

(* ...and how.  Only the last one can be rebuilt, from the copy that s       *)
(* carries (packet_has_lbrr); silence and PLC conceal.                       *)
Fill(s, rebuilt) ==
    [i \in 1..(Filled(s) + 1) |->
        [slot |-> s - Filled(s) + i - 1,
         how |-> IF i = Filled(s) + 1 THEN "decoded"
                 ELSE IF i = Filled(s) /\ rebuilt THEN "recovered" ELSE "concealed"]]

(* FrameSink.write of n frames while the device plays some of its queue: at  *)
(* most jitter_depth + 2 frames wait for the device, the rest are skipped    *)
(* and counted.  A closed sink takes nothing.                                *)
Write(n, counters) ==
    \/ sink = "closed" /\ st' = counters /\ UNCHANGED speaker
    \/ /\ sink = "open"
       /\ \E limit \in {d + 2 : d \in Depths}, left \in 0..queued :
            \E taken \in Min({n, Max({0, limit - left})})..n :
               /\ queued' = Max({left, Min({limit, left + taken})})
               /\ played' = played + taken
               /\ st' = Plus(counters, "skipped", n - taken)

(* play(): decode frame s, with what fills the gap before it. *)
Play(s) ==
    \E rebuilt \in (IF Filled(s) > 0 THEN BOOLEAN ELSE {FALSE}) :
        LET r == IF rebuilt THEN 1 ELSE 0 IN
        /\ out' = out \o Fill(s, rebuilt)
        /\ Write(Filled(s) + 1, Plus(Plus(st, "recovered", r), "concealed", Filled(s) - r))
        /\ next' = s + 1

(* play() the smallest frame buffered. *)
PopSmallest ==
    LET s == Min(jb) IN
    /\ jb' = jb \ {s} /\ last' = s
    /\ Play(s)
    /\ UNCHANGED <<depth, cur, arrived, meter, sink, stop, main, telemetry, torn>>

(* JitterBuffer.pop in the while loop: until fewer than `depth` are left.    *)
Pop ==
    /\ rx = "popping" /\ Cardinality(jb) >= depth
    /\ PopSmallest
    /\ UNCHANGED rx

PopNothing ==
    /\ rx = "popping" /\ Cardinality(jb) < depth
    /\ rx' = "waiting"
    /\ UNCHANGED <<cur, arrived, meter, buffer, st, speaker, sink, stop, main, telemetry, history>>

(* After the stop event: the drain deadline passes or recvfrom times out.    *)
LeaveLoop ==
    /\ rx = "waiting" /\ stop
    /\ rx' = "flushing"
    /\ UNCHANGED <<cur, arrived, meter, buffer, st, speaker, sink, stop, main, telemetry, history>>

(* recvfrom fails for good: the socket is gone, the call ends. *)
SocketFails ==
    /\ rx = "waiting"
    /\ stop' = TRUE /\ rx' = "flushing"
    /\ UNCHANGED <<cur, arrived, meter, buffer, st, speaker, sink, main, telemetry, history>>

(* JitterBuffer.flush: what is left is played, in order. *)
Flush ==
    /\ rx = "flushing" /\ jb # {}
    /\ PopSmallest
    /\ UNCHANGED rx

FlushEnds ==
    /\ rx = "flushing" /\ jb = {}
    /\ rx' = "done"
    /\ UNCHANGED <<cur, arrived, meter, buffer, st, speaker, sink, stop, main, telemetry, history>>

-----------------------------------------------------------------------------
(* _run_call: something ends the call (the source, the user, the peer); the  *)
(* sender loop sees the event, the call is finished, ...                     *)
StopAsked ==
    /\ ~stop /\ stop' = TRUE
    /\ UNCHANGED <<rx, cur, arrived, meter, buffer, st, speaker, sink, main, telemetry, history>>

SenderEnds ==
    /\ main = "sending" /\ stop
    /\ main' = "joining"
    /\ UNCHANGED <<rx, cur, arrived, meter, buffer, st, speaker, sink, stop, telemetry, history>>

(* ...the join returns, at the latest after its timeout, and the sink is     *)
(* closed, under a receiver that may still be writing.                       *)
CloseSink ==
    /\ main = "joining"
    /\ main' = "ended" /\ sink' = "closed"
    /\ UNCHANGED <<rx, cur, arrived, meter, buffer, st, speaker, stop, telemetry, history>>

-----------------------------------------------------------------------------
(* Telemetry.sample: the differences since the last sample, clamped at zero. *)
Delta(c) == st[c] - telemetry.prev[c]
Delivered == Max({0, Delta("received") - Delta("incoming_dropped")})

(* Mutant: a late datagram is taken for audio that was heard.  *)
IntervalLostWithoutLate == Max({0, Delta("expected") - Delivered})

IntervalLost == Max({0, Delta("expected") - Delivered + Delta("late")})

Sample ==
    /\ telemetry.rows < MaxSamples
    /\ telemetry' = [prev |-> st, lost |-> telemetry.lost + IntervalLost,
                     rows |-> telemetry.rows + 1]
    /\ torn' = IF rx \in {"received", "measured"} THEN torn + 1 ELSE torn
    /\ UNCHANGED <<rx, cur, arrived, meter, buffer, st, speaker, sink, stop, main, out>>

-----------------------------------------------------------------------------
ReceiverThread ==
    \/ \E s \in Stream : Receive(s)
    \/ Measure \/ DropIncoming \/ DropLate \/ Push \/ Pop \/ PopNothing
    \/ LeaveLoop \/ SocketFails \/ Flush \/ FlushEnds

Ended == main = "ended" /\ rx = "done" /\ UNCHANGED receiverVars

ReceiverNext == ReceiverThread \/ StopAsked \/ SenderEnds \/ CloseSink \/ Sample \/ Ended

ReceiverSpec == ReceiverInit /\ [][ReceiverNext]_receiverVars

-----------------------------------------------------------------------------
ReceiverTypeOK ==
    /\ rx \in {"waiting", "received", "measured", "popping", "flushing", "done"}
    /\ cur \in Stream \cup {None} /\ arrived \subseteq Stream
    /\ meter \in [top : Stream \cup {None}, low : Stream \cup {None}]
    /\ jb \subseteq Stream /\ last \in Stream \cup {None}
    /\ depth \in Depths /\ next \in Nat \cup {None}
    /\ st \in [Counters -> Nat]
    /\ queued \in Nat /\ played \in Nat /\ torn \in Nat
    /\ sink \in {"open", "closed"} /\ stop \in BOOLEAN
    /\ main \in {"sending", "joining", "ended"}
    /\ telemetry \in [prev : [Counters -> Nat], lost : Nat, rows : Nat]
    /\ out \in Seq([slot : Stream, how : {"decoded", "recovered", "concealed"}])

(* Whatever the network does and however the delay knob is turned, the       *)
(* listener never hears a slot twice or out of order, and no slot is skipped *)
(* except in a stall longer than MAX_GAP (playout.py, jitter.py).            *)
PlayedInOrder ==
    \A i \in 1..(Len(out) - 1) :
        LET gap == out[i + 1].slot - out[i].slot - 1 IN gap = 0 \/ gap > MaxGap

Made(how) == Cardinality({i \in DOMAIN out : out[i].how = how})

(* Every datagram that counted as received ended in exactly one place: taken *)
(* by the loss knob, late, played, still buffered or in the thread's hands;  *)
(* every repaired slot is in exactly one counter; and while the sink is open *)
(* every frame playout made was played or counted as skipped (demo.Stats).    *)
EveryDatagramCountedOnce ==
    /\ st["received"] = st["incoming_dropped"] + st["late"] + Made("decoded")
                        + Cardinality(jb)
                        + (IF rx \in {"received", "measured"} THEN 1 ELSE 0)
    /\ st["recovered"] = Made("recovered") /\ st["concealed"] = Made("concealed")
    /\ sink = "open" => played + st["skipped"] = Len(out)

(* Clamped per interval and sampled at any moment, the loss the rows show    *)
(* together is at least what was lost by the last sample: reordering across  *)
(* a sample may add to it, only a sample taken while a datagram was being    *)
(* counted can hide one (telemetry.py:64-70).                                *)
LossNotHidden ==
    LET p == telemetry.prev
    IN  telemetry.lost + torn
            >= p["expected"] - (p["received"] - p["incoming_dropped"]) + p["late"]

=============================================================================
