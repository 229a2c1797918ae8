--------------------------- MODULE ImpairmentProxy --------------------------
(***************************************************************************)
(* One direction of eval/udp_proxy.ImpairmentProxy: its thread takes a     *)
(* datagram from `wire`, decides to drop, duplicate, hold or delay it, and *)
(* hands it to `far` itself or through the lane's delay line.  Seeded draws*)
(* and the token bucket only choose among these, so each may happen.       *)
(***************************************************************************)
EXTENDS VoiceNetwork

CONSTANTS Datagrams,    (* what may be sent                                *)
          QueueMax,     (* QUEUE_MAX: admitted but not yet delivered       *)
          MaxRead       (* bound: datagrams the lane takes                 *)

ASSUME ProxyAssumption == QueueMax \in Nat /\ MaxRead \in Nat

VARIABLES
    lane,       (* the lane's thread: "running" or "gone"                  *)
    pline,      (* the lane's delay line                                   *)
    held,       (* the copies held back for a reorder                      *)
    inflight,   (* admitted and not yet delivered                          *)
    index,      (* datagrams processed                                     *)
    halted,     (* the proxy's stop event                                  *)
    far         (* what reached the other endpoint                         *)

pvars == <<lane, pline, held, inflight, index, halted, far>>

PInit ==
    /\ lane = "running" /\ pline = NewLine
    /\ held = EmptyBag /\ inflight = 0 /\ index = 0
    /\ halted = FALSE /\ far = EmptyBag

(* n copies of d. *)
Copies(d, n) == [x \in {d} |-> n]

(* The bags that some copies of b make. *)
Parts(b) ==
    {p \in UNION {[S -> 1..BagCardinality(b)] : S \in SUBSET BagToSet(b)} : p \sqsubseteq b}

(* emit() of every copy in b: each is delivered at once or delayed.          *)
Emit(b, admitted) ==
    \E now \in Parts(b) :
        /\ pline' = [pline EXCEPT !.heap = @ (+) (b (-) now)]
        /\ far' = far (+) now
        /\ inflight' = admitted - BagCardinality(now)

Arrival(d) ==
    /\ lane = "running" /\ ~halted
    /\ index < MaxRead /\ TakeOff(d)
    /\ index' = index + 1
    /\ UNCHANGED <<lane, halted>>

(* The loss model, an outage or a full queue drops it. *)
DropAtProxy(d) ==
    /\ Arrival(d)
    /\ UNCHANGED <<pline, held, inflight, far>>

Full(n) == inflight + n > QueueMax

(* Mutant: one admission counted for both copies. *)
AdmittedOnce(n) == inflight + 1

Admitted(n) == inflight + n

(* process(): held back when nothing is held yet... *)
HoldBack(d) ==
    /\ Arrival(d)
    /\ held = EmptyBag
    /\ \E n \in {1, 2} :
          /\ ~Full(n)
          /\ held' = Copies(d, n)
          /\ inflight' = Admitted(n)
    /\ UNCHANGED <<pline, far>>

(* ...or emitted, and what was held goes out behind it. *)
Forward(d) ==
    /\ Arrival(d)
    /\ \E n \in {1, 2} : ~Full(n) /\ Emit(Copies(d, n) (+) held, Admitted(n))
    /\ held' = EmptyBag

(* recvfrom times out: a held datagram does not wait for the next one.       *)
FlushHeld ==
    /\ lane = "running" /\ ~halted /\ held # EmptyBag
    /\ Emit(held, inflight)
    /\ held' = EmptyBag
    /\ UNCHANGED <<wire, lane, index, halted>>

ProxyLineDelivers(d) ==
    /\ pline.open
    /\ pline' = Taken(pline, d)
    /\ far' = far (+) One(d)
    /\ inflight' = inflight - 1
    /\ UNCHANGED <<wire, lane, held, index, halted>>

(* stop(): the thread is told, ... *)
Halt ==
    /\ ~halted /\ halted' = TRUE
    /\ UNCHANGED <<wire, lane, pline, held, inflight, index, far>>

LaneLeaves ==
    /\ lane = "running" /\ halted
    /\ lane' = "gone"
    /\ UNCHANGED <<wire, pline, held, inflight, index, halted, far>>

(* recvfrom fails: what is held stays held, and counted. *)
LaneFails ==
    /\ lane = "running" /\ ~halted
    /\ lane' = "gone"
    /\ UNCHANGED <<wire, pline, held, inflight, index, halted, far>>

(* ...joined, and the line is closed with what it holds. *)
CloseProxy ==
    /\ halted /\ lane = "gone" /\ pline.open
    /\ pline' = Closed(pline)
    /\ UNCHANGED <<wire, lane, held, inflight, index, halted, far>>

LaneThread ==
    \/ \E d \in Datagrams : DropAtProxy(d) \/ HoldBack(d) \/ Forward(d)
    \/ FlushHeld \/ LaneLeaves \/ LaneFails

PNext ==
    \/ LaneThread
    \/ \E d \in BagToSet(pline.heap) : ProxyLineDelivers(d)
    \/ Halt \/ CloseProxy

(* The lane's socket times out every _POLL_S and what is delayed falls due.  *)
PFairness ==
    /\ WF_<<wire, pvars>>(FlushHeld) /\ WF_<<wire, pvars>>(LaneLeaves)
    /\ WF_<<wire, pvars>>(CloseProxy)
    /\ WF_<<wire, pvars>>(\E d \in BagToSet(pline.heap) : ProxyLineDelivers(d))

-----------------------------------------------------------------------------
PTypeOK ==
    /\ lane \in {"running", "gone"} /\ halted \in BOOLEAN
    /\ IsABag(held) /\ IsABag(far) /\ inflight \in Nat /\ index \in 0..MaxRead
    /\ IsABag(pline.heap) /\ pline.open \in BOOLEAN

(* While the proxy runs, the datagrams it counts as admitted are the ones it *)
(* holds or delays, never more than QUEUE_MAX: the counter the lane's thread *)
(* raises and the line's thread lowers does not drift (udp_proxy.py:54-86).  *)
InflightIsWhatWaits ==
    pline.open => /\ inflight = BagCardinality(pline.heap) + BagCardinality(held)
                  /\ inflight <= QueueMax

=============================================================================
