---------------------------- MODULE CallControl -----------------------------
(***************************************************************************)
(* The control side of one call: at each peer a CallHandle (callctl.py),   *)
(* used by three threads,                                                  *)
(*   main    starts the handle, sends audio until the stop event is set,   *)
(*           then finishes the handle and closes the channel               *)
(*           (_run_call and the callers of it),                            *)
(*   reader  applies the messages of the peer,                             *)
(*   ui      presses "rotate keys" and "hang up" (gui.py),                 *)
(* over one established TLS channel: two FIFO streams of messages.         *)
(*                                                                         *)
(* Of the key ring this module keeps its generation and whether an older   *)
(* generation is still unexpired; when keys expire is left open here, so   *)
(* that everything shown holds for any delay of the channel.               *)
(***************************************************************************)
EXTENDS Integers, Sequences, FiniteSets

CONSTANTS Peers,        (* the two ends of the call                        *)
          MaxGen,       (* bound: users stop pressing rotate at this one   *)
          HangUppers,   (* the peers whose users may hang up               *)
          Finite,       (* the peers whose audio source may end by itself  *)
          Faults,       (* which of "crash", "reset", "partition" happen   *)
          UiSetsStop    (* the ui sets the stop event after hang_up()      *)

ASSUME PeersAssumption == \E a, b \in Peers : a # b /\ Peers = {a, b}
ASSUME BoundAssumption ==
    /\ MaxGen \in Nat
    /\ HangUppers \subseteq Peers /\ Finite \subseteq Peers
    /\ Faults \subseteq {"crash", "reset", "partition"}
    /\ UiSetsStop \in BOOLEAN

Other(p) == CHOOSE q \in Peers : q # p

VARIABLES
    main,           (* where the call's own thread is                      *)
    ui,             (* where the user interface's thread is in hang_up()   *)
    reader,         (* where the reader thread is                          *)
    stop,           (* the stop event                                      *)
    earlyHangUp,    (* _early_hang_up                                      *)
    endSent,        (* _end_sent                                           *)
    peerEnded, connectionLost, protocolError,
    gen,            (* the ring's generation                               *)
    retiring,       (* the ring holds an older, unexpired generation       *)
    chan,           (* the SecureChannel object: open, broken or closed    *)
    wire,           (* wire[p]: messages sent to p and not yet read        *)
    link,           (* the TCP connection: up, reset, or silently gone     *)
    announced       (* history: every generation a user rotated to         *)

threads == <<main, ui, reader>>
endings == <<peerEnded, connectionLost, protocolError>>
ring    == <<gen, retiring>>
net     == <<chan, wire, link>>
vars    == <<threads, stop, earlyHangUp, endSent, endings, ring, net, announced>>

KeyRotate(g) == [type |-> "KEY_ROTATE", gen |-> g]
CallEnd      == [type |-> "CALL_END", gen |-> 0]
Messages     == [type : {"KEY_ROTATE", "CALL_END"}, gen : Nat]

Init ==
    /\ main = [p \in Peers |-> "setup"]
    /\ ui = [p \in Peers |-> "idle"]
    /\ reader = [p \in Peers |-> "none"]
    /\ stop = [p \in Peers |-> FALSE]
    /\ earlyHangUp = [p \in Peers |-> FALSE]
    /\ endSent = [p \in Peers |-> FALSE]
    /\ peerEnded = [p \in Peers |-> FALSE]
    /\ connectionLost = [p \in Peers |-> FALSE]
    /\ protocolError = [p \in Peers |-> FALSE]
    /\ gen = [p \in Peers |-> 0]
    /\ retiring = [p \in Peers |-> FALSE]
    /\ chan = [p \in Peers |-> "open"]
    /\ wire = [p \in Peers |-> <<>>]
    /\ link = "up"
    /\ announced = {}

-----------------------------------------------------------------------------
(* The channel. *)

(* What p sends can still reach the other side. *)
CanSend(p) == link = "up" /\ chan[p] = "open" /\ chan[Other(p)] # "closed"

(* CallHandle._send: an error marks the channel broken and is swallowed.     *)
(* Once the other side is gone a message may also vanish into the kernel's   *)
(* buffer without an error.                                                  *)
Send(p, m) ==
    \/ /\ CanSend(p)
       /\ wire' = [wire EXCEPT ![Other(p)] = Append(@, m)]
       /\ UNCHANGED <<chan, link>>
    \/ /\ ~CanSend(p)
       /\ UNCHANGED net
    \/ /\ ~CanSend(p) /\ chan[p] = "open"
       /\ chan' = [chan EXCEPT ![p] = "broken"]
       /\ UNCHANGED <<wire, link>>

Prefix(s, n) == SubSeq(s, 1, n)

(* Everything that can still reach p has been read. *)
EndOfStream(p) ==
    /\ wire[p] = <<>>
    /\ link = "reset" \/ (link = "up" /\ chan[Other(p)] = "closed")

(* Close p's socket when `sent` is what the peer has not read.  A socket     *)
(* closed with unread data resets the connection, and what the peer has not  *)
(* read may be lost with it.                                                 *)
CloseSocket(p, sent) ==
    /\ chan' = [chan EXCEPT ![p] = "closed"]
    /\ \/ wire' = [wire EXCEPT ![Other(p)] = sent]
       \/ /\ wire[p] # <<>>
          /\ \E n \in 0..Len(sent) : wire' = [wire EXCEPT ![Other(p)] = Prefix(sent, n)]
    /\ UNCHANGED link

-----------------------------------------------------------------------------
(* The call's own thread. *)

(* start(), up to the creation of the ring: from here on hang_up() takes its *)
(* normal path and rotate_keys() finds a ring.                               *)
Start(p) ==
    /\ main[p] = "setup"
    /\ main' = [main EXCEPT ![p] = "starting"]
    /\ UNCHANGED <<ui, reader, stop, earlyHangUp, endSent, endings, ring, net, announced>>

(* The rest of start(): obey an early hang-up, start the reader.             *)
StartReader(p) ==
    /\ main[p] = "starting"
    /\ stop' = [stop EXCEPT ![p] = @ \/ earlyHangUp[p]]
    /\ reader' = [reader EXCEPT ![p] = "polling"]
    /\ main' = [main EXCEPT ![p] = "sending"]
    /\ UNCHANGED <<ui, earlyHangUp, endSent, endings, ring, net, announced>>

(* The call never starts: declined, hung up or timed out while setting up.   *)
(* A listener that declines says so; then the channel is closed.             *)
GiveUp(p) ==
    /\ main[p] = "setup"
    /\ main' = [main EXCEPT ![p] = "ended"]
    /\ \/ CloseSocket(p, wire[Other(p)])
       \/ CanSend(p) /\ CloseSocket(p, Append(wire[Other(p)], CallEnd))
    /\ UNCHANGED <<ui, reader, stop, earlyHangUp, endSent, endings, ring, announced>>

(* The audio source is exhausted or the voice socket fails: the only ways to *)
(* stop that no peer, reader or user asked for.                              *)
SourceEnds(p) ==
    /\ p \in Finite /\ main[p] = "sending" /\ ~stop[p]
    /\ stop' = [stop EXCEPT ![p] = TRUE]
    /\ UNCHANGED <<threads, earlyHangUp, endSent, endings, ring, net, announced>>

SenderStops(p) ==
    /\ main[p] = "sending" /\ stop[p]
    /\ main' = [main EXCEPT ![p] = "finishing"]
    /\ UNCHANGED <<ui, reader, stop, earlyHangUp, endSent, endings, ring, net, announced>>

(* _end_call: CALL_END goes out once, whichever thread gets here first.      *)
EndCall(p) ==
    \/ endSent[p] /\ UNCHANGED <<endSent, net>>
    \/ ~endSent[p] /\ endSent' = [endSent EXCEPT ![p] = TRUE] /\ Send(p, CallEnd)

(* finish(), up to the join. *)
Finish(p) ==
    /\ main[p] = "finishing"
    /\ IF peerEnded[p] \/ connectionLost[p]
       THEN UNCHANGED <<endSent, net>>
       ELSE EndCall(p)
    /\ main' = [main EXCEPT ![p] = "joining"]
    /\ UNCHANGED <<ui, reader, stop, earlyHangUp, endings, ring, announced>>

(* The join returns, because the reader is gone or the timeout passed, and   *)
(* the channel is closed.                                                    *)
Close(p) ==
    /\ main[p] = "joining"
    /\ main' = [main EXCEPT ![p] = "ended"]
    /\ CloseSocket(p, wire[Other(p)])
    /\ UNCHANGED <<ui, reader, stop, earlyHangUp, endSent, endings, ring, announced>>

-----------------------------------------------------------------------------
(* The user interface's thread. *)

(* Mutant: a rotation the peer is not told of. *)
RotateKeysUnannounced(p) ==
    /\ ui[p] \in {"idle", "done"} /\ main[p] \notin {"setup", "ended", "crashed"}
    /\ ~retiring[p] /\ gen[p] < MaxGen
    /\ gen' = [gen EXCEPT ![p] = @ + 1]
    /\ retiring' = [retiring EXCEPT ![p] = TRUE]
    /\ announced' = announced \cup {gen[p] + 1}
    /\ UNCHANGED <<threads, stop, earlyHangUp, endSent, endings, net>>

(* rotate_keys(), one critical section of _send_lock.                        *)
RotateKeys(p) ==
    /\ ui[p] \in {"idle", "done"} /\ main[p] \notin {"setup", "ended", "crashed"}
    /\ ~retiring[p] /\ gen[p] < MaxGen
    /\ gen' = [gen EXCEPT ![p] = @ + 1]
    /\ retiring' = [retiring EXCEPT ![p] = TRUE]
    /\ announced' = announced \cup {gen[p] + 1}
    /\ Send(p, KeyRotate(gen[p] + 1))
    /\ UNCHANGED <<threads, stop, earlyHangUp, endSent, endings>>

(* The older generations expire (a finished call's ring is not used again).  *)
KeysRetire(p) ==
    /\ retiring[p] /\ main[p] \notin {"ended", "crashed"}
    /\ retiring' = [retiring EXCEPT ![p] = FALSE]
    /\ UNCHANGED <<threads, stop, earlyHangUp, endSent, endings, gen, net, announced>>

(* hang_up() looks whether there is a call (line 64)...                      *)
HangUp(p) ==
    /\ ui[p] = "idle" /\ p \in HangUppers
    /\ ui' = [ui EXCEPT ![p] = IF main[p] = "setup" THEN "too early" ELSE "ending"]
    /\ UNCHANGED <<main, reader, stop, earlyHangUp, endSent, endings, ring, net, announced>>

(* ...and only then leaves a note for start(), or tells the peer, ...        *)
HangUpNotes(p) ==
    /\ ui[p] = "too early"
    /\ earlyHangUp' = [earlyHangUp EXCEPT ![p] = TRUE]
    /\ ui' = [ui EXCEPT ![p] = IF UiSetsStop THEN "stopping" ELSE "done"]
    /\ UNCHANGED <<main, reader, stop, endSent, endings, ring, net, announced>>

HangUpTellsPeer(p) ==
    /\ ui[p] = "ending"
    /\ EndCall(p)
    /\ ui' = [ui EXCEPT ![p] = "stopping"]
    /\ UNCHANGED <<main, reader, stop, earlyHangUp, endings, ring, announced>>

(* ...and sets the stop event (line 68, and gui.py after hang_up returns).   *)
HangUpStops(p) ==
    /\ ui[p] = "stopping"
    /\ stop' = [stop EXCEPT ![p] = TRUE]
    /\ ui' = [ui EXCEPT ![p] = "done"]
    /\ UNCHANGED <<main, reader, earlyHangUp, endSent, endings, ring, net, announced>>

-----------------------------------------------------------------------------
(* The reader thread. *)

ReaderPolls(p) ==
    /\ reader[p] = "polling"
    /\ reader' = [reader EXCEPT ![p] = IF stop[p] THEN "leaving" ELSE "receiving"]
    /\ UNCHANGED <<main, ui, stop, earlyHangUp, endSent, endings, ring, net, announced>>

(* recv() times out after POLL: the reader looks at the stop event again.    *)
ReaderTimesOut(p) ==
    /\ reader[p] = "receiving"
    /\ chan[p] = "open" /\ ~EndOfStream(p)
    /\ reader' = [reader EXCEPT ![p] = "polling"]
    /\ UNCHANGED <<main, ui, stop, earlyHangUp, endSent, endings, ring, net, announced>>

(* Mutant: a lost connection is taken for a timeout. *)
ReaderPollsOn(p) ==
    /\ reader[p] = "receiving"
    /\ chan[p] # "open" \/ EndOfStream(p)
    /\ reader' = [reader EXCEPT ![p] = "polling"]
    /\ UNCHANGED <<main, ui, stop, earlyHangUp, endSent, endings, ring, net, announced>>

(* recv() raises ConnectionError: the channel is broken or closed under the  *)
(* reader, or the stream has ended.                                          *)
ReaderLosesConnection(p) ==
    /\ reader[p] = "receiving"
    /\ chan[p] # "open" \/ EndOfStream(p)
    /\ connectionLost' = [connectionLost EXCEPT ![p] = TRUE]
    /\ chan' = [chan EXCEPT ![p] = IF @ = "open" THEN "broken" ELSE @]
    /\ reader' = [reader EXCEPT ![p] = "leaving"]
    /\ UNCHANGED <<main, ui, stop, earlyHangUp, endSent, peerEnded, protocolError,
                   ring, wire, link, announced>>

(* _apply of a CALL_END. *)
ApplyCallEnd(p) ==
    /\ peerEnded' = [peerEnded EXCEPT ![p] = TRUE]
    /\ reader' = [reader EXCEPT ![p] = "leaving"]
    /\ UNCHANGED <<connectionLost, protocolError, ring>>

(* Mutant: the peer's rotation does not move the ring. *)
ApplyKeyRotateForgotten(p, g) ==
    /\ IF g > gen[p] + 1
       THEN /\ protocolError' = [protocolError EXCEPT ![p] = TRUE]
            /\ reader' = [reader EXCEPT ![p] = "leaving"]
       ELSE /\ reader' = [reader EXCEPT ![p] = "polling"]
            /\ UNCHANGED protocolError
    /\ UNCHANGED <<peerEnded, connectionLost, ring>>

(* Mutant: rotate_next() for rotate_to(): a crossing rotation rotates again. *)
ApplyKeyRotateTwice(p, g) ==
    /\ g <= gen[p] + 1
    /\ gen' = [gen EXCEPT ![p] = @ + 1]
    /\ retiring' = [retiring EXCEPT ![p] = TRUE]
    /\ reader' = [reader EXCEPT ![p] = "polling"]
    /\ UNCHANGED endings

(* _apply of a KEY_ROTATE, one critical section of _send_lock.  A generation *)
(* already reached is a crossing rotation and changes nothing.               *)
ApplyKeyRotate(p, g) ==
    \/ /\ g > gen[p] + 1
       /\ protocolError' = [protocolError EXCEPT ![p] = TRUE]
       /\ reader' = [reader EXCEPT ![p] = "leaving"]
       /\ UNCHANGED <<peerEnded, connectionLost, ring>>
    \/ /\ g = gen[p] + 1
       /\ gen' = [gen EXCEPT ![p] = g]
       /\ retiring' = [retiring EXCEPT ![p] = TRUE]
       /\ reader' = [reader EXCEPT ![p] = "polling"]
       /\ UNCHANGED endings
    \/ /\ g <= gen[p]
       /\ reader' = [reader EXCEPT ![p] = "polling"]
       /\ UNCHANGED <<endings, ring>>

ReaderApplies(p) ==
    /\ reader[p] = "receiving"
    /\ chan[p] = "open" /\ wire[p] # <<>> /\ link # "partitioned"
    /\ wire' = [wire EXCEPT ![p] = Tail(@)]
    /\ LET m == Head(wire[p])
       IN  IF m.type = "CALL_END" THEN ApplyCallEnd(p) ELSE ApplyKeyRotate(p, m.gen)
    /\ UNCHANGED <<main, ui, stop, earlyHangUp, endSent, chan, link, announced>>

(* Mutant: no finally clause. *)
ReaderLeavesQuietly(p) ==
    /\ reader[p] = "leaving"
    /\ reader' = [reader EXCEPT ![p] = "gone"]
    /\ UNCHANGED <<main, ui, stop, earlyHangUp, endSent, endings, ring, net, announced>>

(* The finally clause. *)
ReaderLeaves(p) ==
    /\ reader[p] = "leaving"
    /\ stop' = [stop EXCEPT ![p] = TRUE]
    /\ reader' = [reader EXCEPT ![p] = "gone"]
    /\ UNCHANGED <<main, ui, earlyHangUp, endSent, endings, ring, net, announced>>

-----------------------------------------------------------------------------
(* The environment. *)

(* The process of p dies; its kernel closes the socket. *)
Crash(p) ==
    /\ "crash" \in Faults /\ main[p] \notin {"ended", "crashed"}
    /\ main' = [main EXCEPT ![p] = "crashed"]
    /\ ui' = [ui EXCEPT ![p] = "gone"]
    /\ reader' = [reader EXCEPT ![p] = "gone"]
    /\ CloseSocket(p, wire[Other(p)])
    /\ UNCHANGED <<stop, earlyHangUp, endSent, endings, ring, announced>>

(* The TCP connection is reset; messages in flight may be lost. *)
Reset(p) ==
    /\ "reset" \in Faults /\ link = "up"
    /\ link' = "reset"
    /\ \E n \in 0..Len(wire[p]), m \in 0..Len(wire[Other(p)]) :
          wire' = [wire EXCEPT ![p] = Prefix(@, n), ![Other(p)] = Prefix(@, m)]
    /\ UNCHANGED <<threads, stop, earlyHangUp, endSent, endings, ring, chan, announced>>

(* The network between the peers is gone and nobody is told. *)
Partition ==
    /\ "partition" \in Faults /\ link = "up"
    /\ link' = "partitioned"
    /\ UNCHANGED <<threads, stop, earlyHangUp, endSent, endings, ring, chan, wire, announced>>

-----------------------------------------------------------------------------
MainThread(p) ==
    \/ Start(p) \/ StartReader(p) \/ GiveUp(p)
    \/ SenderStops(p) \/ Finish(p) \/ Close(p)

UiThread(p) == HangUpNotes(p) \/ HangUpTellsPeer(p) \/ HangUpStops(p)

ReaderThread(p) ==
    \/ ReaderPolls(p) \/ ReaderTimesOut(p) \/ ReaderLosesConnection(p)
    \/ ReaderApplies(p) \/ ReaderLeaves(p)

User(p) == RotateKeys(p) \/ HangUp(p) \/ SourceEnds(p)

Environment(p) == KeysRetire(p) \/ Crash(p) \/ Reset(p)

(* Both calls are over and no thread is left waiting. *)
AllOver ==
    /\ \A p \in Peers : /\ main[p] \in {"ended", "crashed"}
                        /\ ui[p] \in {"idle", "done", "gone"}
                        /\ reader[p] \in {"none", "gone"}
    /\ UNCHANGED vars

Next ==
    \/ \E p \in Peers :
          MainThread(p) \/ UiThread(p) \/ ReaderThread(p) \/ User(p) \/ Environment(p)
    \/ Partition
    \/ AllOver

Spec == Init /\ [][Next]_vars

(* Threads are scheduled; setting up a call is bounded by timeouts on every  *)
(* path, so it ends one way or the other; recv() keeps polling, and TCP      *)
(* delivers what was sent while the connection lives.                        *)
Fairness ==
    \A p \in Peers :
        /\ WF_vars(MainThread(p)) /\ WF_vars(UiThread(p)) /\ WF_vars(ReaderThread(p))
        /\ SF_vars(ReaderApplies(p))

FairSpec == Spec /\ Fairness

-----------------------------------------------------------------------------
TypeOK ==
    /\ main \in [Peers -> {"setup", "starting", "sending", "finishing", "joining",
                           "ended", "crashed"}]
    /\ ui \in [Peers -> {"idle", "too early", "ending", "stopping", "done", "gone"}]
    /\ reader \in [Peers -> {"none", "polling", "receiving", "leaving", "gone"}]
    /\ stop \in [Peers -> BOOLEAN]
    /\ earlyHangUp \in [Peers -> BOOLEAN]
    /\ endSent \in [Peers -> BOOLEAN]
    /\ peerEnded \in [Peers -> BOOLEAN]
    /\ connectionLost \in [Peers -> BOOLEAN]
    /\ protocolError \in [Peers -> BOOLEAN]
    /\ gen \in [Peers -> Nat]
    /\ retiring \in [Peers -> BOOLEAN]
    /\ chan \in [Peers -> {"open", "broken", "closed"}]
    /\ wire \in [Peers -> Seq(Messages)]
    /\ link \in {"up", "reset", "partitioned"}
    /\ announced \in SUBSET Nat

(* Honest peers never end a call with a protocol error: however rotations    *)
(* cross and however long TCP delays them, a KEY_ROTATE arrives when its     *)
(* receiver is at k - 1 or later (callctl.py:126-131, ADR 0004).             *)
NoProtocolError == \A p \in Peers : ~protocolError[p]

IsRotation(m) == m.type = "KEY_ROTATE"

(* s carries the rotation to generation g. *)
Carries(s, g) == \E i \in 1..Len(s) : IsRotation(s[i]) /\ s[i].gen = g

(* While the channel works, a peer that is behind has the rotation that      *)
(* brings it to the other's generation on its way: the sides converge on the *)
(* higher generation once the wire is read (ADR 0004).                       *)
Convergence ==
    \A p \in Peers :
        gen[p] > gen[Other(p)] /\ CanSend(p) => Carries(wire[Other(p)], gen[p])

Promise == INSTANCE Agreement

(* Rotation keeps what ADR 0004 promises of it: each side takes the          *)
(* generations one at a time and only because its user pressed or to follow  *)
(* a peer that is ahead.  Two presses that cross make one generation, and no *)
(* message makes a second one (callctl.py:46-58, 126-131).                   *)
RotationsAgree == Promise!Spec

(* When a user hangs up, at whatever moment, the calls of both peers end.    *)
HangUpEndsBoth ==
    \A p, q \in Peers :
        (ui[p] \in {"too early", "ending", "stopping", "done"})
            ~> (main[q] \in {"ended", "crashed"})

(* When the process of a peer dies, the call of the other ends: it learns of *)
(* the death through the TCP channel (demo.py:473-475).                      *)
DeadPeerEndsCall ==
    \A p \in Peers : (main[p] = "crashed") ~> (main[Other(p)] \in {"ended", "crashed"})

-----------------------------------------------------------------------------
(* Why NoProtocolError holds.  A reader at generation g that reads s in      *)
(* order never meets a rotation more than one ahead of where it then is, ... *)
InSequence(s, g) ==
    \A i \in 1..Len(s) :
        IsRotation(s[i]) =>
            \/ s[i].gen <= g + 1
            \/ \E j \in 1..(i - 1) : IsRotation(s[j]) /\ s[j].gen >= s[i].gen - 1

(* ...and no rotation in s is ahead of its sender.                           *)
NotAhead(s, g) == \A i \in 1..Len(s) : IsRotation(s[i]) => s[i].gen <= g

WireInSequence ==
    \A p \in Peers : InSequence(wire[p], gen[p]) /\ NotAhead(wire[p], gen[Other(p)])

IInv == TypeOK /\ NoProtocolError /\ Convergence /\ WireInSequence

=============================================================================
