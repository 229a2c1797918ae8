---------------------------- MODULE SecureChannel ---------------------------
(***************************************************************************)
(* secure.SecureChannel at both ends of one TCP connection: establish(),   *)
(* then send(), recv(), media_keys() and close().                          *)
(*                                                                         *)
(* TLS is external: a handshake message is one unit of the wire, it proves *)
(* the key of its sender, and application data arrive as the bytes sent,   *)
(* in order, cut into chunks anywhere.  A control frame is three header    *)
(* bytes, the last one the payload's length, and the payload.              *)
(***************************************************************************)
EXTENDS Integers, Sequences, SequencesExt

CONSTANTS Payloads,     (* what send() is called with, as byte sequences   *)
          MaxSends,     (* bound: messages the ends send together          *)
          Breaks        (* which of "timeout", "reset" happen              *)

ASSUME ChannelAssumption ==
    /\ Payloads \subseteq Seq(0..255)
    /\ MaxSends \in Nat /\ Breaks \subseteq {"timeout", "reset"}

Ends == {"client", "server"}
Other(e) == IF e = "client" THEN "server" ELSE "client"

ALPN == 1
PAIR_ALPN == 2
READY == <<4, 0, 0>>

VARIABLES
    cfg,        (* what each end was given: keys, pins, offer, ...         *)
    phase,      (* how far establish() is at each end                      *)
    mode,       (* the ALPN an end settled on                              *)
    wire,       (* wire[e]: units sent to e and not yet read               *)
    shut,       (* e's socket is closed                                    *)
    cut,        (* the connection was reset                                *)
    state,      (* the channel object: open, broken or closed              *)
    rbuf,       (* _rbuf: the bytes of an unfinished frame                 *)
    bio,        (* units the SSL object holds                              *)
    reader,     (* where the reader thread is in recv()                    *)
    chunk,      (* what it read from the socket and has not passed on      *)
    keys,       (* _keys: none, there or taken                             *)
    said, got,  (* history: frames sent, and returned by recv()            *)
    handed      (* history: how often media_keys() returned                *)

setup  == <<cfg, phase, mode>>
net    == <<wire, shut, cut>>
input  == <<rbuf, bio, reader, chunk>>
ledger == <<said, got, handed>>
vars   == <<setup, net, state, input, keys, ledger>>

Hello(a)    == [kind |-> "hello", val |-> a]
Flight(a)   == [kind |-> "flight", val |-> a]
Finished    == [kind |-> "finished", val |-> 0]
Alert       == [kind |-> "alert", val |-> 0]
CloseNotify == [kind |-> "bye", val |-> 0]
V1Record    == [kind |-> "v1", val |-> 0]
Data(bytes) == [i \in DOMAIN bytes |-> [kind |-> "data", val |-> bytes[i]]]
Bytes(units) == [i \in DOMAIN units |-> units[i].val]

Frame(p) == <<1, 0, Len(p)>> \o p

(* Both computers may hold one identity; each end pins what its user chose,  *)
(* a client that pairs nothing.                                              *)
Configs ==
    [v1 : BOOLEAN, offer : {ALPN, PAIR_ALPN}, accept : BOOLEAN,
     key : {[client |-> "c", server |-> s] : s \in {"s", "c"}},
     pins : [client : {{}, {"s"}, {"x"}, {"c"}}, server : {{}, {"c"}, {"x"}}]]

Init ==
    /\ cfg \in {c \in Configs : c.offer = PAIR_ALPN <=> c.pins.client = {}}
    /\ phase = [e \in Ends |-> "start"]
    /\ mode = [e \in Ends |-> 0]
    /\ wire = [e \in Ends |-> <<>>]
    /\ shut = [e \in Ends |-> FALSE] /\ cut = FALSE
    /\ state = [e \in Ends |-> "open"]
    /\ rbuf = [e \in Ends |-> <<>>] /\ bio = [e \in Ends |-> <<>>]
    /\ reader = [e \in Ends |-> "trying"] /\ chunk = [e \in Ends |-> <<>>]
    /\ keys = [e \in Ends |-> "none"]
    /\ said = [e \in Ends |-> <<>>] /\ got = [e \in Ends |-> <<>>]
    /\ handed = [e \in Ends |-> 0]

-----------------------------------------------------------------------------
(* establish() *)

Own(e)  == cfg.key[e]
Peer(e) == cfg.key[Other(e)]

(* _abort after a HandshakeError; an alert may be flushed first. *)
Refuse(e, alert) ==
    /\ phase' = [phase EXCEPT ![e] = "failed"]
    /\ wire' = [wire EXCEPT ![e] = <<>>, ![Other(e)] = @ \o alert]
    /\ shut' = [shut EXCEPT ![e] = TRUE]
    /\ state' = [state EXCEPT ![e] = "closed"]
    /\ UNCHANGED <<cfg, mode, cut, input, keys, ledger>>

Reply(e, head, units, to) ==
    /\ wire' = [wire EXCEPT ![e] = Tail(@), ![Other(e)] = @ \o units]
    /\ phase' = [phase EXCEPT ![e] = to]
    /\ UNCHANGED <<cfg, shut, cut, state, input, ledger>>

(* A pin that is our own key is refused before anything is sent. *)
OwnKeyPinned(e) ==
    /\ phase[e] = "start" /\ Own(e) \in cfg.pins[e]
    /\ Refuse(e, <<>>)

Start(e) ==
    /\ phase[e] = "start" /\ Own(e) \notin cfg.pins[e]
    /\ phase' = [phase EXCEPT ![e] = IF e = "client" THEN "hello_sent" ELSE "accepting"]
    /\ wire' = IF e = "server" THEN wire
               ELSE [wire EXCEPT !.server = <<IF cfg.v1 THEN V1Record ELSE Hello(cfg.offer)>>]
    /\ UNCHANGED <<cfg, mode, shut, cut, state, input, keys, ledger>>

Reads(e, kind) == ~shut[e] /\ wire[e] # <<>> /\ Head(wire[e]).kind = kind

Allowed == IF cfg.accept THEN {ALPN, PAIR_ALPN} ELSE {ALPN}

(* The first record of a v1 peer is told from a ClientHello. *)
ServerMeetsV1 ==
    /\ phase["server"] = "accepting" /\ Reads("server", "v1")
    /\ Refuse("server", <<>>)

ServerAnswers ==
    /\ phase["server"] = "accepting" /\ Reads("server", "hello")
    /\ LET a == Head(wire["server"]).val
       IN  IF a \in Allowed
           THEN Reply("server", a, <<Flight(a)>>, "flight_sent") /\ UNCHANGED <<mode, keys>>
           ELSE Refuse("server", <<Alert>>)

(* verify(): the pinned key, or any key but our own where pairing may be.    *)
AllowUnknown(e) == IF e = "client" THEN cfg.offer = PAIR_ALPN ELSE cfg.accept
Verified(e) == Peer(e) # Own(e) /\ (Peer(e) \in cfg.pins[e] \/ AllowUnknown(e))

ClientVerifies ==
    /\ phase["client"] = "hello_sent" /\ Reads("client", "flight")
    /\ IF Verified("client")
       THEN /\ Reply("client", 0, <<Finished>>, "awaiting")
            /\ mode' = [mode EXCEPT !.client = cfg.offer]
            /\ UNCHANGED keys
       ELSE Refuse("client", <<Alert>>)

(* Mutant: the verdict of verify() is enough. *)
CallAllowedUnchecked(e, a) == TRUE

(* _check_negotiated: calls need the pinned key, even on a server that also  *)
(* lets unknown keys pair.                                                   *)
CallAllowed(e, a) == a = ALPN => Peer(e) \in cfg.pins[e]

Selected == cfg.offer

KeysFor(a) == IF a = ALPN THEN "there" ELSE "none"

(* The server checks the client's key, says READY and is done. *)
ServerAccepts ==
    /\ phase["server"] = "flight_sent" /\ Reads("server", "finished")
    /\ IF ~Verified("server") THEN Refuse("server", <<Alert>>)
       ELSE IF ~CallAllowed("server", Selected) THEN Refuse("server", <<>>)
       ELSE /\ Reply("server", 0, Data(READY), "up")
            /\ mode' = [mode EXCEPT !.server = Selected]
            /\ keys' = [keys EXCEPT !.server = KeysFor(Selected)]

(* The peer's alert, or its end of the stream. *)
EndOfStream(e) == wire[e] = <<>> /\ (shut[Other(e)] \/ cut)

Establishing(e) == phase[e] \in {"hello_sent", "accepting", "flight_sent", "awaiting"}

PeerRefused(e) ==
    /\ Establishing(e) /\ ~shut[e]
    /\ EndOfStream(e) \/ Reads(e, "alert") \/ Reads(e, "bye")
    /\ Refuse(e, <<>>)

(* The deadline passes. *)
Timeout(e) ==
    /\ "timeout" \in Breaks /\ Establishing(e)
    /\ Refuse(e, <<>>)

-----------------------------------------------------------------------------
(* Frames. *)

(* Mutant: whatever has arrived is read, not just what the frame needs. *)
TryFrameGreedy(buf, units) ==
    LET all == buf \o Bytes(units)
    IN  IF Len(all) >= 3 /\ Len(all) >= 3 + all[3]
        THEN [frame |-> all, rbuf |-> <<>>, rest |-> <<>>]
        ELSE [frame |-> <<>>, rbuf |-> all, rest |-> <<>>]

(* What TLS hands out: the data before the peer's close_notify.              *)
Readable(units) ==
    SubSeq(units, 1, Max({n \in 0..Len(units) : \A i \in 1..n : units[i].kind = "data"}))

(* _try_frame: the next complete frame, or all the bytes so far. *)
TryFrame(buf, units) ==
    LET data == Bytes(Readable(units))
        all  == buf \o data
        need == IF Len(all) < 3 THEN 3 ELSE 3 + all[3]
        used == IF Len(all) >= need THEN need - Len(buf) ELSE Len(data)
    IN  [frame |-> IF Len(all) >= need THEN SubSeq(all, 1, need) ELSE <<>>,
         rbuf  |-> IF Len(all) >= need THEN <<>> ELSE all,
         rest  |-> SubSeq(units, used + 1, Len(units))]

(* Mutant: the client is done with its own side of the handshake. *)
SkipReady ==
    /\ phase["client"] = "awaiting"
    /\ phase' = [phase EXCEPT !.client = "up"]
    /\ keys' = [keys EXCEPT !.client = KeysFor(mode["client"])]
    /\ UNCHANGED <<cfg, mode, net, state, input, ledger>>

(* _await_ready: the client takes the server's word before it is done.       *)
AwaitReady ==
    /\ phase["client"] = "awaiting" /\ Reads("client", "data")
    /\ \E n \in 1..Len(wire["client"]) :
        LET new == SubSeq(wire["client"], 1, n)
            try == TryFrame(rbuf["client"], bio["client"] \o new)
        IN  /\ \A i \in 1..n : new[i].kind = "data"
            /\ wire' = [wire EXCEPT !.client = SubSeq(@, n + 1, Len(@))]
            /\ rbuf' = [rbuf EXCEPT !.client = try.rbuf]
            /\ bio' = [bio EXCEPT !.client = try.rest]
            /\ IF try.frame = READY
               THEN /\ phase' = [phase EXCEPT !.client = "up"]
                    /\ keys' = [keys EXCEPT !.client = KeysFor(mode["client"])]
               ELSE UNCHANGED <<phase, keys>>
    /\ UNCHANGED <<cfg, mode, shut, cut, state, reader, chunk, ledger>>

Up(e) == phase[e] = "up"
Usable(e) == Up(e) /\ state[e] = "open"

CanSend(e) == ~cut /\ ~shut[Other(e)]

(* send(), in one critical section; an error breaks the channel. *)
Send(e, p) ==
    /\ Usable(e) /\ Len(said[e]) + Len(said[Other(e)]) < MaxSends
    /\ IF CanSend(e)
       THEN /\ wire' = [wire EXCEPT ![Other(e)] = @ \o Data(Frame(p))]
            /\ said' = [said EXCEPT ![e] = Append(@, Frame(p))]
            /\ UNCHANGED state
       ELSE /\ state' = [state EXCEPT ![e] = "broken"]
            /\ UNCHANGED <<wire, said>>
    /\ UNCHANGED <<setup, shut, cut, input, keys, got, handed>>

(* recv(), first critical section: a frame is returned if one is complete;   *)
(* the peer's close_notify breaks the channel.                               *)
RecvTry(e) ==
    /\ Usable(e) /\ reader[e] = "trying"
    /\ LET try == TryFrame(rbuf[e], bio[e])
           bye == try.frame = <<>> /\ try.rest # <<>>
       IN  /\ rbuf' = [rbuf EXCEPT ![e] = try.rbuf]
           /\ bio' = [bio EXCEPT ![e] = try.rest]
           /\ got' = IF try.frame = <<>> THEN got
                     ELSE [got EXCEPT ![e] = Append(@, try.frame)]
           /\ reader' = IF try.frame = <<>> /\ ~bye THEN [reader EXCEPT ![e] = "waiting"]
                        ELSE reader
           /\ state' = IF bye THEN [state EXCEPT ![e] = "broken"] ELSE state
    /\ UNCHANGED <<setup, net, chunk, keys, said, handed>>

(* ...no lock: some units are read, the stream has ended, or time is up. *)
RecvWaits(e) ==
    /\ reader[e] = "waiting" /\ ~shut[e]
    /\ \/ \E n \in 1..Len(wire[e]) :
             /\ chunk' = [chunk EXCEPT ![e] = SubSeq(wire[e], 1, n)]
             /\ wire' = [wire EXCEPT ![e] = SubSeq(@, n + 1, Len(@))]
             /\ reader' = [reader EXCEPT ![e] = "holding"]
       \/ /\ EndOfStream(e)
          /\ reader' = [reader EXCEPT ![e] = "holding"]
          /\ UNCHANGED <<chunk, wire>>
       \/ /\ reader' = [reader EXCEPT ![e] = "trying"]
          /\ UNCHANGED <<chunk, wire>>
    /\ UNCHANGED <<setup, shut, cut, state, rbuf, bio, keys, ledger>>

(* ...second critical section: it goes to the SSL object. *)
RecvFeeds(e) ==
    /\ Usable(e) /\ reader[e] = "holding"
    /\ state' = IF chunk[e] = <<>> THEN [state EXCEPT ![e] = "broken"] ELSE state
    /\ bio' = [bio EXCEPT ![e] = @ \o chunk[e]]
    /\ chunk' = [chunk EXCEPT ![e] = <<>>]
    /\ reader' = [reader EXCEPT ![e] = "trying"]
    /\ UNCHANGED <<setup, net, rbuf, keys, ledger>>

(* media_keys(): once, and never of a pairing channel. *)
TakeMediaKeys(e) ==
    /\ Up(e) /\ keys[e] = "there"
    /\ keys' = [keys EXCEPT ![e] = "taken"]
    /\ handed' = [handed EXCEPT ![e] = @ + 1]
    /\ UNCHANGED <<setup, net, state, input, said, got>>

(* close(): close_notify if it still goes out; then the socket is closed,    *)
(* and with unread input what is on its way to the peer may be lost.         *)
Close(e) ==
    /\ Up(e) /\ state[e] # "closed"
    /\ state' = [state EXCEPT ![e] = "closed"]
    /\ shut' = [shut EXCEPT ![e] = TRUE]
    /\ LET out == IF CanSend(e) THEN Append(wire[Other(e)], CloseNotify) ELSE wire[Other(e)]
       IN  \/ wire' = [wire EXCEPT ![Other(e)] = out]
           \/ /\ wire[e] # <<>>
              /\ \E n \in 0..Len(out) : wire' = [wire EXCEPT ![Other(e)] = SubSeq(out, 1, n)]
    /\ UNCHANGED <<setup, cut, input, keys, ledger>>

(* The network resets the connection. *)
Reset ==
    /\ "reset" \in Breaks /\ ~cut
    /\ cut' = TRUE
    /\ \E n \in 0..Len(wire["client"]), m \in 0..Len(wire["server"]) :
          wire' = [client |-> SubSeq(wire["client"], 1, n),
                   server |-> SubSeq(wire["server"], 1, m)]
    /\ UNCHANGED <<setup, shut, state, input, keys, ledger>>

-----------------------------------------------------------------------------
Establish(e) == OwnKeyPinned(e) \/ Start(e) \/ PeerRefused(e) \/ Timeout(e)

Handshake == ServerMeetsV1 \/ ServerAnswers \/ ClientVerifies \/ ServerAccepts \/ AwaitReady

Use(e) ==
    \/ \E p \in Payloads : Send(e, p)
    \/ RecvTry(e) \/ RecvWaits(e) \/ RecvFeeds(e) \/ TakeMediaKeys(e) \/ Close(e)

Over == (\A e \in Ends : state[e] # "open" \/ phase[e] = "failed") /\ UNCHANGED vars

Next == Handshake \/ (\E e \in Ends : Establish(e) \/ Use(e)) \/ Reset \/ Over

Spec == Init /\ [][Next]_vars

-----------------------------------------------------------------------------
TypeOK ==
    /\ phase \in [Ends -> {"start", "hello_sent", "accepting", "flight_sent", "awaiting",
                           "up", "failed"}]
    /\ mode \in [Ends -> {0, ALPN, PAIR_ALPN}]
    /\ shut \in [Ends -> BOOLEAN] /\ cut \in BOOLEAN
    /\ state \in [Ends -> {"open", "broken", "closed"}]
    /\ reader \in [Ends -> {"trying", "waiting", "holding"}]
    /\ keys \in [Ends -> {"none", "there", "taken"}] /\ handed \in [Ends -> Nat]

(* When establish() returns to the caller the listener has accepted it, in   *)
(* the same mode: a caller never rings at a listener that refused its key    *)
(* (secure.py:269-271).                                                      *)
CallerReturnsAccepted ==
    Up("client") => Up("server") /\ mode["client"] = mode["server"]

(* A channel that may carry a call joins two ends that pinned each other and *)
(* are not the same identity, whatever else the listener accepts; only such  *)
(* a channel yields voice keys, and once (secure.py:263-265, 402-414).       *)
CallsArePinned ==
    /\ \A e \in Ends : Up(e) /\ mode[e] = ALPN => Peer(e) \in cfg.pins[e] /\ Peer(e) # Own(e)
    /\ \A e \in Ends : handed[e] <= (IF Up(e) /\ mode[e] = ALPN THEN 1 ELSE 0)

Flat(frames) == FlattenSeq(frames)

(* However TCP cuts the stream and whenever recv() times out in between, the *)
(* frames it returns are those the peer sent, in order, none split, joined   *)
(* or lost while the channel is usable (secure.py:321-340, 369-400).         *)
FramesArriveWhole ==
    \A e \in Ends :
        /\ IsPrefix(got[e], said[Other(e)])
        /\ Usable(e) /\ ~cut /\ ~shut[Other(e)] =>
              Flat(said[Other(e)]) = Flat(got[e]) \o rbuf[e] \o Bytes(bio[e])
                                     \o Bytes(chunk[e]) \o Bytes(wire[e])

=============================================================================
