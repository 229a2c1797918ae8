--------------------------- MODULE PairingExchange ---------------------------
(***************************************************************************)
(* hpqv.pairing.run on the two devices of one hpqv-pair/1 channel: COMMIT, *)
(* NONCE and REVEAL, the code each user is shown, the prompt thread that   *)
(* asks the user while the protocol thread watches the channel, the two    *)
(* CONFIRMs and the saving of the friend.  Both devices run this code; a   *)
(* commitment stands for the nonce it fixes.  A device closes its channel  *)
(* as soon as its run is over (every caller does).                         *)
(***************************************************************************)
EXTENDS Integers, Sequences

CONSTANT Nonces      (* what secrets.token_bytes may return               *)

ASSUME ExchangeAssumption == Nonces # {} /\ 0 \notin Nonces

Devices == {"initiator", "responder"}
Other(d) == CHOOSE e \in Devices : e # d

VARIABLES
    at,      (* at[d]: where the run of device d is                        *)
    view,    (* view[d]: the commitment and the nonces d knows, 0 if none  *)
    wire,    (* wire[d]: messages from d that the other has yet to read    *)
    link,    (* the TCP connection is up                                   *)
    late,    (* late[d]: the current deadline of d has passed              *)
    answer,  (* answer[d]: what the prompt thread wrote for the user of d  *)
    sent,    (* sent[d]: the CONFIRM d sent ("none" before)                *)
    peer,    (* peer[d]: d received the other's CONFIRM = 1                *)
    result,  (* result[d]: how the run ended ("none" before)               *)
    kept    (* kept[d]: the friend is in d's trust store                 *)

exchangeVars == <<at, view, wire, link, late, answer, sent, peer, result, kept>>

ExchangeInit ==
    /\ at = [d \in Devices |-> IF d = "initiator" THEN "await_commit" ELSE "commit"]
    /\ view = [d \in Devices |-> [c |-> 0, i |-> 0, r |-> 0]]
    /\ wire = [d \in Devices |-> <<>>]
    /\ link = TRUE
    /\ late = [d \in Devices |-> FALSE]
    /\ answer = [d \in Devices |-> "none"]
    /\ sent = [d \in Devices |-> "none"]
    /\ peer = [d \in Devices |-> FALSE]
    /\ result = [d \in Devices |-> "none"]
    /\ kept = [d \in Devices |-> FALSE]

-----------------------------------------------------------------------------
(* The channel as a run sees it. *)

Gone(d) == at[d] = "over"
Broken(d) == ~link \/ Gone(Other(d))

(* A reset, also the one TCP sends for data left unread, destroys what d has *)
(* not read yet; an orderly close does not.                                  *)
MayLoseUnread(d) == ~link \/ (Gone(Other(d)) /\ wire[d] # <<>>)

(* recv() may find the connection gone. *)
LostTouch(d) == (Broken(d) /\ wire[Other(d)] = <<>>) \/ MayLoseUnread(d)

Ends(d, how) ==
    /\ at' = [at EXCEPT ![d] = "over"]
    /\ result' = [result EXCEPT ![d] = how]

Goes(d, where) ==
    /\ at' = [at EXCEPT ![d] = where]
    /\ UNCHANGED result

(* _send(): the bytes leave, or the connection is known to be broken.        *)
Delivers(d, m) == wire' = [wire EXCEPT ![d] = Append(@, m)]
CannotSend(d) == Broken(d) /\ UNCHANGED wire

(* A step of the exchange that sends m and goes on to where, with a new      *)
(* deadline, or fails.                                                       *)
Sends(d, m, where) ==
    /\ \/ Delivers(d, m) /\ Goes(d, where)
       \/ CannotSend(d) /\ Ends(d, "peer_closed")
    /\ late' = [late EXCEPT ![d] = FALSE]

-----------------------------------------------------------------------------
(* Commit, then reveal.  Each _recv has its own deadline. *)

SendCommit(d) ==
    /\ at[d] = "commit"
    /\ \E n \in Nonces :
        /\ view' = [view EXCEPT ![d].r = n]
        /\ Sends(d, [type |-> "COMMIT", value |-> n], "await_nonce")
    /\ UNCHANGED <<link, answer, sent, peer, kept>>

SendNonce(d) ==
    /\ at[d] = "nonce"
    /\ \E n \in Nonces :
        /\ view' = [view EXCEPT ![d].i = n]
        /\ Sends(d, [type |-> "NONCE", value |-> n], "await_reveal")
    /\ UNCHANGED <<link, answer, sent, peer, kept>>

SendReveal(d) ==
    /\ at[d] = "reveal"
    /\ Sends(d, [type |-> "REVEAL", value |-> view[d].r], "code")
    /\ UNCHANGED <<view, link, answer, sent, peer, kept>>

(* Mutant: the revealed nonce is checked but not kept. *)
AwaitsRevealInVain == [s \in {"await_commit", "await_nonce", "await_reveal"} |->
            CASE s = "await_commit" -> [type |-> "COMMIT", field |-> "c", next |-> "nonce"]
              [] s = "await_nonce"  -> [type |-> "NONCE", field |-> "i", next |-> "reveal"]
              [] s = "await_reveal" -> [type |-> "REVEAL", field |-> "c", next |-> "code"]]

Awaits == [s \in {"await_commit", "await_nonce", "await_reveal"} |->
            CASE s = "await_commit" -> [type |-> "COMMIT", field |-> "c", next |-> "nonce"]
              [] s = "await_nonce"  -> [type |-> "NONCE", field |-> "i", next |-> "reveal"]
              [] s = "await_reveal" -> [type |-> "REVEAL", field |-> "r", next |-> "code"]]

(* _recv(): the next message must be the one the exchange expects; a        *)
(* revealed nonce must be the one committed to.                             *)
Hear(d) ==
    /\ at[d] \in DOMAIN Awaits /\ ~late[d] /\ wire[Other(d)] # <<>>
    /\ LET want == Awaits[at[d]]  m == Head(wire[Other(d)]) IN
       /\ wire' = [wire EXCEPT ![Other(d)] = Tail(@)]
       /\ IF m.type # want.type THEN Ends(d, "protocol") /\ UNCHANGED view
          ELSE IF want.type = "REVEAL" /\ m.value # view[d].c
               THEN Ends(d, "bad_commit") /\ UNCHANGED view
               ELSE Goes(d, want.next) /\ view' = [view EXCEPT ![d][want.field] = m.value]
    /\ UNCHANGED <<link, late, answer, sent, peer, kept>>

HearsNothing(d) ==
    /\ at[d] \in DOMAIN Awaits
    /\ \/ late[d] /\ Ends(d, "timeout")
       \/ /\ ~late[d] /\ LostTouch(d)
          /\ Ends(d, "peer_closed")
    /\ UNCHANGED <<view, wire, link, late, answer, sent, peer, kept>>

(* The code is ready: the store is asked whether the name is known, and      *)
(* _decide() starts its prompt thread and its deadline.                      *)
ShowCode(d) ==
    /\ at[d] = "code"
    /\ \/ Goes(d, "answer?") /\ late' = [late EXCEPT ![d] = FALSE]
       \/ Ends(d, "store_failed") /\ UNCHANGED late
    /\ UNCHANGED <<view, wire, link, answer, sent, peer, kept>>

Code(d) == <<view[d].i, view[d].r>>
-----------------------------------------------------------------------------
(* _decide(): the loop that watches the prompt, the clock and the channel. *)

Deciding == {"answer?", "deadline?", "confirm?"}

(* The prompt thread writes its answer; a prompt that breaks is a no.  After *)
(* the run nobody reads it any more.                                         *)
UserAnswers(d) ==
    /\ answer[d] = "none" /\ at[d] \in Deciding
    /\ \E a \in {"yes", "no"} : answer' = [answer EXCEPT ![d] = a]
    /\ UNCHANGED <<at, view, wire, link, late, sent, peer, result, kept>>

Confirms(yes) == [type |-> "CONFIRM", value |-> IF yes THEN 1 ELSE 0]

PassesAnswerOn(d) ==
    /\ at[d] = "answer?"
    /\ IF sent[d] = "none" /\ answer[d] # "none"
       THEN /\ sent' = [sent EXCEPT ![d] = answer[d]]
            /\ \/ /\ Delivers(d, Confirms(answer[d] = "yes"))
                  /\ IF answer[d] = "yes" THEN Goes(d, "deadline?") ELSE Ends(d, "declined")
               \/ CannotSend(d) /\ Ends(d, "peer_closed")
       ELSE Goes(d, "deadline?") /\ UNCHANGED <<wire, sent>>
    /\ UNCHANGED <<view, link, late, answer, peer, kept>>

(* Mutants: one yes is enough, the other's or the user's own.                *)
PeerYesIsEnough(d) == peer[d]
OwnYesIsEnough(d) == sent[d] = "yes"

BothYes(d) == sent[d] = "yes" /\ peer[d]

(* Mutant: a peer who said yes is waited for for ever. *)
TimeIsUpUnlessPeerSaidYes(d) == late[d] /\ ~peer[d]

TimeIsUp(d) == late[d]

LooksAtClock(d) ==
    /\ at[d] = "deadline?"
    /\ IF BothYes(d) THEN Goes(d, "save") /\ UNCHANGED wire
       ELSE IF TimeIsUp(d)
       THEN IF sent[d] = "none"
            THEN \/ Delivers(d, Confirms(FALSE)) /\ Ends(d, "timeout")
                 \/ CannotSend(d) /\ Ends(d, "peer_closed")
            ELSE Ends(d, "timeout") /\ UNCHANGED wire
       ELSE Goes(d, "confirm?") /\ UNCHANGED wire
    /\ UNCHANGED <<view, link, late, answer, sent, peer, kept>>

(* Once the other said yes the channel is not read again. *)
LooksAtChannel(d) ==
    /\ at[d] = "confirm?"
    /\ \/ /\ ~peer[d] /\ wire[Other(d)] # <<>>
          /\ wire' = [wire EXCEPT ![Other(d)] = Tail(@)]
          /\ LET m == Head(wire[Other(d)]) IN
             \/ m.type # "CONFIRM" /\ Ends(d, "protocol") /\ UNCHANGED peer
             \/ m = Confirms(FALSE) /\ Ends(d, "peer_declined") /\ UNCHANGED peer
             \/ m = Confirms(TRUE) /\ Goes(d, "answer?") /\ peer' = [peer EXCEPT ![d] = TRUE]
       \/ /\ ~peer[d] /\ LostTouch(d)
          /\ Ends(d, "peer_closed")
          /\ UNCHANGED <<wire, peer>>
       \/ /\ peer[d] \/ wire[Other(d)] = <<>>
          /\ Goes(d, "answer?")
          /\ UNCHANGED <<wire, peer>>
    /\ UNCHANGED <<view, link, late, answer, sent, kept>>

SavesFriend(d) ==
    /\ at[d] = "save"
    /\ \/ Ends(d, "paired") /\ kept' = [kept EXCEPT ![d] = TRUE]
       \/ Ends(d, "store_failed") /\ UNCHANGED kept
    /\ UNCHANGED <<view, wire, link, late, answer, sent, peer>>

-----------------------------------------------------------------------------
(* The world. *)

DeadlinePasses(d) ==
    /\ ~Gone(d) /\ ~late[d]
    /\ late' = [late EXCEPT ![d] = TRUE]
    /\ UNCHANGED <<at, view, wire, link, answer, sent, peer, result, kept>>

Reset ==
    /\ link
    /\ link' = FALSE
    /\ UNCHANGED <<at, view, wire, late, answer, sent, peer, result, kept>>

DeviceCrashes(d) ==
    /\ ~Gone(d)
    /\ Ends(d, "crashed")
    /\ UNCHANGED <<view, wire, link, late, answer, sent, peer, kept>>

-----------------------------------------------------------------------------
Run(d) ==
    \/ SendCommit(d) \/ SendNonce(d) \/ SendReveal(d) \/ Hear(d) \/ HearsNothing(d)
    \/ ShowCode(d) \/ PassesAnswerOn(d) \/ LooksAtClock(d) \/ LooksAtChannel(d) \/ SavesFriend(d)

BothOver == (\A d \in Devices : Gone(d)) /\ UNCHANGED exchangeVars

ExchangeNext ==
    \/ \E d \in Devices : Run(d) \/ UserAnswers(d) \/ DeadlinePasses(d) \/ DeviceCrashes(d)
    \/ Reset
    \/ BothOver

ExchangeSpec == ExchangeInit /\ [][ExchangeNext]_exchangeVars

(* Threads are scheduled and the clock runs; nobody has to answer.           *)
ExchangeFairSpec ==
    /\ ExchangeSpec
    /\ \A d \in Devices : WF_exchangeVars(Run(d)) /\ WF_exchangeVars(DeadlinePasses(d))

-----------------------------------------------------------------------------
Results == {"none", "paired", "declined", "peer_declined", "bad_commit", "timeout",
            "peer_closed", "protocol", "store_failed", "crashed"}

Messages ==
    [type : {"COMMIT", "NONCE", "REVEAL"}, value : Nonces] \cup [type : {"CONFIRM"}, value : {0, 1}]

ExchangeTypeOK ==
    /\ at \in [Devices -> {"commit", "nonce", "reveal", "code", "save", "over"}
                            \cup DOMAIN Awaits \cup Deciding]
    /\ view \in [Devices -> [c : Nonces \cup {0}, i : Nonces \cup {0}, r : Nonces \cup {0}]]
    /\ wire \in [Devices -> Seq(Messages)]
    /\ link \in BOOLEAN /\ late \in [Devices -> BOOLEAN] /\ peer \in [Devices -> BOOLEAN]
    /\ answer \in [Devices -> {"none", "yes", "no"}]
    /\ sent \in [Devices -> {"none", "yes", "no"}]
    /\ result \in [Devices -> Results]
    /\ kept \in [Devices -> BOOLEAN]

(* A friend is saved only when both users said that the codes match          *)
(* (ADR 0006, "both users decide"; pairing.py:15-16), and both were shown    *)
(* the same code when they did.                                              *)
SavedMeansBothSaidYes ==
    \A d \in Devices : kept[d] =>
        /\ \A e \in Devices : answer[e] = "yes"
        /\ Code(d) = Code(Other(d))

(* Two honest devices show one code, and neither ever takes the other for    *)
(* one that breaks the protocol, whatever interrupts them (pairing.py:146,   *)
(* 232, 239).                                                                *)
HonestPeersAgree ==
    /\ \A d \in Devices : result[d] \notin {"protocol", "bad_commit"}
    /\ (\A d \in Devices : at[d] \in Deciding \cup {"save"}) =>
        Code("initiator") = Code("responder")

(* One device paired and the other not: only a deadline, a broken            *)
(* connection, a failed save or a crash can explain it, never a no           *)
(* (pairing.py:176-202; ADR 0006, "interrupted pairing").                    *)
OneSidedIsAnInterruption ==
    \A d \in Devices : kept[d] /\ Gone(Other(d)) /\ ~kept[Other(d)] =>
        result[Other(d)] \in {"timeout", "peer_closed", "store_failed", "crashed"}

=============================================================================
