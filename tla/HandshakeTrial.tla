--------------------------- MODULE HandshakeTrial ---------------------------
(***************************************************************************)
(* The evaluation's handshake trials (eval/full_handshake.py over the      *)
(* message functions of eval/v1_handshake.py): an initiator and a          *)
(* responder thread in one program, over TCP, or over UDP with or without  *)
(* sending the HELLO again.  measure() makes several trials and counts the *)
(* successes.                                                              *)
(*                                                                         *)
(* A session is the number of the encapsulation that made it; ACCEPT       *)
(* carries it.  Signatures and lengths are those of honest messages.       *)
(***************************************************************************)
EXTENDS Integers, Bags

CONSTANTS Transports,   (* which of "tcp", "udp-naive", "udp-retry"        *)
          Attempts,     (* how many trials measure() makes                 *)
          MaxHellos,    (* bound: HELLOs sent in a trial                   *)
          MaxDups       (* bound: datagrams the network duplicates         *)

ASSUME TrialAssumption ==
    /\ Transports \subseteq {"tcp", "udp-naive", "udp-retry"}
    /\ Attempts \in Nat /\ MaxHellos \in Nat \ {0} /\ MaxDups \in Nat

VARIABLES
    transport,
    initiator,  (* where the initiator is                                  *)
    responder,  (* where the responder's thread is                         *)
    net,        (* what is under way between their sockets                 *)
    hellos, dups,
    cache,      (* the answer to the HELLO, 0 before there is one          *)
    answer,     (* the session whose ACCEPT the responder is sending       *)
    recorded,   (* the session it left for the initiator to compare        *)
    session,    (* the session the initiator finished with                 *)
    expired,    (* the trial's deadline has passed                         *)
    over,       (* the done event, the sockets closed                      *)
    outcome,    (* what the trial returned                                 *)
    tally       (* measure(): trials made and successes                    *)

trial == <<initiator, responder, net, hellos, dups, cache, answer, recorded,
           session, expired, over, outcome>>
hvars == <<transport, trial, tally>>

Udp == transport # "tcp"
Hello == [kind |-> "hello"]
Accept(s) == [kind |-> "accept", session |-> s]
Packet(m) == SetToBag({m})

HInit ==
    /\ transport \in Transports
    /\ tally = [made |-> 0, successes |-> 0]
    /\ initiator = "starting" /\ responder = "serving"
    /\ net = EmptyBag /\ hellos = 0 /\ dups = 0
    /\ cache = 0 /\ answer = 0 /\ recorded = 0 /\ session = 0
    /\ expired = FALSE /\ over = FALSE /\ outcome = "none"

-----------------------------------------------------------------------------
(* Every wait and every send begins with a look at the deadline. *)
InTime == ~expired

Send(m) == net' = net (+) Packet(m)
Receive(m) == BagIn(m, net) /\ net' = net (-) Packet(m)

(* build_hello, once; the same bytes go out every time. *)
SendHello ==
    /\ initiator = "starting" /\ InTime
    /\ Send(Hello) /\ hellos' = 1
    /\ initiator' = "waiting"
    /\ UNCHANGED <<transport, responder, dups, cache, answer, recorded, session,
                   expired, over, outcome, tally>>

(* The retransmission timer fires before the deadline. *)
SendHelloAgain ==
    /\ transport = "udp-retry" /\ initiator = "waiting" /\ InTime
    /\ hellos < MaxHellos
    /\ Send(Hello) /\ hellos' = hellos + 1
    /\ UNCHANGED <<transport, initiator, responder, dups, cache, answer, recorded,
                   session, expired, over, outcome, tally>>

ReceiveAccept(s) ==
    /\ initiator = "waiting" /\ InTime
    /\ Receive(Accept(s))
    /\ session' = s /\ initiator' = "finishing"
    /\ UNCHANGED <<transport, responder, hellos, dups, cache, answer, recorded,
                   expired, over, outcome, tally>>

(* finish() returns, in time or not; over UDP the responder is told to stop. *)
Finish ==
    /\ initiator = "finishing"
    /\ initiator' = IF InTime THEN "finished" ELSE "late"
    /\ over' = Udp
    /\ UNCHANGED <<transport, responder, net, hellos, dups, cache, answer, recorded,
                   session, expired, outcome, tally>>

Matches == recorded = session

(* After joining the thread, or 0.1 s without it: both must hold the same    *)
(* session.  The finally clause closes the sockets.                          *)
Judge ==
    /\ initiator \in {"finished", "late"}
    /\ outcome' = IF initiator = "finished" /\ Matches
                  THEN "ok" ELSE "failed"
    /\ initiator' = "done" /\ over' = TRUE
    /\ UNCHANGED <<transport, responder, net, hellos, dups, cache, answer, recorded,
                   session, expired, tally>>

(* Every wait of the initiator ends at the deadline. *)
GiveUp ==
    /\ initiator \in {"starting", "waiting"} /\ expired
    /\ outcome' = "failed"
    /\ initiator' = "done" /\ over' = TRUE
    /\ UNCHANGED <<transport, responder, net, hellos, dups, cache, answer, recorded,
                   session, expired, tally>>

-----------------------------------------------------------------------------
(* Mutant: every HELLO is answered with an encapsulation of its own. *)
AnswerAfresh == cache + 1

(* _accept_for_hello: a HELLO seen before gets the answer it got. *)
AnswerFor == IF cache = 0 THEN 1 ELSE cache

(* accept_hello, and over UDP the session is recorded before it is sent.     *)
TakeHello ==
    /\ responder = "serving" /\ Receive(Hello)
    /\ cache' = AnswerFor /\ answer' = AnswerFor
    /\ recorded' = IF Udp THEN AnswerFor ELSE recorded
    /\ responder' = "answering"
    /\ UNCHANGED <<transport, initiator, hellos, dups, session, expired, over,
                   outcome, tally>>

(* The UDP responder serves on; the TCP responder has recorded nothing yet.  *)
SendAccept ==
    /\ responder = "answering" /\ InTime /\ ~over
    /\ Send(Accept(answer))
    /\ responder' = IF Udp THEN "serving" ELSE "recording"
    /\ UNCHANGED <<transport, initiator, hellos, dups, cache, answer, recorded, session,
                   expired, over, outcome, tally>>

(* run_responder returns, over TCP. *)
Record ==
    /\ responder = "recording"
    /\ recorded' = answer /\ responder' = "gone"
    /\ UNCHANGED <<transport, initiator, net, hellos, dups, cache, answer, session,
                   expired, over, outcome, tally>>

(* It waits in short slices, so it sees the done event, and never longer     *)
(* than the deadline; a closed socket or a late answer raises.               *)
ResponderLeaves ==
    /\ responder \in {"serving", "answering"} /\ (over \/ expired)
    /\ responder' = "gone"
    /\ UNCHANGED <<transport, initiator, net, hellos, dups, cache, answer, recorded,
                   session, expired, over, outcome, tally>>

-----------------------------------------------------------------------------
DeadlinePasses ==
    /\ initiator # "done" /\ ~expired /\ expired' = TRUE
    /\ UNCHANGED <<transport, initiator, responder, net, hellos, dups, cache, answer,
                   recorded, session, over, outcome, tally>>

(* The impaired network, under UDP only. *)
Lose(m) ==
    /\ Udp /\ Receive(m)
    /\ UNCHANGED <<transport, initiator, responder, hellos, dups, cache, answer, recorded,
                   session, expired, over, outcome, tally>>

Duplicate(m) ==
    /\ Udp /\ dups < MaxDups /\ Send(m) /\ dups' = dups + 1
    /\ UNCHANGED <<transport, initiator, responder, hellos, cache, answer, recorded,
                   session, expired, over, outcome, tally>>

NewTrial ==
    /\ initiator' = "starting" /\ responder' = "serving"
    /\ net' = EmptyBag /\ hellos' = 0 /\ dups' = 0
    /\ cache' = 0 /\ answer' = 0 /\ recorded' = 0 /\ session' = 0
    /\ expired' = FALSE /\ over' = FALSE /\ outcome' = "none"

(* measure(): the trial is counted and the next one begins with new sockets; *)
(* a thread that outlives the join no longer reaches them.                   *)
NextTrial ==
    /\ initiator = "done" /\ tally.made < Attempts
    /\ tally' = [made      |-> tally.made + 1,
                 successes |-> tally.successes + (IF outcome = "ok" THEN 1 ELSE 0)]
    /\ \/ tally'.made = Attempts /\ UNCHANGED trial
       \/ tally'.made < Attempts /\ NewTrial
    /\ UNCHANGED transport

Initiator == \/ SendHello \/ SendHelloAgain \/ Finish \/ Judge \/ GiveUp
             \/ \E m \in BagToSet(net) : m.kind = "accept" /\ ReceiveAccept(m.session)
Responder == TakeHello \/ SendAccept \/ Record \/ ResponderLeaves
Network   == \E m \in BagToSet(net) : Lose(m) \/ Duplicate(m)

HNext == Initiator \/ Responder \/ Network \/ DeadlinePasses \/ NextTrial

-----------------------------------------------------------------------------
HTypeOK ==
    /\ transport \in Transports
    /\ initiator \in {"starting", "waiting", "finishing", "finished", "late",
                    "done"}
    /\ responder \in {"serving", "answering", "recording", "gone"}
    /\ IsABag(net) /\ hellos \in 0..MaxHellos /\ dups \in 0..MaxDups
    /\ {cache, answer, recorded, session} \subseteq 0..(MaxHellos + MaxDups)
    /\ {expired, over} \subseteq BOOLEAN
    /\ outcome \in {"none", "ok", "failed"}
    /\ tally.made \in 0..Attempts /\ tally.successes \in 0..tally.made

(* A handshake that the initiator completed in time is counted as a success, *)
(* however often the HELLO was sent, duplicated or overtaken: the answers to *)
(* it are one session (full_handshake.py:87-90).  Over TCP there is one      *)
(* exception, the 0.1 s that the code gives the other thread to record its   *)
(* session (full_handshake.py:71).                                           *)
CompletedIsSuccess ==
    [][initiator = "finished" /\ initiator' = "done" =>
           outcome' = "ok" \/ (transport = "tcp" /\ recorded = 0)]_hvars

=============================================================================
