------------------------------ MODULE Listener ------------------------------
(***************************************************************************)
(* One device that listens: the accept loop and the worker threads of      *)
(* hpqv.listener.Listener, the PairingWindow they share, and the thread    *)
(* that waits for the outcome, which is pairflow.allow_pairing when the    *)
(* listener serves pairing and demo.listen_friends when it serves calls.   *)
(* Each method of PairingWindow that holds its lock throughout is one      *)
(* step; finish(), which takes the lock twice, is two.                     *)
(***************************************************************************)
EXTENDS Integers, FiniteSets

CONSTANTS Conns,            (* the connections that may arrive             *)
          MaxHandshakes,    (* MAX_HANDSHAKES                              *)
          MaxAttempts       (* MAX_ATTEMPTS                                *)

ASSUME ListenerAssumption ==
    /\ MaxHandshakes \in Nat \ {0} /\ MaxAttempts \in Nat \ {0}
    /\ IsFiniteSet(Conns)

VARIABLES
    serving,    (* "pair": on_pair and a window, no on_call;               *)
                (* "call": on_call, no on_pair and no window               *)
    window,     (* the PairingWindow                                       *)
    timeUp,     (* the window's time has passed                            *)
    slots,      (* _slots: handshakes that may still start                 *)
    inCall,     (* _in_call is held                                        *)
    stopEvent,  (* the listener's stop_event                               *)
    acceptor,   (* where the accept loop is                                *)
    conn,       (* conn[c]: where the worker of connection c is            *)
    knocks,     (* the connections whose handshake may negotiate pairing   *)
    main,       (* where the waiting thread is                             *)
    done,       (* the event it waits for                                  *)
    saved       (* history: the connections that ended with a friend saved *)

vars == <<serving, window, timeUp, slots, inCall, stopEvent, acceptor, conn, knocks, main, done, saved>>

Init ==
    /\ serving \in {"pair", "call"}
    /\ window = [open |-> serving = "pair", busy |-> FALSE, attempts |-> 0]
    /\ timeUp = FALSE
    /\ slots = MaxHandshakes
    /\ inCall = FALSE
    /\ stopEvent = FALSE
    /\ acceptor = "polling"
    /\ conn = [c \in Conns |-> "new"]
    /\ knocks = {}
    /\ main = "done?"
    /\ done = FALSE
    /\ saved = {}

-----------------------------------------------------------------------------
(* The pairing window. *)

(* _open_locked(): an expired window is closed by whoever looks at it.       *)
IsOpen(w) == w.open /\ ~timeUp

Looked(w) == [w EXCEPT !.open = IsOpen(w)]

Free(w) == IsOpen(w) /\ ~w.busy /\ w.attempts < MaxAttempts

(* try_begin(), when it returns True. *)
TryBegin(w) == [Looked(w) EXCEPT !.busy = TRUE, !.attempts = @ + 1]

(* Mutant: finish() does not give the window back after a failure.           *)
FinishKeepsBusy(w) == w

(* The first half of finish(). *)
Finish(w) == [w EXCEPT !.busy = FALSE]

TimeRunsOut ==
    /\ serving = "pair" /\ ~timeUp
    /\ timeUp' = TRUE
    /\ UNCHANGED <<serving, window, slots, inCall, stopEvent, acceptor, conn, knocks, main, done, saved>>

-----------------------------------------------------------------------------
(* The accept loop. *)

AcceptorPolls ==
    /\ acceptor = "polling"
    /\ acceptor' = IF stopEvent THEN "gone" ELSE "accepting"
    /\ UNCHANGED <<serving, window, timeUp, slots, inCall, stopEvent, conn, knocks, main, done, saved>>

(* accept() times out, or fails because stop() closed the socket.            *)
AcceptorTimesOut ==
    /\ acceptor = "accepting"
    /\ acceptor' = IF main = "left" THEN "gone" ELSE "polling"
    /\ UNCHANGED <<serving, window, timeUp, slots, inCall, stopEvent, conn, knocks, main, done, saved>>

(* A connection beyond MAX_HANDSHAKES is closed at once.                     *)
AcceptConn(c) ==
    /\ acceptor = "accepting" /\ main # "left" /\ conn[c] = "new"
    /\ IF slots = 0
       THEN conn' = [conn EXCEPT ![c] = "closed"] /\ UNCHANGED slots
       ELSE conn' = [conn EXCEPT ![c] = "serving"] /\ slots' = slots - 1
    /\ acceptor' = "polling"
    /\ UNCHANGED <<serving, window, timeUp, inCall, stopEvent, knocks, main, done, saved>>

-----------------------------------------------------------------------------
(* A worker: _serve(). *)

(* Is pairing possible?  Asked before the handshake, which is minutes or     *)
(* milliseconds before try_begin() asks again.                               *)
Serve(c) ==
    /\ conn[c] = "serving"
    /\ conn' = [conn EXCEPT ![c] = "handshake"]
    /\ window' = IF serving = "pair" THEN Looked(window) ELSE window
    /\ knocks' = IF IsOpen(window) THEN knocks \cup {c} ELSE knocks
    /\ UNCHANGED <<serving, timeUp, slots, inCall, stopEvent, acceptor, main, done, saved>>

(* Mutant: only a handshake that succeeds gives its slot back.               *)
HandshakeFailsKeepingSlot(c) ==
    /\ conn[c] = "handshake"
    /\ conn' = [conn EXCEPT ![c] = "closed"]
    /\ UNCHANGED <<serving, window, timeUp, slots, inCall, stopEvent, acceptor, knocks, main, done, saved>>

HandshakeFails(c) ==
    /\ conn[c] = "handshake"
    /\ conn' = [conn EXCEPT ![c] = "closed"]
    /\ slots' = slots + 1
    /\ UNCHANGED <<serving, window, timeUp, inCall, stopEvent, acceptor, knocks, main, done, saved>>

(* The peer negotiates a call (its key is a friend's) or, where the handshake *)
(* allowed it, pairing.  The slot only covers the handshake.                  *)
Authenticate(c) ==
    /\ conn[c] = "handshake"
    /\ \/ conn' = [conn EXCEPT ![c] = "wants_call"]
       \/ c \in knocks /\ conn' = [conn EXCEPT ![c] = "wants_pairing"]
    /\ slots' = slots + 1
    /\ UNCHANGED <<serving, window, timeUp, inCall, stopEvent, acceptor, knocks, main, done, saved>>

BeginPairing(c) ==
    /\ conn[c] = "wants_pairing" /\ Free(window)
    /\ window' = TryBegin(window)
    /\ conn' = [conn EXCEPT ![c] = "pairing"]
    /\ UNCHANGED <<serving, timeUp, slots, inCall, stopEvent, acceptor, knocks, main, done, saved>>

RefusePairing(c) ==
    /\ conn[c] = "wants_pairing" /\ ~Free(window)
    /\ window' = Looked(window)
    /\ conn' = [conn EXCEPT ![c] = "closed"]
    /\ UNCHANGED <<serving, timeUp, slots, inCall, stopEvent, acceptor, knocks, main, done, saved>>

(* pairing.run() returns: the friend is saved, but on_pair has yet to say so. *)
PairingSucceeds(c) ==
    /\ conn[c] = "pairing"
    /\ saved' = saved \cup {c}
    /\ conn' = [conn EXCEPT ![c] = "paired"]
    /\ UNCHANGED <<serving, window, timeUp, slots, inCall, stopEvent, acceptor, knocks, main, done>>

(* on_pair stores the result and sets the event. *)
OnPairReports(c) ==
    /\ conn[c] = "paired"
    /\ done' = TRUE
    /\ conn' = [conn EXCEPT ![c] = "finishing"]
    /\ UNCHANGED <<serving, window, timeUp, slots, inCall, stopEvent, acceptor, knocks, main, saved>>

(* pairing.run() fails: in a way that suggests an attacker, or in another.   *)
PairingFails(c) ==
    /\ conn[c] = "pairing"
    /\ conn' \in {[conn EXCEPT ![c] = s] : s \in {"finishing", "mismatch"}}
    /\ UNCHANGED <<serving, window, timeUp, slots, inCall, stopEvent, acceptor, knocks, main, done, saved>>

(* finish() gives the window back and only then, in a second critical        *)
(* section, closes it after a mismatch.                                      *)
FinishPairing(c) ==
    /\ conn[c] \in {"finishing", "mismatch"}
    /\ window' = Finish(window)
    /\ conn' = [conn EXCEPT ![c] = IF @ = "mismatch" THEN "closing_window" ELSE "closed"]
    /\ UNCHANGED <<serving, timeUp, slots, inCall, stopEvent, acceptor, knocks, main, done, saved>>

CloseWindow(c) ==
    /\ conn[c] = "closing_window"
    /\ window' = [window EXCEPT !.open = FALSE]
    /\ conn' = [conn EXCEPT ![c] = "closed"]
    /\ UNCHANGED <<serving, timeUp, slots, inCall, stopEvent, acceptor, knocks, main, done, saved>>

(* Mutant: a second call is not refused. *)
BeginCallAnyway(c) ==
    /\ conn[c] = "wants_call" /\ serving = "call"
    /\ inCall' = TRUE
    /\ conn' = [conn EXCEPT ![c] = "in_call"]
    /\ UNCHANGED <<serving, window, timeUp, slots, stopEvent, acceptor, knocks, main, done, saved>>

BeginCall(c) ==
    /\ conn[c] = "wants_call" /\ serving = "call" /\ ~inCall
    /\ inCall' = TRUE
    /\ conn' = [conn EXCEPT ![c] = "in_call"]
    /\ UNCHANGED <<serving, window, timeUp, slots, stopEvent, acceptor, knocks, main, done, saved>>

RefuseCall(c) ==
    /\ conn[c] = "wants_call" /\ (serving # "call" \/ inCall)
    /\ conn' = [conn EXCEPT ![c] = "closed"]
    /\ UNCHANGED <<serving, window, timeUp, slots, inCall, stopEvent, acceptor, knocks, main, done, saved>>

(* on_call ends, whether the call was ever started or not. *)
OnCallReports(c) ==
    /\ conn[c] = "in_call"
    /\ done' = TRUE
    /\ conn' = [conn EXCEPT ![c] = "call_over"]
    /\ UNCHANGED <<serving, window, timeUp, slots, inCall, stopEvent, acceptor, knocks, main, saved>>

ReleaseCall(c) ==
    /\ conn[c] = "call_over"
    /\ inCall' = FALSE
    /\ conn' = [conn EXCEPT ![c] = "closed"]
    /\ UNCHANGED <<serving, window, timeUp, slots, stopEvent, acceptor, knocks, main, done, saved>>

-----------------------------------------------------------------------------
(* The waiting thread. *)

(* The loop's condition, one read at a time. *)
MainLooksAtDone ==
    /\ main = "done?"
    /\ main' = IF done THEN "stopping" ELSE IF serving = "pair" THEN "open?" ELSE "done?"
    /\ UNCHANGED <<serving, window, timeUp, slots, inCall, stopEvent, acceptor, conn, knocks, done, saved>>

(* Mutant: an attempt that outlives the window is not waited for.            *)
MainForgetsAttempt ==
    /\ main = "open?"
    /\ window' = Looked(window)
    /\ main' = IF IsOpen(window) THEN "done?" ELSE "stopping"
    /\ UNCHANGED <<serving, timeUp, slots, inCall, stopEvent, acceptor, conn, knocks, done, saved>>

MainLooksAtWindow ==
    /\ main = "open?"
    /\ window' = Looked(window)
    /\ main' = IF IsOpen(window) THEN "done?" ELSE "busy?"
    /\ UNCHANGED <<serving, timeUp, slots, inCall, stopEvent, acceptor, conn, knocks, done, saved>>

MainLooksAtBusy ==
    /\ main = "busy?"
    /\ main' = IF window.busy THEN "done?" ELSE "stopping"
    /\ UNCHANGED <<serving, window, timeUp, slots, inCall, stopEvent, acceptor, conn, knocks, done, saved>>

(* stop(): the event; then a wait of at most two seconds for the accept      *)
(* loop, which may still take a connection, before the socket is closed.     *)
MainStops ==
    /\ main = "stopping"
    /\ stopEvent' = TRUE
    /\ main' = "joining"
    /\ UNCHANGED <<serving, window, timeUp, slots, inCall, acceptor, conn, knocks, done, saved>>

MainLeaves ==
    /\ main = "joining"
    /\ main' = "left"
    /\ UNCHANGED <<serving, window, timeUp, slots, inCall, stopEvent, acceptor, conn, knocks, done, saved>>

-----------------------------------------------------------------------------
Acceptor == AcceptorPolls \/ AcceptorTimesOut \/ \E c \in Conns : AcceptConn(c)

(* What a worker does on its own: every wait in it has a timeout.            *)
Worker(c) ==
    \/ Serve(c) \/ HandshakeFails(c) \/ Authenticate(c)
    \/ BeginPairing(c) \/ RefusePairing(c) \/ PairingSucceeds(c) \/ OnPairReports(c)
    \/ PairingFails(c) \/ FinishPairing(c) \/ CloseWindow(c)
    \/ BeginCall(c) \/ RefuseCall(c) \/ OnCallReports(c) \/ ReleaseCall(c)

Main ==
    \/ MainLooksAtDone \/ MainLooksAtWindow \/ MainLooksAtBusy
    \/ MainStops \/ MainLeaves

ListenerOver ==
    /\ main = "left" /\ acceptor = "gone"
    /\ \A c \in Conns : conn[c] \in {"new", "closed"}
    /\ UNCHANGED vars

Next ==
    \/ Acceptor \/ Main \/ TimeRunsOut \/ ListenerOver
    \/ \E c \in Conns : Worker(c)

Spec == Init /\ [][Next]_vars

(* Threads are scheduled and the clock runs. *)
Fairness ==
    /\ WF_vars(Main) /\ WF_vars(Acceptor) /\ WF_vars(TimeRunsOut)
    /\ \A c \in Conns : WF_vars(Worker(c))

FairSpec == Spec /\ Fairness

-----------------------------------------------------------------------------
In(states) == {c \in Conns : conn[c] \in states}

TypeOK ==
    /\ serving \in {"pair", "call"}
    /\ window \in [open : BOOLEAN, busy : BOOLEAN, attempts : 0..MaxAttempts]
    /\ timeUp \in BOOLEAN /\ inCall \in BOOLEAN /\ stopEvent \in BOOLEAN /\ done \in BOOLEAN
    /\ slots \in 0..MaxHandshakes
    /\ acceptor \in {"polling", "accepting", "gone"}
    /\ conn \in [Conns -> {"new", "serving", "handshake", "wants_call", "wants_pairing",
                           "pairing", "paired", "finishing", "mismatch", "closing_window",
                           "in_call", "call_over", "closed"}]
    /\ knocks \subseteq Conns /\ saved \subseteq Conns
    /\ main \in {"done?", "open?", "busy?", "stopping", "joining", "left"}

(* A slot is held exactly while a handshake runs, on every way out of it:    *)
(* failed handshakes never starve later callers (listener.py:73-95).         *)
SlotsMatchHandshakes ==
    slots = MaxHandshakes - Cardinality(In({"serving", "handshake"}))

(* Two pairings never run at the same time on one device (pairing.py:81),    *)
(* nor two calls (listener.py:108).                                          *)
OneAtATime ==
    /\ Cardinality(In({"pairing", "paired", "finishing", "mismatch"})) <= 1
    /\ Cardinality(In({"in_call", "call_over"})) <= 1

(* When allow_pairing gives up, no attempt is under way or can still begin,  *)
(* and no friend was saved that it does not report, although it reads the    *)
(* event, the window and the busy flag one after the other while workers     *)
(* change them (pairflow.py:102-112).                                        *)
NothingSavedUnreported ==
    serving = "pair" /\ main \in {"stopping", "joining", "left"} /\ ~done =>
        /\ saved = {} /\ In({"pairing", "paired"}) = {}
        /\ ~Free(window)

=============================================================================
