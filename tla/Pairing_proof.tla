--------------------------- MODULE Pairing_proof ----------------------------
(***************************************************************************)
(* The two stages of a pairing.                                            *)
(*                                                                         *)
(* The listener, for any number of connections, slots and attempts: types, *)
(* slots that match the handshakes that run, at most one pairing and one   *)
(* call at a time, and nothing saved that the waiting thread does not      *)
(* report.                                                                 *)
(*                                                                         *)
(* The pairing exchange, for any nonces and whatever deadline passes,      *)
(* connection breaks, store fails or device crashes at any moment: honest  *)
(* devices agree, friends are saved by both users' consent only, and a     *)
(* pairing that only one device completed is never one that was declined.  *)
(***************************************************************************)
EXTENDS Pairing, FiniteSetTheorems, SequenceTheorems, TLAPS

Handshaking == In({"serving", "handshake"})
Attempting  == In({"pairing", "paired", "finishing", "mismatch"})
Calling     == In({"in_call", "call_over"})

(* What the busy flag and the in-call lock stand for: exactly one worker.    *)
BusyMeansOne ==
    /\ ~window.busy => Attempting = {}
    /\ \A c, d \in Attempting : c = d

InCallMeansOne ==
    /\ ~inCall => Calling = {}
    /\ \A c, d \in Calling : c = d

(* A friend is saved by an attempt that still holds the window, or the event *)
(* has been set; the window is closed for good before the waiting thread     *)
(* asks whether an attempt holds it.                                         *)
WindowIsFirst ==
    /\ saved # {} /\ ~done => In({"paired"}) # {}
    /\ main = "busy?" => ~IsOpen(window)
    /\ serving = "pair" /\ main \in {"stopping", "joining", "left"} /\ ~done =>
          ~IsOpen(window) /\ ~window.busy

States == {"new", "serving", "handshake", "wants_call", "wants_pairing", "pairing",
           "paired", "finishing", "mismatch", "closing_window", "in_call", "call_over",
           "closed"}

IInv ==
    /\ TypeOK /\ SlotsMatchHandshakes
    /\ BusyMeansOne /\ InCallMeansOne /\ WindowIsFirst

LEMMA Constants ==
    /\ MaxHandshakes \in Nat /\ MaxHandshakes # 0 /\ MaxAttempts \in Nat /\ MaxAttempts # 0
    /\ IsFiniteSet(Conns)
<1>1. MaxHandshakes \in Nat \ {0} /\ MaxAttempts \in Nat \ {0} /\ IsFiniteSet(Conns)
      BY ListenerAssumption
<1>2. QED BY <1>1

LEMMA IInvInit == Init => IInv
<1> SUFFICES ASSUME Init PROVE IInv
    OBVIOUS
<1>1. TypeOK
  <2>1. window \in [open : BOOLEAN, busy : BOOLEAN, attempts : 0..MaxAttempts]
        BY Constants DEF Init
  <2>2. slots \in 0..MaxHandshakes
        BY Constants DEF Init
  <2>3. conn \in [Conns -> States]
        BY DEF Init, States
  <2>4. QED BY <2>1, <2>2, <2>3 DEF Init, TypeOK, States
<1>2. Handshaking = {} /\ Attempting = {} /\ Calling = {} /\ In({"paired"}) = {}
      BY DEF Init, In, Handshaking, Attempting, Calling
<1>3. SlotsMatchHandshakes
  <2>1. Cardinality(Handshaking) = 0
        BY <1>2, FS_EmptySet
  <2>2. QED BY <2>1, Constants DEF Init, SlotsMatchHandshakes, Handshaking
<1>4. BusyMeansOne /\ InCallMeansOne /\ WindowIsFirst
      BY <1>2 DEF Init, BusyMeansOne, InCallMeansOne, WindowIsFirst
<1>5. QED BY <1>1, <1>3, <1>4 DEF IInv

-----------------------------------------------------------------------------
(* Types. *)

AWindow == [open : BOOLEAN, busy : BOOLEAN, attempts : 0..MaxAttempts]

(* What the window's operators leave of it. *)
LEMMA SetOpen ==
    ASSUME NEW w \in AWindow, NEW b \in BOOLEAN
    PROVE  /\ [w EXCEPT !.open = b] \in AWindow
           /\ [w EXCEPT !.open = b].open = b
           /\ [w EXCEPT !.open = b].busy = w.busy
           /\ [w EXCEPT !.open = b].attempts = w.attempts
BY DEF AWindow

LEMMA Looks ==
    ASSUME NEW w \in AWindow
    PROVE  /\ Looked(w) \in AWindow /\ Looked(w).open = IsOpen(w)
           /\ Looked(w).busy = w.busy /\ Looked(w).attempts = w.attempts
<1>1. IsOpen(w) \in BOOLEAN
      BY DEF IsOpen
<1>2. QED BY <1>1, SetOpen DEF Looked

LEMMA Finishes ==
    ASSUME NEW w \in AWindow
    PROVE  Finish(w) \in AWindow /\ Finish(w).busy = FALSE /\ Finish(w).open = w.open
BY DEF AWindow, Finish

LEMMA Begins ==
    ASSUME NEW w \in AWindow, Free(w)
    PROVE  TryBegin(w) \in AWindow /\ TryBegin(w).busy = TRUE
<1>1. Looked(w) \in AWindow /\ Looked(w).attempts = w.attempts
      BY Looks
<1>2. w.attempts + 1 \in 0..MaxAttempts
      BY Constants DEF AWindow, Free
<1>3. QED BY <1>1, <1>2 DEF TryBegin, AWindow

LEMMA ListenerTypeStep ==
    ASSUME TypeOK, SlotsMatchHandshakes, Next
    PROVE  TypeOK'
<1> USE DEF TypeOK
<1>0. /\ MaxHandshakes \in Nat \ {0} /\ slots \in Nat
      /\ IsFiniteSet(Conns)
      BY Constants
<1>a. /\ Looked(window) \in AWindow /\ Finish(window) \in AWindow
      /\ [window EXCEPT !.open = FALSE] \in AWindow
      /\ Free(window) => TryBegin(window) \in AWindow
      BY SetOpen, Looks, Finishes, Begins DEF AWindow
<1>1. CASE TimeRunsOut \/ ListenerOver
      BY <1>1 DEF TimeRunsOut, ListenerOver, vars
<1>2. CASE Acceptor
  <2>1. ASSUME NEW c \in Conns, AcceptConn(c) PROVE TypeOK'
    <3>1. CASE slots = 0
          BY <2>1, <3>1 DEF AcceptConn
    <3>2. CASE slots # 0
          BY <1>0, <2>1, <3>2 DEF AcceptConn
    <3>3. QED BY <3>1, <3>2
  <2>2. QED BY <1>2, <2>1 DEF Acceptor, AcceptorPolls, AcceptorTimesOut
<1>3. CASE Main
      BY <1>a, <1>3, ZenonT(60) DEF AWindow, Main, MainLooksAtDone, MainLooksAtWindow, MainLooksAtBusy,
                        MainStops, MainLeaves
<1>4. ASSUME NEW c \in Conns, Worker(c) PROVE TypeOK'
  <2>1. CASE Serve(c)
    <3>1. window' \in AWindow
          BY <1>a, <2>1 DEF Serve, AWindow
    <3>2. QED BY <2>1, <3>1 DEF Serve, AWindow
  <2>2. CASE HandshakeFails(c) \/ Authenticate(c)
    <3>1. c \in Handshaking /\ IsFiniteSet(Handshaking)
          BY <1>0, <2>2, FS_Subset DEF Handshaking, In, HandshakeFails, Authenticate
    <3>2. Cardinality(Handshaking) \in Nat /\ Cardinality(Handshaking) # 0
          BY <3>1, FS_CardinalityType, FS_EmptySet
    <3>3. slots + 1 \in 0..MaxHandshakes
          BY <1>0, <3>2 DEF SlotsMatchHandshakes, Handshaking
    <3>4. QED BY <2>2, <3>3 DEF HandshakeFails, Authenticate
  <2>3. CASE BeginPairing(c)
        BY <1>a, <2>3 DEF BeginPairing, AWindow
  <2>4. CASE RefusePairing(c)
        BY <1>a, <2>4 DEF RefusePairing, AWindow
  <2>5. CASE PairingSucceeds(c) \/ OnPairReports(c)
        BY <2>5, ZenonT(60) DEF PairingSucceeds, OnPairReports
  <2>a. CASE PairingFails(c)
    <3>1. conn' = [conn EXCEPT ![c] = "finishing"] \/ conn' = [conn EXCEPT ![c] = "mismatch"]
          BY <2>a DEF PairingFails
    <3>2. QED BY <2>a, <3>1 DEF PairingFails
  <2>6. CASE FinishPairing(c)
        BY <1>a, <2>6 DEF FinishPairing, AWindow
  <2>7. CASE CloseWindow(c)
        BY <1>a, <2>7 DEF CloseWindow, AWindow
  <2>8. CASE BeginCall(c) \/ RefuseCall(c) \/ OnCallReports(c) \/ ReleaseCall(c)
        BY <2>8, ZenonT(60) DEF BeginCall, RefuseCall, OnCallReports, ReleaseCall
  <2>9. QED BY <1>4, <2>1, <2>2, <2>3, <2>4, <2>5, <2>a, <2>6, <2>7, <2>8 DEF Worker
<1>5. QED BY <1>1, <1>2, <1>3, <1>4 DEF Next

-----------------------------------------------------------------------------
(* Slots. *)

LEMMA SlotsStep ==
    ASSUME TypeOK, SlotsMatchHandshakes, Next
    PROVE  SlotsMatchHandshakes'
<1> USE DEF SlotsMatchHandshakes
<1>0. /\ IsFiniteSet(Handshaking) /\ Cardinality(Handshaking) \in Nat
      /\ MaxHandshakes \in Nat /\ slots \in Nat
      BY Constants, FS_Subset, FS_CardinalityType DEF Handshaking, In, TypeOK
<1>1. CASE UNCHANGED slots /\ Handshaking' = Handshaking
      BY <1>1 DEF Handshaking
<1>2. ASSUME NEW c \in Conns, c \notin Handshaking,
             Handshaking' = Handshaking \cup {c}, slots' = slots - 1
      PROVE  SlotsMatchHandshakes'
  <2>1. Cardinality(Handshaking') = Cardinality(Handshaking) + 1
        BY <1>0, <1>2, FS_AddElement
  <2>2. QED BY <1>0, <1>2, <2>1 DEF Handshaking
<1>3. ASSUME NEW c \in Conns, c \in Handshaking,
             Handshaking' = Handshaking \ {c}, slots' = slots + 1
      PROVE  SlotsMatchHandshakes'
  <2>1. Cardinality(Handshaking') = Cardinality(Handshaking) - 1
        BY <1>0, <1>3, FS_RemoveElement
  <2>2. QED BY <1>0, <1>3, <2>1 DEF Handshaking
<1>4. CASE TimeRunsOut \/ ListenerOver \/ Main \/ AcceptorPolls \/ AcceptorTimesOut
  <2>1. UNCHANGED <<conn, slots>>
        BY <1>4 DEF TimeRunsOut, ListenerOver, vars, Main, MainLooksAtDone,
                    MainLooksAtWindow, MainLooksAtBusy, MainStops, MainLeaves,
                    AcceptorPolls, AcceptorTimesOut
  <2>2. QED BY <2>1, <1>1 DEF Handshaking, In
<1>5. ASSUME NEW c \in Conns, AcceptConn(c) PROVE SlotsMatchHandshakes'
  <2>1. CASE slots = 0
    <3>1. Handshaking' = Handshaking
          BY <1>5, <2>1 DEF AcceptConn, Handshaking, In, TypeOK
    <3>2. QED BY <1>1, <1>5, <2>1, <3>1 DEF AcceptConn
  <2>2. CASE slots # 0
    <3>1. c \notin Handshaking /\ Handshaking' = Handshaking \cup {c}
          BY <1>5, <2>2 DEF AcceptConn, Handshaking, In, TypeOK
    <3>2. QED BY <1>2, <1>5, <2>2, <3>1 DEF AcceptConn
  <2>3. QED BY <2>1, <2>2
<1>6. ASSUME NEW c \in Conns, HandshakeFails(c) \/ Authenticate(c)
      PROVE  SlotsMatchHandshakes'
  <2>1. c \in Handshaking /\ Handshaking' = Handshaking \ {c}
        BY <1>6 DEF HandshakeFails, Authenticate, Handshaking, In, TypeOK
  <2>2. QED BY <1>3, <1>6, <2>1 DEF HandshakeFails, Authenticate
<1>7. ASSUME NEW c \in Conns, Worker(c), ~HandshakeFails(c), ~Authenticate(c)
      PROVE  SlotsMatchHandshakes'
  <2>1. UNCHANGED slots
        BY <1>7 DEF Worker, Serve, BeginPairing, RefusePairing, PairingSucceeds, OnPairReports,
                    PairingFails, FinishPairing, CloseWindow, BeginCall, RefuseCall,
                    OnCallReports, ReleaseCall
  <2>2. /\ conn[c] = "serving" /\ conn' = [conn EXCEPT ![c] = "handshake"]
        \/ /\ conn[c] \notin {"serving", "handshake"}
           /\ \E s \in States \ {"serving", "handshake"} : conn' = [conn EXCEPT ![c] = s]
        BY <1>7 DEF Worker, Serve, BeginPairing, RefusePairing, PairingSucceeds, OnPairReports,
                    PairingFails, FinishPairing, CloseWindow, BeginCall, RefuseCall,
                    OnCallReports, ReleaseCall, States
  <2>3. Handshaking' = Handshaking
        BY <2>2 DEF Handshaking, In, TypeOK
  <2>4. QED BY <1>1, <2>1, <2>3
<1>8. QED BY <1>4, <1>5, <1>6, <1>7 DEF Next, Acceptor


-----------------------------------------------------------------------------
(* A step that is no worker's moves no connection but a new one. *)
LEMMA OtherSteps ==
    ASSUME TypeOK, Next, ~\E c \in Conns : Worker(c)
    PROVE  /\ UNCHANGED <<serving, inCall, saved, done>> /\ window'.busy = window.busy
           /\ IsOpen(window)' => IsOpen(window)
           /\ Attempting' = Attempting /\ Calling' = Calling
           /\ In({"paired"})' = In({"paired"})
<1>0. window \in AWindow
      BY DEF TypeOK, AWindow
<1>1. CASE \E c \in Conns : AcceptConn(c)
  <2>1. PICK c \in Conns : AcceptConn(c)
        BY <1>1
  <2>2. UNCHANGED <<serving, inCall, saved, done, window, timeUp>>
        BY <2>1 DEF AcceptConn
  <2>3. conn[c] = "new" /\ \E s \in {"closed", "serving"} : conn' = [conn EXCEPT ![c] = s]
        BY <2>1 DEF AcceptConn
  <2>4. /\ Attempting' = Attempting /\ Calling' = Calling
        /\ In({"paired"})' = In({"paired"})
        BY <2>3 DEF Attempting, Calling, In, TypeOK
  <2>5. QED BY <2>2, <2>4 DEF IsOpen
<1>2. CASE MainLooksAtWindow
  <2>1. UNCHANGED <<serving, inCall, saved, done, conn, timeUp>> /\ window' = Looked(window)
        BY <1>2 DEF MainLooksAtWindow
  <2>2. window'.busy = window.busy /\ window'.open = IsOpen(window)
        BY <2>1, <1>0, Looks
  <2>3. QED BY <2>1, <2>2 DEF IsOpen, Attempting, Calling, In
<1>3. CASE AcceptorPolls \/ AcceptorTimesOut \/ TimeRunsOut \/ ListenerOver
           \/ MainLooksAtDone \/ MainLooksAtBusy \/ MainStops \/ MainLeaves
  <2>1. UNCHANGED <<serving, inCall, saved, done, conn, window>> /\ (timeUp => timeUp')
        BY <1>3 DEF AcceptorPolls, AcceptorTimesOut, TimeRunsOut, ListenerOver, vars,
                    MainLooksAtDone, MainLooksAtBusy, MainStops, MainLeaves
  <2>2. QED BY <2>1 DEF IsOpen, Attempting, Calling, In
<1>4. QED BY <1>1, <1>2, <1>3 DEF Next, Acceptor, Main

(* The window is not opened by anybody. *)
LEMMA WorkerNeverOpens ==
    ASSUME TypeOK, NEW c \in Conns, Worker(c)
    PROVE  /\ UNCHANGED <<serving, timeUp, main>>
           /\ IsOpen(window)' => IsOpen(window)
<1>0. window \in AWindow
      BY DEF TypeOK, AWindow
<1>1. UNCHANGED <<serving, timeUp, main>>
      BY DEF Worker, Serve, HandshakeFails, Authenticate, BeginPairing, RefusePairing,
             PairingSucceeds, OnPairReports, PairingFails, FinishPairing, CloseWindow,
             BeginCall, RefuseCall, OnCallReports, ReleaseCall
<1>2. CASE Serve(c) \/ RefusePairing(c)
  <2>1. window' = Looked(window) \/ window' = window
        BY <1>2 DEF Serve, RefusePairing
  <2>2. QED BY <1>0, <1>1, <2>1, Looks DEF IsOpen
<1>3. CASE BeginPairing(c)
      BY <1>3 DEF BeginPairing, Free
<1>4. CASE FinishPairing(c)
  <2>1. window'.open = window.open
        BY <1>0, <1>4, Finishes DEF FinishPairing
  <2>2. QED BY <1>1, <2>1 DEF IsOpen
<1>5. CASE CloseWindow(c)
  <2>1. ~window'.open
        BY <1>0, <1>5, SetOpen DEF CloseWindow
  <2>2. QED BY <1>1, <2>1 DEF IsOpen
<1>6. CASE HandshakeFails(c) \/ Authenticate(c) \/ PairingSucceeds(c) \/ OnPairReports(c)
           \/ PairingFails(c) \/ BeginCall(c) \/ RefuseCall(c) \/ OnCallReports(c)
           \/ ReleaseCall(c)
  <2>1. UNCHANGED window
        BY <1>6 DEF HandshakeFails, Authenticate, PairingSucceeds, OnPairReports,
                    PairingFails, BeginCall, RefuseCall, OnCallReports, ReleaseCall
  <2>2. QED BY <1>1, <2>1 DEF IsOpen
<1>7. QED BY <1>1, <1>2, <1>3, <1>4, <1>5, <1>6 DEF Worker

-----------------------------------------------------------------------------
(* One pairing and one call at a time. *)

LEMMA BusyStep ==
    ASSUME TypeOK, BusyMeansOne, Next
    PROVE  BusyMeansOne'
<1> USE DEF BusyMeansOne
<1>0. window \in AWindow
      BY DEF TypeOK, AWindow
<1>1. CASE ~\E c \in Conns : Worker(c)
      BY <1>1, OtherSteps
<1>2. ASSUME NEW c \in Conns, BeginPairing(c) PROVE BusyMeansOne'
  <2>1. Attempting = {} /\ window'.busy
        BY <1>0, <1>2, Begins DEF BeginPairing, Free
  <2>2. Attempting' = {c}
        BY <1>2, <2>1 DEF BeginPairing, Attempting, In, TypeOK
  <2>3. QED BY <2>1, <2>2
<1>3. ASSUME NEW c \in Conns, FinishPairing(c) PROVE BusyMeansOne'
  <2>1. c \in Attempting
        BY <1>3 DEF FinishPairing, Attempting, In
  <2>2. Attempting' \subseteq Attempting \ {c}
        BY <1>3 DEF FinishPairing, Attempting, In, TypeOK
  <2>3. Attempting' = {}
        BY <2>1, <2>2
  <2>4. QED BY <2>3
<1>4. ASSUME NEW c \in Conns, PairingSucceeds(c) \/ OnPairReports(c) \/ PairingFails(c)
      PROVE  BusyMeansOne'
  <2>1. /\ conn[c] \in {"pairing", "paired"} /\ window' = window
        /\ \E s \in {"paired", "finishing", "mismatch"} : conn' = [conn EXCEPT ![c] = s]
        BY <1>4 DEF PairingSucceeds, OnPairReports, PairingFails
  <2>2. Attempting' = Attempting
        BY <2>1 DEF Attempting, In, TypeOK
  <2>3. QED BY <2>1, <2>2
<1>5. ASSUME NEW c \in Conns,
             \/ Serve(c) \/ HandshakeFails(c) \/ Authenticate(c) \/ RefusePairing(c)
             \/ CloseWindow(c) \/ BeginCall(c) \/ RefuseCall(c) \/ OnCallReports(c)
             \/ ReleaseCall(c)
      PROVE  BusyMeansOne'
  <2>1. /\ conn[c] \notin {"pairing", "paired", "finishing", "mismatch"}
        /\ \E s \in States \ {"pairing", "paired", "finishing", "mismatch"} :
              conn' = [conn EXCEPT ![c] = s]
        BY <1>5 DEF Serve, HandshakeFails, Authenticate, RefusePairing, CloseWindow,
                    BeginCall, RefuseCall, OnCallReports, ReleaseCall, States
  <2>2. Attempting' = Attempting
        BY <2>1 DEF Attempting, In, TypeOK
  <2>3. window' \in {window, Looked(window), [window EXCEPT !.open = FALSE]}
        BY <1>5 DEF Serve, HandshakeFails, Authenticate, RefusePairing, CloseWindow,
                    BeginCall, RefuseCall, OnCallReports, ReleaseCall
  <2>4. window'.busy = window.busy
        BY <1>0, <2>3, Looks, SetOpen
  <2>5. QED BY <2>2, <2>4
<1>6. QED BY <1>1, <1>2, <1>3, <1>4, <1>5 DEF Worker

LEMMA InCallStep ==
    ASSUME TypeOK, InCallMeansOne, Next
    PROVE  InCallMeansOne'
<1> USE DEF InCallMeansOne
<1>1. CASE ~\E c \in Conns : Worker(c)
      BY <1>1, OtherSteps
<1>2. ASSUME NEW c \in Conns, BeginCall(c) PROVE InCallMeansOne'
  <2>1. Calling = {} /\ inCall'
        BY <1>2 DEF BeginCall
  <2>2. Calling' = {c}
        BY <1>2, <2>1 DEF BeginCall, Calling, In, TypeOK
  <2>3. QED BY <2>1, <2>2
<1>3. ASSUME NEW c \in Conns, ReleaseCall(c) PROVE InCallMeansOne'
  <2>1. c \in Calling
        BY <1>3 DEF ReleaseCall, Calling, In
  <2>2. Calling' \subseteq Calling \ {c}
        BY <1>3 DEF ReleaseCall, Calling, In, TypeOK
  <2>3. Calling' = {}
        BY <2>1, <2>2
  <2>4. QED BY <2>3
<1>4. ASSUME NEW c \in Conns, OnCallReports(c) PROVE InCallMeansOne'
      BY <1>4 DEF OnCallReports, Calling, In, TypeOK
<1>5. ASSUME NEW c \in Conns, Worker(c), ~BeginCall(c), ~ReleaseCall(c), ~OnCallReports(c)
      PROVE  InCallMeansOne'
  <2>1. /\ conn[c] \notin {"in_call", "call_over"} /\ UNCHANGED inCall
        /\ \E s \in States \ {"in_call", "call_over"} : conn' = [conn EXCEPT ![c] = s]
        BY <1>5 DEF Worker, Serve, HandshakeFails, Authenticate, BeginPairing, RefusePairing,
                    PairingSucceeds, OnPairReports, PairingFails, FinishPairing, CloseWindow,
                    RefuseCall, States
  <2>2. Calling' = Calling
        BY <2>1 DEF Calling, In, TypeOK
  <2>3. QED BY <2>1, <2>2
<1>6. QED BY <1>1, <1>2, <1>3, <1>4, <1>5

-----------------------------------------------------------------------------
(* The waiting thread. *)

LEMMA WindowIsFirstStep ==
    ASSUME TypeOK, BusyMeansOne, WindowIsFirst, Next
    PROVE  WindowIsFirst'
<1> USE DEF WindowIsFirst
<1>0. window \in AWindow
      BY DEF TypeOK, AWindow
<1>1. CASE \E c \in Conns : Worker(c)
  <2>0. PICK c \in Conns : Worker(c)
        BY <1>1
  <2>1. UNCHANGED <<serving, timeUp, main>> /\ (IsOpen(window)' => IsOpen(window))
        BY <2>0, WorkerNeverOpens
  <2>2. CASE PairingSucceeds(c)
    <3>1. In({"paired"})' = In({"paired"}) \cup {c} /\ UNCHANGED <<window, done>>
          BY <2>2 DEF PairingSucceeds, In, TypeOK
    <3>2. QED BY <2>1, <3>1
  <2>3. CASE OnPairReports(c)
        BY <2>1, <2>3 DEF OnPairReports
  <2>4. CASE OnCallReports(c)
        BY <2>1, <2>4 DEF OnCallReports
  <2>5. CASE BeginPairing(c)
    <3>1. IsOpen(window) /\ UNCHANGED <<saved, done>>
          BY <2>5 DEF BeginPairing, Free
    <3>2. In({"paired"})' = In({"paired"})
          BY <2>5 DEF BeginPairing, In, TypeOK
    <3>3. QED BY <2>1, <3>1, <3>2
  <2>6. CASE FinishPairing(c)
    <3>1. window'.busy = FALSE /\ UNCHANGED <<saved, done>>
          BY <1>0, <2>6, Finishes DEF FinishPairing
    <3>2. In({"paired"})' = In({"paired"})
          BY <2>6 DEF FinishPairing, In, TypeOK
    <3>3. QED BY <2>1, <3>1, <3>2
  <2>7. CASE \/ Serve(c) \/ HandshakeFails(c) \/ Authenticate(c) \/ RefusePairing(c)
             \/ CloseWindow(c) \/ BeginCall(c) \/ RefuseCall(c) \/ ReleaseCall(c)
             \/ PairingFails(c)
    <3>1. /\ conn[c] # "paired" /\ UNCHANGED <<saved, done>>
          /\ \E s \in States \ {"paired"} : conn' = [conn EXCEPT ![c] = s]
          /\ window' \in {window, Looked(window), [window EXCEPT !.open = FALSE]}
          BY <2>7 DEF Serve, HandshakeFails, Authenticate, RefusePairing, CloseWindow,
                      BeginCall, RefuseCall, ReleaseCall, PairingFails, States
    <3>2. In({"paired"})' = In({"paired"})
          BY <3>1 DEF In, TypeOK
    <3>3. window'.busy = window.busy
          BY <1>0, <3>1, Looks, SetOpen
    <3>4. QED BY <2>1, <3>1, <3>2, <3>3
  <2>8. QED BY <2>0, <2>2, <2>3, <2>4, <2>5, <2>6, <2>7 DEF Worker
<1>2. CASE ~\E c \in Conns : Worker(c)
  <2>0. /\ UNCHANGED <<serving, saved, done>> /\ window'.busy = window.busy
        /\ IsOpen(window)' => IsOpen(window)
        /\ In({"paired"})' = In({"paired"})
        BY <1>2, OtherSteps
  <2>1. CASE UNCHANGED main
        BY <2>0, <2>1
  <2>2. CASE MainLooksAtDone
        BY <2>0, <2>2 DEF MainLooksAtDone
  <2>3. CASE MainLooksAtWindow
    <3>1. main' = "busy?" => ~IsOpen(window)
          BY <2>3 DEF MainLooksAtWindow
    <3>2. main' \in {"done?", "busy?"}
          BY <2>3 DEF MainLooksAtWindow
    <3>3. QED BY <2>0, <3>1, <3>2
  <2>4. CASE MainLooksAtBusy
    <3>1. main = "busy?" /\ main' = IF window.busy THEN "done?" ELSE "stopping"
          BY <2>4 DEF MainLooksAtBusy
    <3>2. QED BY <2>0, <3>1
  <2>5. CASE MainStops \/ MainLeaves
    <3>1. main \in {"stopping", "joining"} /\ main' \in {"joining", "left"}
          BY <2>5 DEF MainStops, MainLeaves
    <3>2. QED BY <2>0, <3>1
  <2>6. UNCHANGED main \/ Main
        BY <1>2 DEF Next, Acceptor, AcceptorPolls, AcceptorTimesOut, AcceptConn, TimeRunsOut,
                    ListenerOver, vars
  <2>7. QED BY <2>1, <2>2, <2>3, <2>4, <2>5, <2>6 DEF Main
<1>3. QED BY <1>1, <1>2

-----------------------------------------------------------------------------
LEMMA IInvStep == IInv /\ [Next]_vars => IInv'
<1>1. ASSUME IInv, Next PROVE IInv'
      BY <1>1, ListenerTypeStep, SlotsStep, BusyStep, InCallStep, WindowIsFirstStep DEF IInv
<1>2. ASSUME IInv, UNCHANGED vars PROVE IInv'
      BY <1>2 DEF IInv, TypeOK, SlotsMatchHandshakes, BusyMeansOne, InCallMeansOne,
                  WindowIsFirst, Attempting, Calling, IsOpen, In, vars
<1>3. QED BY <1>1, <1>2

LEMMA IInvAlways == Spec => []IInv
BY IInvInit, IInvStep, PTL DEF Spec

(* A handshake's slot comes back on every way out of it, for any number of   *)
(* connections (listener.py:73-95).                                          *)
THEOREM SlotsComeBack == Spec => []SlotsMatchHandshakes
<1>1. IInv => SlotsMatchHandshakes
      BY DEF IInv
<1>2. QED BY <1>1, IInvAlways, PTL

(* However many peers knock, one pairs at a time and one talks at a time     *)
(* (pairing.py:81, listener.py:108).                                         *)
THEOREM OnePairingOneCall == Spec => []OneAtATime
<1>1. ASSUME NEW S, \A c, d \in S : c = d PROVE Cardinality(S) <= 1
  <2>1. S = {} \/ \E c : S = {c}
        BY <1>1
  <2>2. CASE S = {}
        BY <2>2, FS_EmptySet
  <2>3. ASSUME NEW c, S = {c} PROVE Cardinality(S) <= 1
    <3>1. Cardinality({c}) = 1
          BY FS_Singleton
    <3>2. QED BY <2>3, <3>1
  <2>4. QED BY <2>1, <2>2, <2>3
<1>2. IInv => OneAtATime
  <2>1. SUFFICES ASSUME IInv PROVE OneAtATime
        OBVIOUS
  <2>2. /\ \A c, d \in Attempting : c = d
        /\ \A c, d \in Calling : c = d
        BY <2>1 DEF IInv, BusyMeansOne, InCallMeansOne
  <2>3. Cardinality(Attempting) <= 1 /\ Cardinality(Calling) <= 1
        BY <1>1, <2>2
  <2>4. QED BY <2>3 DEF OneAtATime, Attempting, Calling
<1>3. QED BY <1>2, IInvAlways, PTL

(* When the waiting thread gives up, nobody was saved that it does not       *)
(* report, nobody pairs and nobody can begin to (pairflow.py:102-112).       *)
THEOREM NobodySavedInSecret == Spec => []NothingSavedUnreported
<1>1. IInv => NothingSavedUnreported
  <2>1. SUFFICES ASSUME IInv, serving = "pair", main \in {"stopping", "joining", "left"},
                        ~done
                 PROVE  /\ saved = {} /\ In({"pairing", "paired"}) = {}
                        /\ ~Free(window)
        BY DEF NothingSavedUnreported
  <2>2. ~IsOpen(window) /\ Attempting = {}
        BY <2>1 DEF IInv, WindowIsFirst, BusyMeansOne
  <2>3. In({"pairing", "paired"}) = {} /\ In({"paired"}) = {}
        BY <2>2 DEF Attempting, In
  <2>4. QED BY <2>1, <2>2, <2>3 DEF IInv, WindowIsFirst, Free
<1>2. QED BY <1>1, IInvAlways, PTL

-----------------------------------------------------------------------------
(* The exchange. *)

I == "initiator"
R == "responder"

(* A run that shows its user the code, or is past that. *)
Coded == {"code", "save"} \cup Deciding

(* d knows both nonces. *)
Complete(d) == IF d = I THEN view[I].r # 0 ELSE view[R].i # 0

Commit == [type |-> "COMMIT", value |-> view[R].r]
Nonce  == [type |-> "NONCE", value |-> view[I].i]
Reveal == [type |-> "REVEAL", value |-> view[R].r]

Confirm(v) == [type |-> "CONFIRM", value |-> v]

(* What is behind a CONFIRM of d: its user's yes, or a run that has ended.   *)
Meant(d, v) == IF v = 1 THEN sent[d] = "yes" ELSE Gone(d) /\ ~kept[d]

(* What the responder finds on its side of the channel, at each point.       *)
ToResponder ==
    /\ at[R] \in {"commit", "reveal"} => wire[I] = <<>>
    /\ at[R] = "await_nonce" =>
          \/ at[I] # "await_reveal" /\ wire[I] = <<>>
          \/ at[I] \in {"await_reveal", "over"} /\ wire[I] = <<Nonce>>
    /\ at[R] \in Coded =>
          \/ wire[I] = <<>>
          \/ \E v \in {0, 1} : wire[I] = <<Confirm(v)>> /\ Meant(I, v)

(* The same for the initiator. *)
ToInitiator ==
    /\ at[I] = "await_commit" =>
          \/ at[R] # "await_nonce" /\ wire[R] = <<>>
          \/ at[R] # "commit" /\ wire[R] = <<Commit>>
    /\ at[I] = "nonce" => wire[R] = <<>>
    /\ at[I] = "await_reveal" =>
          \/ at[R] \notin Coded /\ wire[R] = <<>>
          \/ at[R] \in Coded \cup {"over"} /\ wire[R] = <<Reveal>>
          \/ \E v \in {0, 1} : /\ at[R] \in Coded \cup {"over"}
                               /\ wire[R] = <<Reveal, Confirm(v)>> /\ Meant(R, v)
    /\ at[I] \in Coded =>
          \/ wire[R] = <<>>
          \/ \E v \in {0, 1} : wire[R] = <<Confirm(v)>> /\ Meant(R, v)

(* A device that has not confirmed has nothing but the reveal on its way.    *)
NotSaid ==
    /\ at[I] \in Coded /\ sent[I] = "none" /\ at[R] # "over" => wire[I] = <<>>
    /\ at[R] \in Coded /\ sent[R] = "none" /\ at[I] # "over" =>
          wire[R] = IF at[I] = "await_reveal" THEN <<Reveal>> ELSE <<>>

(* How far the two runs can be apart. *)
Turn ==
    \/ Gone(I) \/ Gone(R)
    \/ at[I] = "await_commit" /\ at[R] \in {"commit", "await_nonce"}
    \/ at[I] = "nonce" /\ at[R] = "await_nonce"
    \/ at[I] = "await_reveal" /\ at[R] \in {"await_nonce", "reveal"} \cup Coded
    \/ at[I] \in Coded /\ at[R] \in Coded

Roles ==
    /\ at[I] \in {"await_commit", "nonce", "await_reveal", "over"} \cup Coded
    /\ at[R] \in {"commit", "await_nonce", "reveal", "over"} \cup Coded

(* No device ever knows a nonce the other did not draw. *)
Views ==
    /\ view[I].c \in {0, view[R].r} /\ view[I].r \in {0, view[R].r}
    /\ view[R].i \in {0, view[I].i}
    /\ at[R] = "commit" => view[I].c = 0 /\ view[I].r = 0
    /\ at[I] \in {"await_commit", "nonce"} => view[R].i = 0
    /\ at[I] \in {"nonce", "await_reveal"} => view[I].c = view[R].r
    /\ at[R] # "commit" /\ ~Gone(R) => view[R].r # 0
    /\ \A d \in Devices : at[d] \in Coded => Complete(d)
    /\ at[R] = "reveal" => Complete(R)

(* What the users' decisions, and the ends of the runs, go back to. *)
Says(d) ==
    /\ sent[d] # "none" => sent[d] = answer[d]
    /\ sent[d] = "yes" => Complete(d)
    /\ sent[d] = "no" => Gone(d) /\ ~kept[d]
    /\ peer[d] => sent[Other(d)] = "yes"
    /\ at[d] = "save" => sent[d] = "yes" /\ peer[d]
    /\ kept[d] => Gone(d) /\ sent[d] = "yes" /\ peer[d]
    /\ Gone(d) => result[d] # "none"
    /\ result[d] = "paired" => kept[d]
    /\ result[d] = "declined" => sent[d] = "no"
    /\ result[d] = "peer_declined" => Gone(Other(d)) /\ ~kept[Other(d)]
    /\ result[d] \notin {"protocol", "bad_commit"}

Rules ==
    /\ Roles /\ Turn /\ Views
    /\ ToResponder /\ ToInitiator /\ NotSaid
    /\ Says(I) /\ Says(R)

EInv == ExchangeTypeOK /\ Rules

-----------------------------------------------------------------------------
LEMMA Two ==
    /\ Other(I) = R /\ Other(R) = I /\ I # R
    /\ Devices = {I, R}
    /\ \A d \in Devices : Other(d) \in Devices /\ Other(d) # d /\ Other(Other(d)) = d
BY DEF Other, Devices, I, R

LEMMA Tuples ==
    ASSUME NEW m, NEW n
    PROVE  /\ <<m>> # <<>> /\ Head(<<m>>) = m /\ Tail(<<m>>) = <<>>
           /\ <<m, n>> # <<>> /\ Head(<<m, n>>) = m /\ Tail(<<m, n>>) = <<n>>
           /\ Append(<<>>, m) = <<m>> /\ Append(<<m>>, n) = <<m, n>>
<1>1. <<m>> # <<>> /\ Head(<<m>>) = m
      OBVIOUS
<1>2. Tail(<<m>>) = <<>>
      OBVIOUS
<1>3. <<m, n>> # <<>> /\ Head(<<m, n>>) = m
      OBVIOUS
<1>4. Tail(<<m, n>>) = <<n>>
      OBVIOUS
<1>5. Append(<<>>, m) = <<m>>
      OBVIOUS
<1>6. Append(<<m>>, n) = <<m, n>>
  <2>1. <<m>> \in Seq({m, n}) /\ <<m, n>> \in Seq({m, n}) /\ Len(<<m>>) = 1
        OBVIOUS
  <2>2. /\ Append(<<m>>, n) \in Seq({m, n}) /\ Len(Append(<<m>>, n)) = 2
        /\ Append(<<m>>, n)[1] = m /\ Append(<<m>>, n)[2] = n
        BY <2>1, AppendProperties
  <2>3. /\ Len(<<m, n>>) = 2 /\ <<m, n>>[1] = m /\ <<m, n>>[2] = n
        OBVIOUS
  <2>4. \A i \in 1..2 : i = 1 \/ i = 2
        OBVIOUS
  <2>5. \A i \in 1..Len(<<m, n>>) : Append(<<m>>, n)[i] = <<m, n>>[i]
        BY <2>2, <2>3, <2>4
  <2>6. QED BY <2>1, <2>2, <2>3, <2>5, SeqEqual
<1>7. QED BY <1>1, <1>2, <1>3, <1>4, <1>5, <1>6

LEMMA ZeroIsNoNonce == 0 \notin Nonces
BY ExchangeAssumption

LEMMA EInvInit == ExchangeInit => EInv
<1> SUFFICES ASSUME ExchangeInit PROVE EInv
    OBVIOUS
<1>1. ExchangeTypeOK
  <2>1. wire \in [Devices -> Seq(Messages)]
        BY EmptySeq DEF ExchangeInit
  <2>2. view \in [Devices -> [c : Nonces \cup {0}, i : Nonces \cup {0}, r : Nonces \cup {0}]]
        BY DEF ExchangeInit
  <2>3. result \in [Devices -> Results]
        BY DEF ExchangeInit, Results
  <2>4. at \in [Devices -> {"commit", "nonce", "reveal", "code", "save", "over"}
                            \cup DOMAIN Awaits \cup Deciding]
        BY DEF ExchangeInit, Awaits
  <2>5. QED BY <2>1, <2>2, <2>3, <2>4 DEF ExchangeInit, ExchangeTypeOK
<1>2. /\ at[I] = "await_commit" /\ at[R] = "commit"
      /\ wire[I] = <<>> /\ wire[R] = <<>>
      BY Two DEF ExchangeInit, I, R
<1>3. Roles /\ Turn /\ ToResponder /\ ToInitiator /\ NotSaid
      BY <1>2 DEF Roles, Turn, ToResponder, ToInitiator, NotSaid, Coded, Deciding
<1>4. Views
      BY <1>2, Two DEF ExchangeInit, Views, Coded, Deciding, Gone
<1>5. Says(I) /\ Says(R)
      BY Two DEF ExchangeInit, Says, Gone
<1>6. QED BY <1>1, <1>3, <1>4, <1>5 DEF EInv, Rules

-----------------------------------------------------------------------------
(* Types. *)

LEMMA Waits ==
    /\ DOMAIN Awaits = {"await_commit", "await_nonce", "await_reveal"}
    /\ Awaits["await_commit"] = [type |-> "COMMIT", field |-> "c", next |-> "nonce"]
    /\ Awaits["await_nonce"] = [type |-> "NONCE", field |-> "i", next |-> "reveal"]
    /\ Awaits["await_reveal"] = [type |-> "REVEAL", field |-> "r", next |-> "code"]
BY DEF Awaits

LEMMA Told ==
    /\ \A n \in Nonces : /\ [type |-> "COMMIT", value |-> n] \in Messages
                         /\ [type |-> "NONCE", value |-> n] \in Messages
                         /\ [type |-> "REVEAL", value |-> n] \in Messages
    /\ \A v \in {0, 1} : Confirm(v) \in Messages
    /\ Confirms(TRUE) = Confirm(1) /\ Confirms(FALSE) = Confirm(0)
BY DEF Messages, Confirm, Confirms

(* Where a run goes, and what it leaves behind, has the right type. *)
Places == {"commit", "nonce", "reveal", "code", "save", "over"} \cup DOMAIN Awaits \cup Deciding

LEMMA MoveTypes ==
    ASSUME ExchangeTypeOK, NEW d \in Devices
    PROVE  /\ \A s \in Places : Goes(d, s) => at' \in [Devices -> Places] /\ result' \in [Devices -> Results]
           /\ \A h \in Results : Ends(d, h) => at' \in [Devices -> Places] /\ result' \in [Devices -> Results]
           /\ \A m \in Messages : Delivers(d, m) => wire' \in [Devices -> Seq(Messages)]
           /\ CannotSend(d) => wire' \in [Devices -> Seq(Messages)]
           /\ wire[Other(d)] # <<>> => /\ Head(wire[Other(d)]) \in Messages
                                       /\ [wire EXCEPT ![Other(d)] = Tail(@)] \in [Devices -> Seq(Messages)]
<1>1. at \in [Devices -> Places] /\ result \in [Devices -> Results] /\ wire \in [Devices -> Seq(Messages)]
      BY DEF ExchangeTypeOK, Places
<1>2. ASSUME NEW s \in Places, Goes(d, s)
      PROVE  at' \in [Devices -> Places] /\ result' \in [Devices -> Results]
      BY <1>1, <1>2 DEF Goes
<1>3. ASSUME NEW h \in Results, Ends(d, h)
      PROVE  at' \in [Devices -> Places] /\ result' \in [Devices -> Results]
  <2>1. "over" \in Places
        BY DEF Places
  <2>2. QED BY <1>1, <1>3, <2>1 DEF Ends
<1>4. ASSUME NEW m \in Messages, Delivers(d, m) PROVE wire' \in [Devices -> Seq(Messages)]
  <2>1. Append(wire[d], m) \in Seq(Messages)
        BY <1>1, AppendProperties
  <2>2. QED BY <1>1, <1>4, <2>1 DEF Delivers
<1>5. ASSUME wire[Other(d)] # <<>>
      PROVE  /\ Head(wire[Other(d)]) \in Messages
             /\ [wire EXCEPT ![Other(d)] = Tail(@)] \in [Devices -> Seq(Messages)]
  <2>1. wire[Other(d)] \in Seq(Messages)
        BY <1>1, Two
  <2>2. Head(wire[Other(d)]) \in Messages /\ Tail(wire[Other(d)]) \in Seq(Messages)
        BY <1>5, <2>1
  <2>3. QED BY <1>1, <2>2
<1>6. QED BY <1>1, <1>2, <1>3, <1>4, <1>5 DEF CannotSend

-----------------------------------------------------------------------------
(* What a run hears is what the exchange expects there. *)

HearsCommit ==
    /\ at[I] = "await_commit" /\ wire[R] = <<Commit>> /\ at[R] # "commit"
    /\ wire' = [wire EXCEPT ![R] = <<>>]
    /\ Goes(I, "nonce") /\ view' = [view EXCEPT ![I].c = view[R].r]

HearsNonce ==
    /\ at[R] = "await_nonce" /\ wire[I] = <<Nonce>> /\ at[I] \in {"await_reveal", "over"}
    /\ wire' = [wire EXCEPT ![I] = <<>>]
    /\ Goes(R, "reveal") /\ view' = [view EXCEPT ![R].i = view[I].i]

HearsReveal ==
    /\ at[I] = "await_reveal" /\ at[R] \in Coded \cup {"over"}
    /\ \/ wire[R] = <<Reveal>> /\ wire' = [wire EXCEPT ![R] = <<>>]
       \/ \E v \in {0, 1} : /\ wire[R] = <<Reveal, Confirm(v)>> /\ Meant(R, v)
                            /\ wire' = [wire EXCEPT ![R] = <<Confirm(v)>>]
    /\ Goes(I, "code") /\ view' = [view EXCEPT ![I].r = view[R].r]

LEMMA Heard ==
    ASSUME EInv, NEW d \in Devices, Hear(d)
    PROVE  /\ HearsCommit \/ HearsNonce \/ HearsReveal
           /\ UNCHANGED <<link, late, answer, sent, peer, kept>>
<1> DEFINE want == Awaits[at[d]]
           m == Head(wire[Other(d)])
<1>0. /\ at[d] \in {"await_commit", "await_nonce", "await_reveal"} /\ wire[Other(d)] # <<>>
      /\ UNCHANGED <<link, late, answer, sent, peer, kept>>
      /\ wire' = [wire EXCEPT ![Other(d)] = Tail(@)]
      /\ m.type = want.type /\ (want.type = "REVEAL" => m.value = view[d].c) =>
            Goes(d, want.next) /\ view' = [view EXCEPT ![d][want.field] = m.value]
      BY Waits DEF Hear
<1>1. CASE at[d] = "await_commit"
  <2>1. d = I /\ Other(d) = R
        BY <1>1, Two DEF EInv, Rules, Roles, Coded, Deciding
  <2>2. wire[R] = <<Commit>> /\ at[R] # "commit"
        BY <1>0, <1>1, <2>1 DEF EInv, Rules, ToInitiator
  <2>3. m = Commit /\ Tail(wire[R]) = <<>>
        BY <2>1, <2>2, Tuples
  <2>4. Goes(I, "nonce") /\ view' = [view EXCEPT ![I].c = view[R].r]
        BY <1>0, <1>1, <2>1, <2>3, Waits DEF Commit
  <2>5. QED BY <1>0, <1>1, <2>1, <2>2, <2>3, <2>4 DEF HearsCommit
<1>2. CASE at[d] = "await_nonce"
  <2>1. d = R /\ Other(d) = I
        BY <1>2, Two DEF EInv, Rules, Roles, Coded, Deciding
  <2>2. wire[I] = <<Nonce>> /\ at[I] \in {"await_reveal", "over"}
        BY <1>0, <1>2, <2>1 DEF EInv, Rules, ToResponder
  <2>3. m = Nonce /\ Tail(wire[I]) = <<>>
        BY <2>1, <2>2, Tuples
  <2>4. Goes(R, "reveal") /\ view' = [view EXCEPT ![R].i = view[I].i]
        BY <1>0, <1>2, <2>1, <2>3, Waits DEF Nonce
  <2>5. QED BY <1>0, <1>2, <2>1, <2>2, <2>3, <2>4 DEF HearsNonce
<1>3. CASE at[d] = "await_reveal"
  <2>1. d = I /\ Other(d) = R
        BY <1>3, Two DEF EInv, Rules, Roles, Coded, Deciding
  <2>2. /\ at[R] \in Coded \cup {"over"}
        /\ \/ wire[R] = <<Reveal>>
           \/ \E v \in {0, 1} : wire[R] = <<Reveal, Confirm(v)>> /\ Meant(R, v)
        BY <1>0, <1>3, <2>1 DEF EInv, Rules, ToInitiator
  <2>3. /\ m = Reveal
        /\ \/ wire[R] = <<Reveal>> /\ Tail(wire[R]) = <<>>
           \/ \E v \in {0, 1} : /\ wire[R] = <<Reveal, Confirm(v)>> /\ Meant(R, v)
                                /\ Tail(wire[R]) = <<Confirm(v)>>
    <3>1. CASE wire[R] = <<Reveal>>
          BY <2>1, <3>1, Tuples
    <3>2. ASSUME NEW v \in {0, 1}, wire[R] = <<Reveal, Confirm(v)>>, Meant(R, v)
          PROVE  m = Reveal /\ Tail(wire[R]) = <<Confirm(v)>>
          BY <2>1, <3>2, Tuples
    <3>3. QED BY <2>2, <3>1, <3>2
  <2>4. view[I].c = view[R].r
        BY <1>3, <2>1 DEF EInv, Rules, Views
  <2>5. Goes(I, "code") /\ view' = [view EXCEPT ![I].r = view[R].r]
        BY <1>0, <1>3, <2>1, <2>3, <2>4, Waits DEF Reveal
  <2>6. QED BY <1>0, <1>3, <2>1, <2>2, <2>3, <2>5 DEF HearsReveal
<1>4. QED BY <1>0, <1>1, <1>2, <1>3

(* A CONFIRM, or nothing. *)
Reads(d, v) ==
    /\ wire[Other(d)] = <<Confirm(v)>> /\ Meant(Other(d), v)
    /\ wire' = [wire EXCEPT ![Other(d)] = <<>>]
    /\ \/ v = 0 /\ Ends(d, "peer_declined") /\ UNCHANGED peer
       \/ v = 1 /\ Goes(d, "answer?") /\ peer' = [peer EXCEPT ![d] = TRUE]

LEMMA Read ==
    ASSUME EInv, NEW d \in Devices, LooksAtChannel(d)
    PROVE  /\ at[d] = "confirm?" /\ UNCHANGED <<view, link, late, answer, sent, kept>>
           /\ \/ \E v \in {0, 1} : Reads(d, v)
              \/ Ends(d, "peer_closed") /\ UNCHANGED <<wire, peer>>
              \/ Goes(d, "answer?") /\ UNCHANGED <<wire, peer>>
<1>0. at[d] = "confirm?" /\ UNCHANGED <<view, link, late, answer, sent, kept>>
      BY DEF LooksAtChannel
<1>1. \/ wire[Other(d)] = <<>>
      \/ \E v \in {0, 1} : wire[Other(d)] = <<Confirm(v)>> /\ Meant(Other(d), v)
      BY <1>0, Two DEF EInv, Rules, ToInitiator, ToResponder, Coded, Deciding
<1> DEFINE m == Head(wire[Other(d)])
<1>a. \/ /\ wire[Other(d)] # <<>>
         /\ wire' = [wire EXCEPT ![Other(d)] = Tail(@)]
         /\ \/ m.type # "CONFIRM"
            \/ m = Confirms(FALSE) /\ Ends(d, "peer_declined") /\ UNCHANGED peer
            \/ m = Confirms(TRUE) /\ Goes(d, "answer?") /\ peer' = [peer EXCEPT ![d] = TRUE]
      \/ Ends(d, "peer_closed") /\ UNCHANGED <<wire, peer>>
      \/ Goes(d, "answer?") /\ UNCHANGED <<wire, peer>>
      BY DEF LooksAtChannel
<1>2. ASSUME wire[Other(d)] # <<>>,
             wire' = [wire EXCEPT ![Other(d)] = Tail(@)],
             \/ m.type # "CONFIRM"
             \/ m = Confirms(FALSE) /\ Ends(d, "peer_declined") /\ UNCHANGED peer
             \/ m = Confirms(TRUE) /\ Goes(d, "answer?") /\ peer' = [peer EXCEPT ![d] = TRUE]
      PROVE  \E v \in {0, 1} : Reads(d, v)
  <2>1. PICK v \in {0, 1} : wire[Other(d)] = <<Confirm(v)>> /\ Meant(Other(d), v)
        BY <1>1, <1>2
  <2>2. Head(wire[Other(d)]) = Confirm(v) /\ Tail(wire[Other(d)]) = <<>>
        BY <2>1, Tuples
  <2>3. Confirm(v).type = "CONFIRM" /\ (v = 0 => Confirm(v) # Confirms(TRUE))
        /\ (v = 1 => Confirm(v) # Confirms(FALSE))
        BY DEF Confirm, Confirms
  <2>4. Reads(d, v)
        BY <1>2, <2>1, <2>2, <2>3 DEF Reads
  <2>5. QED BY <2>4
<1>3. QED BY <1>0, <1>a, <1>2

-----------------------------------------------------------------------------
LEMMA TypeStep ==
    ASSUME EInv, ExchangeNext
    PROVE  ExchangeTypeOK'
<1>z. ExchangeTypeOK
      BY DEF EInv
<1>0. /\ view \in [Devices -> [c : Nonces \cup {0}, i : Nonces \cup {0}, r : Nonces \cup {0}]]
      /\ at \in [Devices -> Places] /\ result \in [Devices -> Results]
      /\ wire \in [Devices -> Seq(Messages)]
      BY <1>z DEF ExchangeTypeOK, Places
<1>a. /\ {"code", "save", "over", "nonce", "reveal", "await_nonce", "await_reveal"} \subseteq Places
      /\ {"answer?", "deadline?", "confirm?"} \subseteq Places
      BY Waits DEF Places, Deciding
<1>b. {"peer_closed", "timeout", "protocol", "bad_commit", "store_failed", "declined",
       "peer_declined", "paired", "crashed"} \subseteq Results
      BY DEF Results
<1>c. ASSUME at' \in [Devices -> Places], result' \in [Devices -> Results],
             wire' \in [Devices -> Seq(Messages)],
             view' \in [Devices -> [c : Nonces \cup {0}, i : Nonces \cup {0}, r : Nonces \cup {0}]],
             link' \in BOOLEAN, late' \in [Devices -> BOOLEAN], peer' \in [Devices -> BOOLEAN],
             answer' \in [Devices -> {"none", "yes", "no"}],
             sent' \in [Devices -> {"none", "yes", "no"}], kept' \in [Devices -> BOOLEAN]
      PROVE  ExchangeTypeOK'
      BY <1>c DEF ExchangeTypeOK, Places
<1>1. ASSUME NEW d \in Devices, SendCommit(d) PROVE ExchangeTypeOK'
  <2>1. PICK n \in Nonces : /\ view' = [view EXCEPT ![d].r = n]
                            /\ Sends(d, [type |-> "COMMIT", value |-> n], "await_nonce")
        BY <1>1 DEF SendCommit
  <2>2. view' \in [Devices -> [c : Nonces \cup {0}, i : Nonces \cup {0}, r : Nonces \cup {0}]]
        BY <1>0, <2>1
  <2>3. QED BY <1>1, <2>1, <2>2, <1>a, <1>b, <1>c, Told, MoveTypes, <1>z
            DEF SendCommit, Sends, ExchangeTypeOK
<1>2. ASSUME NEW d \in Devices, SendNonce(d) PROVE ExchangeTypeOK'
  <2>1. PICK n \in Nonces : /\ view' = [view EXCEPT ![d].i = n]
                            /\ Sends(d, [type |-> "NONCE", value |-> n], "await_reveal")
        BY <1>2 DEF SendNonce
  <2>2. view' \in [Devices -> [c : Nonces \cup {0}, i : Nonces \cup {0}, r : Nonces \cup {0}]]
        BY <1>0, <2>1
  <2>3. QED BY <1>2, <2>1, <2>2, <1>a, <1>b, <1>c, Told, MoveTypes, <1>z
            DEF SendNonce, Sends, ExchangeTypeOK
<1>3. ASSUME NEW d \in Devices, SendReveal(d) PROVE ExchangeTypeOK'
  <2>0. d = R /\ at[R] = "reveal"
        BY <1>3, Two DEF SendReveal, EInv, Rules, Roles, Coded, Deciding
  <2>1. view[d].r \in Nonces
        BY <1>0, <2>0, Two DEF EInv, Rules, Views, Gone
  <2>2. QED BY <1>3, <2>1, <1>a, <1>b, <1>c, Told, MoveTypes, <1>z
            DEF SendReveal, Sends, ExchangeTypeOK
<1>4. ASSUME NEW d \in Devices, Hear(d) PROVE ExchangeTypeOK'
  <2>1. I \in Devices /\ R \in Devices
        BY Two
  <2>2. /\ HearsCommit \/ HearsNonce \/ HearsReveal
        /\ UNCHANGED <<link, late, answer, sent, peer, kept>>
        BY <1>4, Heard
  <2>3. at' \in [Devices -> Places] /\ result' \in [Devices -> Results]
        BY <2>1, <2>2, <1>a, <1>z, MoveTypes DEF HearsCommit, HearsNonce, HearsReveal
  <2>4. view' \in [Devices -> [c : Nonces \cup {0}, i : Nonces \cup {0}, r : Nonces \cup {0}]]
    <3>1. /\ view[R].r \in Nonces \cup {0} /\ view[I].i \in Nonces \cup {0}
          BY <1>0, <2>1
    <3>2. \/ view' = [view EXCEPT ![I].c = view[R].r]
          \/ view' = [view EXCEPT ![R].i = view[I].i]
          \/ view' = [view EXCEPT ![I].r = view[R].r]
          BY <2>2 DEF HearsCommit, HearsNonce, HearsReveal
    <3>3. CASE view' = [view EXCEPT ![I].c = view[R].r]
          BY <1>0, <2>1, <3>1, <3>3
    <3>4. CASE view' = [view EXCEPT ![R].i = view[I].i]
          BY <1>0, <2>1, <3>1, <3>4
    <3>5. CASE view' = [view EXCEPT ![I].r = view[R].r]
          BY <1>0, <2>1, <3>1, <3>5
    <3>6. QED BY <3>2, <3>3, <3>4, <3>5
  <2>5. wire' \in [Devices -> Seq(Messages)]
        BY <1>4, <1>z, MoveTypes DEF Hear
  <2>6. QED BY <2>2, <2>3, <2>4, <2>5, <1>c, <1>z DEF ExchangeTypeOK
<1>5. ASSUME NEW d \in Devices, HearsNothing(d) \/ ShowCode(d) \/ DeviceCrashes(d) \/ SavesFriend(d)
      PROVE ExchangeTypeOK'
      BY <1>5, <1>a, <1>b, <1>c, MoveTypes, <1>z
         DEF HearsNothing, ShowCode, DeviceCrashes, SavesFriend, ExchangeTypeOK
<1>6. ASSUME NEW d \in Devices, UserAnswers(d) \/ DeadlinePasses(d) PROVE ExchangeTypeOK'
      BY <1>6, <1>0, <1>c, <1>z DEF UserAnswers, DeadlinePasses, ExchangeTypeOK
<1>7. ASSUME NEW d \in Devices, PassesAnswerOn(d) PROVE ExchangeTypeOK'
  <2>1. Confirms(answer[d] = "yes") \in Messages
        BY Told DEF Confirms, Messages
  <2>2. QED BY <1>7, <2>1, <1>a, <1>b, <1>c, MoveTypes, <1>z
            DEF PassesAnswerOn, ExchangeTypeOK
<1>8. ASSUME NEW d \in Devices, LooksAtClock(d) PROVE ExchangeTypeOK'
      BY <1>8, <1>a, <1>b, <1>c, Told, MoveTypes, <1>z DEF LooksAtClock, ExchangeTypeOK
<1>9. ASSUME NEW d \in Devices, LooksAtChannel(d) PROVE ExchangeTypeOK'
  <2>1. wire' \in [Devices -> Seq(Messages)]
        BY <1>9, <1>0, <1>z, MoveTypes DEF LooksAtChannel
  <2>2. /\ at' \in [Devices -> Places] /\ result' \in [Devices -> Results]
        /\ peer' \in [Devices -> BOOLEAN]
        /\ UNCHANGED <<view, link, late, answer, sent, kept>>
        BY <1>9, <1>a, <1>b, <1>z, Read, MoveTypes DEF Reads, ExchangeTypeOK
  <2>3. QED BY <2>1, <2>2, <1>c, <1>z DEF ExchangeTypeOK
<1>10. CASE Reset \/ BothOver
      BY <1>10, <1>0, <1>c, <1>z DEF Reset, BothOver, exchangeVars, ExchangeTypeOK
<1>11. QED BY <1>1, <1>2, <1>3, <1>4, <1>5, <1>6, <1>7, <1>8, <1>9, <1>10
            DEF ExchangeNext, Run

-----------------------------------------------------------------------------
(* The rules. *)

(* A run that ends for want of time, connection, store or power. *)
LEMMA EndStep ==
    ASSUME EInv, NEW d \in Devices, ~Gone(d),
           NEW how \in {"timeout", "peer_closed", "store_failed", "crashed"}, Ends(d, how),
           UNCHANGED <<view, wire, answer, sent, peer, kept>>
    PROVE  Rules'
<1> USE DEF Gone
<1>0. /\ at \in [Devices -> Places] /\ result \in [Devices -> Results]
      /\ I \in Devices /\ R \in Devices
      BY Two DEF EInv, ExchangeTypeOK, Places
<1>1. /\ d = I /\ at[I] # "over" /\ at'[I] = "over" /\ at'[R] = at[R]
         /\ result'[I] = how /\ result'[R] = result[R]
      \/ /\ d = R /\ at[R] # "over" /\ at'[R] = "over" /\ at'[I] = at[I]
         /\ result'[R] = how /\ result'[I] = result[I]
      BY <1>0, Two DEF Ends
<1>2. Roles' /\ Turn'
      BY <1>1 DEF EInv, Rules, Roles, Turn
<1>3. Views'
      BY <1>1, Two DEF EInv, Rules, Views, Complete, Coded, Deciding
<1>4. ToResponder'
      BY <1>1 DEF EInv, Rules, Roles, Turn, ToResponder, Meant, Coded, Deciding, Nonce
<1>5. ToInitiator'
      BY <1>1 DEF EInv, Rules, Roles, Turn, ToInitiator, Meant, Coded, Deciding, Commit, Reveal
<1>6. NotSaid'
      BY <1>1 DEF EInv, Rules, NotSaid, Coded, Deciding, Reveal
<1>7. Says(I)' /\ Says(R)'
      BY <1>1, Two DEF EInv, Rules, Says, Complete
<1>8. QED BY <1>2, <1>3, <1>4, <1>5, <1>6, <1>7 DEF Rules

(* Steps that only the clock, the network or the user takes. *)
LEMMA SilentStep ==
    ASSUME EInv, UNCHANGED <<at, view, wire, sent, peer, result, kept>>,
           \A d \in Devices : sent[d] # "none" => answer'[d] = answer[d]
    PROVE  Rules'
<1>1. Roles' /\ Turn' /\ Views' /\ ToResponder' /\ ToInitiator' /\ NotSaid'
      BY DEF EInv, Rules, Roles, Turn, Views, ToResponder, ToInitiator, NotSaid, Meant, Gone,
             Complete, Commit, Nonce, Reveal
<1>2. Says(I)' /\ Says(R)'
      BY Two DEF EInv, Rules, Says, Complete, Gone
<1>3. QED BY <1>1, <1>2 DEF Rules

(* A run that goes on deciding. *)
LEMMA GoOnStep ==
    ASSUME EInv, NEW d \in Devices, at[d] \in Coded, NEW s \in Coded, Goes(d, s),
           s = "save" => sent[d] = "yes" /\ peer[d],
           UNCHANGED <<view, wire, answer, sent, peer, kept>>
    PROVE  Rules'
<1> USE DEF Gone, Coded, Deciding
<1>0. /\ at \in [Devices -> Places] /\ UNCHANGED result
      /\ I \in Devices /\ R \in Devices
      BY Two DEF EInv, ExchangeTypeOK, Places, Goes
<1>1. /\ d = I /\ at[I] \in Coded /\ at'[I] = s /\ at'[R] = at[R]
      \/ /\ d = R /\ at[R] \in Coded /\ at'[R] = s /\ at'[I] = at[I]
      BY <1>0, Two DEF Goes
<1>2. Roles' /\ Turn'
      BY <1>1 DEF EInv, Rules, Roles, Turn
<1>3. Views'
      BY <1>1, Two DEF EInv, Rules, Views, Complete
<1>4. ToResponder'
      BY <1>1 DEF EInv, Rules, ToResponder, Meant, Nonce
<1>5. ToInitiator'
      BY <1>1 DEF EInv, Rules, ToInitiator, Meant, Commit, Reveal
<1>6. NotSaid'
      BY <1>1 DEF EInv, Rules, NotSaid, Reveal
<1>7. Says(I)' /\ Says(R)'
      BY <1>0, <1>1, Two DEF EInv, Rules, Says, Complete
<1>8. QED BY <1>2, <1>3, <1>4, <1>5, <1>6, <1>7 DEF Rules

-----------------------------------------------------------------------------
(* Commit, nonce, reveal. *)

LEMMA CommitStep ==
    ASSUME EInv, NEW d \in Devices, SendCommit(d)
    PROVE  Rules'
<1> USE DEF Gone, Coded, Deciding
<1>0. /\ at \in [Devices -> Places] /\ wire \in [Devices -> Seq(Messages)]
      /\ view \in [Devices -> [c : Nonces \cup {0}, i : Nonces \cup {0}, r : Nonces \cup {0}]]
      /\ result \in [Devices -> Results]
      /\ I \in Devices /\ R \in Devices
      BY Two DEF EInv, ExchangeTypeOK, Places
<1>1. d = R /\ at[R] = "commit" /\ UNCHANGED <<answer, sent, peer, kept>>
      BY Two DEF SendCommit, EInv, Rules, Roles
<1>2. at[I] \in {"await_commit", "over"}
      BY <1>1 DEF EInv, Rules, Turn, Roles
<1>3. PICK n \in Nonces : /\ view' = [view EXCEPT ![R].r = n]
                          /\ Sends(R, [type |-> "COMMIT", value |-> n], "await_nonce")
      BY <1>1 DEF SendCommit
<1>4. /\ n # 0 /\ view'[R].r = n /\ view'[I] = view[I] /\ view'[R].i = view[R].i
      BY <1>0, <1>3, Two, ZeroIsNoNonce
<1>5. CASE Delivers(R, [type |-> "COMMIT", value |-> n]) /\ Goes(R, "await_nonce")
  <2>1. /\ at'[R] = "await_nonce" /\ at'[I] = at[I] /\ wire'[I] = wire[I] /\ UNCHANGED result
        /\ wire'[R] = Append(wire[R], [type |-> "COMMIT", value |-> n])
        BY <1>0, <1>5, Two DEF Delivers, Goes
  <2>2. at[I] = "await_commit" => wire'[R] = <<Commit>>'
        BY <1>1, <1>4, <2>1, Tuples DEF EInv, Rules, ToInitiator, Commit
  <2>3. Roles' /\ Turn'
        BY <1>2, <2>1 DEF Roles, Turn
  <2>4. Views'
        BY <1>1, <1>2, <1>4, <2>1, Two DEF EInv, Rules, Views, Complete
  <2>5. ToResponder' /\ ToInitiator' /\ NotSaid'
        BY <1>1, <1>2, <2>1, <2>2 DEF EInv, Rules, ToResponder, ToInitiator, NotSaid
  <2>6. Says(I)' /\ Says(R)'
        BY <1>1, <1>4, <2>1, Two DEF EInv, Rules, Says, Complete
  <2>7. QED BY <2>3, <2>4, <2>5, <2>6 DEF Rules
<1>6. CASE CannotSend(R) /\ Ends(R, "peer_closed")
  <2>1. /\ at'[R] = "over" /\ at'[I] = at[I] /\ UNCHANGED wire
        /\ result'[R] = "peer_closed" /\ result'[I] = result[I]
        BY <1>0, <1>6, Two DEF CannotSend, Ends
  <2>2. Roles' /\ Turn'
        BY <1>2, <2>1 DEF Roles, Turn
  <2>3. Views'
        BY <1>1, <1>2, <1>4, <2>1, Two DEF EInv, Rules, Views, Complete
  <2>4. ToResponder' /\ ToInitiator' /\ NotSaid'
        BY <1>1, <1>2, <2>1 DEF EInv, Rules, ToResponder, ToInitiator, NotSaid
  <2>5. Says(I)' /\ Says(R)'
        BY <1>1, <1>4, <2>1, Two DEF EInv, Rules, Says, Complete
  <2>6. QED BY <2>2, <2>3, <2>4, <2>5 DEF Rules
<1>7. QED BY <1>3, <1>5, <1>6 DEF Sends

LEMMA NonceStep ==
    ASSUME EInv, NEW d \in Devices, SendNonce(d)
    PROVE  Rules'
<1> USE DEF Gone, Coded, Deciding
<1>0. /\ at \in [Devices -> Places] /\ wire \in [Devices -> Seq(Messages)]
      /\ view \in [Devices -> [c : Nonces \cup {0}, i : Nonces \cup {0}, r : Nonces \cup {0}]]
      /\ result \in [Devices -> Results]
      /\ I \in Devices /\ R \in Devices
      BY Two DEF EInv, ExchangeTypeOK, Places
<1>1. d = I /\ at[I] = "nonce" /\ UNCHANGED <<answer, sent, peer, kept>>
      BY Two DEF SendNonce, EInv, Rules, Roles
<1>2. at[R] \in {"await_nonce", "over"} /\ view[R].i = 0
      BY <1>1 DEF EInv, Rules, Turn, Roles, Views
<1>3. PICK n \in Nonces : /\ view' = [view EXCEPT ![I].i = n]
                          /\ Sends(I, [type |-> "NONCE", value |-> n], "await_reveal")
      BY <1>1 DEF SendNonce
<1>4. /\ n # 0 /\ view'[I].i = n /\ view'[R] = view[R]
      /\ view'[I].c = view[I].c /\ view'[I].r = view[I].r
      BY <1>0, <1>3, Two, ZeroIsNoNonce
<1>5. CASE Delivers(I, [type |-> "NONCE", value |-> n]) /\ Goes(I, "await_reveal")
  <2>1. /\ at'[I] = "await_reveal" /\ at'[R] = at[R] /\ wire'[R] = wire[R] /\ UNCHANGED result
        /\ wire'[I] = Append(wire[I], [type |-> "NONCE", value |-> n])
        BY <1>0, <1>5, Two DEF Delivers, Goes
  <2>2. at[R] = "await_nonce" => wire'[I] = <<Nonce>>'
        BY <1>1, <1>4, <2>1, Tuples DEF EInv, Rules, ToResponder, Nonce
  <2>3. Roles' /\ Turn'
        BY <1>2, <2>1 DEF Roles, Turn
  <2>4. Views'
        BY <1>1, <1>2, <1>4, <2>1, Two DEF EInv, Rules, Views, Complete
  <2>5. ToResponder' /\ ToInitiator' /\ NotSaid'
        BY <1>1, <1>2, <2>1, <2>2 DEF EInv, Rules, ToResponder, ToInitiator, NotSaid
  <2>6. Says(I)' /\ Says(R)'
        BY <1>1, <1>4, <2>1, Two DEF EInv, Rules, Says, Complete
  <2>7. QED BY <2>3, <2>4, <2>5, <2>6 DEF Rules
<1>6. CASE CannotSend(I) /\ Ends(I, "peer_closed")
  <2>1. /\ at'[I] = "over" /\ at'[R] = at[R] /\ UNCHANGED wire
        /\ result'[I] = "peer_closed" /\ result'[R] = result[R]
        BY <1>0, <1>6, Two DEF CannotSend, Ends
  <2>2. Roles' /\ Turn'
        BY <1>2, <2>1 DEF Roles, Turn
  <2>3. Views'
        BY <1>1, <1>2, <1>4, <2>1, Two DEF EInv, Rules, Views, Complete
  <2>4. ToResponder' /\ ToInitiator' /\ NotSaid'
        BY <1>1, <1>2, <2>1 DEF EInv, Rules, ToResponder, ToInitiator, NotSaid
  <2>5. Says(I)' /\ Says(R)'
        BY <1>1, <1>4, <2>1, Two DEF EInv, Rules, Says, Complete
  <2>6. QED BY <2>2, <2>3, <2>4, <2>5 DEF Rules
<1>7. QED BY <1>3, <1>5, <1>6 DEF Sends

LEMMA RevealStep ==
    ASSUME EInv, NEW d \in Devices, SendReveal(d)
    PROVE  Rules'
<1> USE DEF Gone, Coded, Deciding
<1>0. /\ at \in [Devices -> Places] /\ wire \in [Devices -> Seq(Messages)]
      /\ I \in Devices /\ R \in Devices
      BY Two DEF EInv, ExchangeTypeOK, Places
<1>1. d = R /\ at[R] = "reveal" /\ UNCHANGED <<view, answer, sent, peer, kept>>
      BY Two DEF SendReveal, EInv, Rules, Roles
<1>2. at[I] \in {"await_reveal", "over"}
      BY <1>1 DEF EInv, Rules, Turn, Roles
<1>3. CASE Delivers(R, Reveal) /\ Goes(R, "code")
  <2>1. /\ at'[R] = "code" /\ at'[I] = at[I] /\ wire'[I] = wire[I] /\ UNCHANGED result
        /\ wire'[R] = Append(wire[R], Reveal)
        BY <1>0, <1>3, Two DEF Delivers, Goes
  <2>2. at[I] = "await_reveal" => wire'[R] = <<Reveal>>'
        BY <1>1, <2>1, Tuples DEF EInv, Rules, ToInitiator, Reveal
  <2>3. Roles' /\ Turn'
        BY <1>2, <2>1 DEF Roles, Turn
  <2>4. Views'
        BY <1>1, <1>2, <2>1, Two DEF EInv, Rules, Views, Complete
  <2>5. ToResponder' /\ ToInitiator' /\ NotSaid'
        BY <1>1, <1>2, <2>1, <2>2 DEF EInv, Rules, ToResponder, ToInitiator, NotSaid
  <2>6. Says(I)' /\ Says(R)'
        BY <1>1, <2>1, Two DEF EInv, Rules, Says, Complete
  <2>7. QED BY <2>3, <2>4, <2>5, <2>6 DEF Rules
<1>4. CASE CannotSend(R) /\ Ends(R, "peer_closed")
      BY <1>0, <1>1, <1>4, EndStep DEF CannotSend
<1>5. QED BY <1>1, <1>3, <1>4 DEF SendReveal, Sends, Reveal

LEMMA HearStep ==
    ASSUME EInv, NEW d \in Devices, Hear(d)
    PROVE  Rules'
<1> USE DEF Gone, Coded, Deciding
<1>0. /\ at \in [Devices -> Places] /\ wire \in [Devices -> Seq(Messages)]
      /\ view \in [Devices -> [c : Nonces \cup {0}, i : Nonces \cup {0}, r : Nonces \cup {0}]]
      /\ I \in Devices /\ R \in Devices
      BY Two DEF EInv, ExchangeTypeOK, Places
<1>1. /\ HearsCommit \/ HearsNonce \/ HearsReveal
      /\ UNCHANGED <<answer, sent, peer, kept>>
      BY Heard
<1>2. CASE HearsCommit
  <2>1. /\ at[I] = "await_commit" /\ at[R] \in {"await_nonce", "over"}
        /\ at'[I] = "nonce" /\ at'[R] = at[R] /\ UNCHANGED result
        /\ wire'[R] = <<>> /\ wire'[I] = wire[I]
        BY <1>0, <1>2, Two DEF HearsCommit, Goes, EInv, Rules, Turn, Roles
  <2>2. /\ view'[R] = view[R] /\ view'[I].c = view[R].r
        /\ view'[I].i = view[I].i /\ view'[I].r = view[I].r
        BY <1>0, <1>2, Two DEF HearsCommit
  <2>3. Roles' /\ Turn'
        BY <2>1 DEF EInv, Rules, Roles, Turn
  <2>4. Views'
        BY <2>1, <2>2, Two DEF EInv, Rules, Views, Complete
  <2>5. ToResponder' /\ ToInitiator' /\ NotSaid'
        BY <2>1, <2>2 DEF EInv, Rules, ToResponder, ToInitiator, NotSaid
  <2>6. Says(I)' /\ Says(R)'
        BY <1>1, <2>1, <2>2, Two DEF EInv, Rules, Says, Complete
  <2>7. QED BY <2>3, <2>4, <2>5, <2>6 DEF Rules
<1>3. CASE HearsNonce
  <2>1. /\ at[R] = "await_nonce" /\ at[I] \in {"await_reveal", "over"}
        /\ at'[R] = "reveal" /\ at'[I] = at[I] /\ UNCHANGED result
        /\ wire'[I] = <<>> /\ wire'[R] = wire[R]
        BY <1>0, <1>3, Two DEF HearsNonce, Goes
  <2>2. /\ view'[I] = view[I] /\ view'[R].i = view[I].i
        /\ view'[R].c = view[R].c /\ view'[R].r = view[R].r
        BY <1>0, <1>3, Two DEF HearsNonce
  <2>3. view[I].i # 0
    <3>0. wire[I] = <<Nonce>>
          BY <1>3 DEF HearsNonce
    <3>1. Head(wire[I]) = Nonce /\ wire[I] # <<>> /\ Other(R) = I
          BY <3>0, Tuples, Two
    <3>2. Nonce \in Messages
          BY <1>0, <3>1, MoveTypes DEF EInv
    <3>3. QED BY <3>2, ZeroIsNoNonce DEF Nonce, Messages
  <2>4. Roles' /\ Turn'
        BY <2>1 DEF EInv, Rules, Roles, Turn
  <2>5. Views'
        BY <2>1, <2>2, <2>3, Two DEF EInv, Rules, Views, Complete
  <2>6. ToResponder' /\ ToInitiator' /\ NotSaid'
        BY <2>1, <2>2 DEF EInv, Rules, ToResponder, ToInitiator, NotSaid
  <2>7. Says(I)' /\ Says(R)'
        BY <1>1, <2>1, <2>2, <2>3, Two DEF EInv, Rules, Says, Complete
  <2>8. QED BY <2>4, <2>5, <2>6, <2>7 DEF Rules
<1>4. CASE HearsReveal
  <2>1. /\ at[I] = "await_reveal" /\ at[R] \in Coded \cup {"over"}
        /\ at'[I] = "code" /\ at'[R] = at[R] /\ UNCHANGED result
        /\ wire'[I] = wire[I]
        BY <1>0, <1>4, Two DEF HearsReveal, Goes
  <2>2. /\ view'[R] = view[R] /\ view'[I].r = view[R].r
        /\ view'[I].i = view[I].i /\ view'[I].c = view[I].c
        BY <1>0, <1>4, Two DEF HearsReveal
  <2>3. \/ wire[R] = <<Reveal>> /\ wire'[R] = <<>>
        \/ \E v \in {0, 1} : /\ wire[R] = <<Reveal, Confirm(v)>> /\ Meant(R, v)
                             /\ wire'[R] = <<Confirm(v)>>
        BY <1>0, <1>4 DEF HearsReveal
  <2>4. view[R].r # 0
    <3>1. Head(wire[R]) = Reveal /\ wire[R] # <<>> /\ Other(I) = R
          BY <2>3, Tuples, Two
    <3>2. Reveal \in Messages
          BY <1>0, <3>1, MoveTypes DEF EInv
    <3>3. QED BY <3>2, ZeroIsNoNonce DEF Reveal, Messages
  <2>5. Roles' /\ Turn'
        BY <2>1 DEF EInv, Rules, Roles, Turn
  <2>6. Views'
        BY <2>1, <2>2, <2>4, Two DEF EInv, Rules, Views, Complete
  <2>7. \A v \in {0, 1} : Meant(R, v) => Meant(R, v)'
        BY <1>1, <2>1 DEF Meant
  <2>8. ToResponder' /\ ToInitiator'
        BY <1>1, <2>1, <2>2, <2>3, <2>7 DEF EInv, Rules, ToResponder, ToInitiator, Meant
  <2>9. NotSaid'
        BY <1>1, <2>1, <2>3 DEF EInv, Rules, NotSaid, ToResponder, Meant, Reveal, Confirm
  <2>10. Says(I)' /\ Says(R)'
        BY <1>1, <2>1, <2>2, <2>4, Two DEF EInv, Rules, Says, Complete
  <2>11. QED BY <2>5, <2>6, <2>8, <2>9, <2>10 DEF Rules
<1>5. QED BY <1>1, <1>2, <1>3, <1>4

-----------------------------------------------------------------------------
(* The decision. *)

(* Where the first CONFIRM of d arrives. *)
LEMMA Confirming ==
    ASSUME EInv, NEW d \in Devices, at[d] \in Coded, sent[d] = "none", NEW v \in {0, 1},
           Delivers(d, Confirm(v))
    PROVE  /\ wire'[Other(d)] = wire[Other(d)]
           /\ at[Other(d)] \in Coded => wire'[d] = <<Confirm(v)>>
           /\ at[Other(d)] \in Coded \cup {"over"} \/ (d = R /\ at[I] = "await_reveal")
           /\ d = R /\ at[I] = "await_reveal" => wire'[R] = <<Reveal, Confirm(v)>>
<1>0. wire \in [Devices -> Seq(Messages)] /\ d \in {I, R}
      BY Two DEF EInv, ExchangeTypeOK
<1>1. wire'[d] = Append(wire[d], Confirm(v)) /\ wire'[Other(d)] = wire[Other(d)]
      BY <1>0, Two DEF Delivers
<1>2. CASE d = I
  <2>1. at[R] \in Coded \cup {"over"}
        BY <1>2 DEF EInv, Rules, Turn, Roles, Gone, Coded, Deciding
  <2>2. at[R] \in Coded => wire[I] = <<>>
        BY <1>2 DEF EInv, Rules, NotSaid, Coded, Deciding
  <2>3. QED BY <1>1, <1>2, <2>1, <2>2, Tuples, Two, ZenonT(60)
<1>3. CASE d = R
  <2>1. at[I] \in Coded \cup {"over", "await_reveal"}
        BY <1>3 DEF EInv, Rules, Turn, Roles, Gone, Coded, Deciding
  <2>2. /\ at[I] \in Coded => wire[R] = <<>>
        /\ at[I] = "await_reveal" => wire[R] = <<Reveal>>
        BY <1>3 DEF EInv, Rules, NotSaid, Coded, Deciding
  <2>3. /\ at[I] \in Coded => wire'[R] = <<Confirm(v)>>
        /\ at[I] = "await_reveal" => wire'[R] = <<Reveal, Confirm(v)>>
        BY <1>1, <1>3, <2>2, Tuples
  <2>4. QED BY <1>1, <1>3, <2>1, <2>3, Two
<1>4. QED BY <1>0, <1>2, <1>3

(* A CONFIRM goes out: the user's yes, the user's no, or the end of the time. *)
LEMMA SayStep ==
    ASSUME EInv, NEW d \in Devices, at[d] \in Coded, sent[d] = "none",
           NEW v \in {0, 1}, Delivers(d, Confirm(v)), UNCHANGED <<view, answer, peer, kept>>,
           \/ v = 1 /\ sent' = [sent EXCEPT ![d] = "yes"] /\ answer[d] = "yes" /\ Goes(d, "deadline?")
           \/ v = 0 /\ sent' = [sent EXCEPT ![d] = "no"] /\ answer[d] = "no" /\ Ends(d, "declined")
           \/ v = 0 /\ UNCHANGED sent /\ Ends(d, "timeout")
    PROVE  Rules'
<1> USE DEF Gone, Coded, Deciding
<1>0. /\ at \in [Devices -> Places] /\ result \in [Devices -> Results]
      /\ sent \in [Devices -> {"none", "yes", "no"}] /\ kept \in [Devices -> BOOLEAN]
      /\ I \in Devices /\ R \in Devices
      BY Two DEF EInv, ExchangeTypeOK, Places
<1>a. d = I \/ d = R
      BY Two
<1>1. /\ \A e \in Devices : e # d => /\ at'[e] = at[e] /\ sent'[e] = sent[e]
                                     /\ result'[e] = result[e]
      /\ \/ v = 1 /\ at'[d] = "deadline?" /\ sent'[d] = "yes" /\ answer[d] = "yes" /\ result'[d] = result[d]
         \/ v = 0 /\ at'[d] = "over" /\ sent'[d] = "no" /\ answer[d] = "no" /\ result'[d] = "declined"
         \/ v = 0 /\ at'[d] = "over" /\ sent'[d] = "none" /\ result'[d] = "timeout"
      BY <1>0 DEF Goes, Ends
<1>2. ~kept[d] /\ Complete(d)
      BY <1>a, Two DEF EInv, Rules, Says, Views
<1>3. Meant(d, v)' /\ \A u \in {0, 1} : Meant(Other(d), u) => Meant(Other(d), u)'
      BY <1>1, <1>2, Two DEF Meant
<1>4. /\ wire'[Other(d)] = wire[Other(d)]
      /\ at[Other(d)] \in Coded => wire'[d] = <<Confirm(v)>>
      /\ at[Other(d)] \in Coded \cup {"over"} \/ (d = R /\ at[I] = "await_reveal")
      /\ d = R /\ at[I] = "await_reveal" => wire'[R] = <<Reveal, Confirm(v)>>
      BY Confirming
<1>5. CASE d = I
  <2>1. Roles' /\ Turn'
        BY <1>0, <1>1, <1>5, Two DEF EInv, Rules, Roles, Turn
  <2>2. Views'
        BY <1>0, <1>1, <1>5, Two DEF EInv, Rules, Views, Complete
  <2>3. ToResponder' /\ ToInitiator'
        BY <1>0, <1>1, <1>3, <1>4, <1>5, Two DEF EInv, Rules, ToResponder, ToInitiator
  <2>4. NotSaid'
        BY <1>0, <1>1, <1>4, <1>5, Two DEF EInv, Rules, NotSaid
  <2>5. Says(I)' /\ Says(R)'
        BY <1>0, <1>1, <1>2, <1>5, Two DEF EInv, Rules, Says, Complete
  <2>6. QED BY <2>1, <2>2, <2>3, <2>4, <2>5 DEF Rules
<1>6. CASE d = R
  <2>1. Roles' /\ Turn'
        BY <1>0, <1>1, <1>6, Two DEF EInv, Rules, Roles, Turn
  <2>2. Views'
        BY <1>0, <1>1, <1>6, Two DEF EInv, Rules, Views, Complete
  <2>3. ToResponder' /\ ToInitiator'
        BY <1>0, <1>1, <1>3, <1>4, <1>6, Two DEF EInv, Rules, ToResponder, ToInitiator, Reveal
  <2>4. NotSaid'
        BY <1>0, <1>1, <1>4, <1>6, Two DEF EInv, Rules, NotSaid
  <2>5. Says(I)' /\ Says(R)'
        BY <1>0, <1>1, <1>2, <1>6, Two DEF EInv, Rules, Says, Complete
  <2>6. QED BY <2>1, <2>2, <2>3, <2>4, <2>5 DEF Rules
<1>7. QED BY <1>a, <1>5, <1>6

LEMMA ReadStep ==
    ASSUME EInv, NEW d \in Devices, at[d] = "confirm?", NEW v \in {0, 1}, Reads(d, v),
           UNCHANGED <<view, answer, sent, kept>>
    PROVE  Rules'
<1> USE DEF Gone, Coded, Deciding
<1>0. /\ at \in [Devices -> Places] /\ result \in [Devices -> Results]
      /\ peer \in [Devices -> BOOLEAN] /\ wire \in [Devices -> Seq(Messages)]
      /\ I \in Devices /\ R \in Devices
      BY Two DEF EInv, ExchangeTypeOK, Places
<1>a. d = I \/ d = R
      BY Two
<1>1. /\ \A e \in Devices : e # d => /\ at'[e] = at[e] /\ peer'[e] = peer[e]
                                     /\ result'[e] = result[e]
      /\ \/ v = 1 /\ at'[d] = "answer?" /\ peer'[d] = TRUE /\ result'[d] = result[d]
         \/ v = 0 /\ at'[d] = "over" /\ peer'[d] = peer[d] /\ result'[d] = "peer_declined"
      BY <1>0 DEF Reads, Goes, Ends
<1>2. /\ wire'[Other(d)] = <<>> /\ wire'[d] = wire[d]
      /\ v = 1 => sent[Other(d)] = "yes"
      /\ v = 0 => Gone(Other(d)) /\ ~kept[Other(d)]
      BY <1>0, Two DEF Reads, Meant
<1>3. CASE d = I
  <2>1. Roles' /\ Turn'
        BY <1>0, <1>1, <1>3, Two DEF EInv, Rules, Roles, Turn
  <2>2. Views'
        BY <1>0, <1>1, <1>3, Two DEF EInv, Rules, Views, Complete
  <2>3. ToResponder' /\ ToInitiator'
        BY <1>0, <1>1, <1>2, <1>3, Two DEF EInv, Rules, ToResponder, ToInitiator, Meant
  <2>4. NotSaid'
        BY <1>0, <1>1, <1>2, <1>3, Two DEF EInv, Rules, NotSaid
  <2>5. Says(I)' /\ Says(R)'
        BY <1>0, <1>1, <1>2, <1>3, Two DEF EInv, Rules, Says, Complete
  <2>6. QED BY <2>1, <2>2, <2>3, <2>4, <2>5 DEF Rules
<1>4. CASE d = R
  <2>1. Roles' /\ Turn'
        BY <1>0, <1>1, <1>4, Two DEF EInv, Rules, Roles, Turn
  <2>2. Views'
        BY <1>0, <1>1, <1>4, Two DEF EInv, Rules, Views, Complete
  <2>3. /\ wire'[I] = <<>> /\ wire'[R] = wire[R] /\ at'[I] = at[I] /\ UNCHANGED <<view, sent, kept>>
        /\ at'[R] \in {"answer?", "over"} /\ at[R] = "confirm?"
        BY <1>1, <1>2, <1>4, Two
  <2>4. ToResponder'
        BY <2>3 DEF ToResponder
  <2>5. at[I] \in Coded \cup {"await_reveal", "over"} /\ (at[I] = "over" \/ v = 1)
        BY <1>2, <1>4, <2>3, Two DEF EInv, Rules, Turn, Says
  <2>6. ToInitiator'
        BY <2>3, <2>5, <1>1, <1>4 DEF EInv, Rules, ToInitiator, Meant, Reveal
  <2>7. NotSaid'
        BY <2>3, <2>5, <1>1, <1>4 DEF EInv, Rules, NotSaid, Reveal
  <2>8. Says(I)' /\ Says(R)'
        BY <1>0, <1>1, <1>2, <1>4, Two DEF EInv, Rules, Says, Complete
  <2>9. QED BY <2>1, <2>2, <2>4, <2>6, <2>7, <2>8 DEF Rules
<1>5. QED BY <1>a, <1>3, <1>4

LEMMA SaveStep ==
    ASSUME EInv, NEW d \in Devices, at[d] = "save", Ends(d, "paired"),
           kept' = [kept EXCEPT ![d] = TRUE], UNCHANGED <<view, wire, answer, sent, peer>>
    PROVE  Rules'
<1> USE DEF Gone, Coded, Deciding
<1>0. /\ at \in [Devices -> Places] /\ result \in [Devices -> Results]
      /\ kept \in [Devices -> BOOLEAN] /\ I \in Devices /\ R \in Devices
      BY Two DEF EInv, ExchangeTypeOK, Places
<1>a. d = I \/ d = R
      BY Two
<1>1. /\ at'[d] = "over" /\ result'[d] = "paired" /\ kept'[d]
      /\ \A e \in Devices : e # d => /\ at'[e] = at[e] /\ kept'[e] = kept[e]
                                     /\ result'[e] = result[e]
      BY <1>0 DEF Ends
<1>2. sent[d] = "yes" /\ peer[d]
      BY <1>a DEF EInv, Rules, Says
<1>3. \A e \in Devices, v \in {0, 1} : Meant(e, v) => Meant(e, v)'
      BY <1>0, <1>1 DEF Meant
<1>4. Roles' /\ Turn'
      BY <1>0, <1>1, <1>a, Two DEF EInv, Rules, Roles, Turn
<1>5. Views'
      BY <1>0, <1>1, <1>a, Two, ZenonT(60) DEF EInv, Rules, Views, Complete
<1>6. ToResponder' /\ ToInitiator'
      BY <1>0, <1>1, <1>3, <1>a, Two, ZenonT(60) DEF EInv, Rules, ToResponder, ToInitiator, Nonce, Commit, Reveal
<1>7. NotSaid'
      BY <1>0, <1>1, <1>a, Two DEF EInv, Rules, NotSaid, Reveal
<1>8. Says(I)' /\ Says(R)'
  <2>1. Says(d)'
        BY <1>0, <1>1, <1>2, <1>a, Two DEF EInv, Rules, Says, Complete
  <2>2. Says(Other(d)) /\ Other(Other(d)) = d /\ Other(d) # d /\ Other(d) \in Devices
        BY <1>a, Two DEF EInv, Rules
  <2>3. /\ at'[Other(d)] = at[Other(d)] /\ kept'[Other(d)] = kept[Other(d)]
        /\ result'[Other(d)] = result[Other(d)]
        BY <1>1, <2>2
  <2>4. result[Other(d)] # "peer_declined"
        BY <2>2 DEF Says
  <2>5. Says(Other(d))'
        BY <2>2, <2>3, <2>4, <1>1, <1>2 DEF Says, Complete
  <2>6. QED BY <1>a, <2>1, <2>5, Two
<1>9. QED BY <1>4, <1>5, <1>6, <1>7, <1>8 DEF Rules

(* The user's answer cannot be sent any more. *)
LEMMA MuteStep ==
    ASSUME EInv, NEW d \in Devices, at[d] = "answer?", sent[d] = "none", answer[d] # "none",
           sent' = [sent EXCEPT ![d] = answer[d]], Ends(d, "peer_closed"),
           UNCHANGED <<view, wire, answer, peer, kept>>
    PROVE  Rules'
<1> USE DEF Gone, Coded, Deciding
<1>0. /\ at \in [Devices -> Places] /\ result \in [Devices -> Results]
      /\ sent \in [Devices -> {"none", "yes", "no"}]
      /\ answer \in [Devices -> {"none", "yes", "no"}]
      /\ kept \in [Devices -> BOOLEAN] /\ I \in Devices /\ R \in Devices
      BY Two DEF EInv, ExchangeTypeOK, Places
<1>a. d = I \/ d = R
      BY Two
<1>1. /\ at'[d] = "over" /\ result'[d] = "peer_closed" /\ sent'[d] = answer[d]
      /\ \A e \in Devices : e # d => /\ at'[e] = at[e] /\ sent'[e] = sent[e]
                                     /\ result'[e] = result[e]
      BY <1>0 DEF Ends
<1>2. ~kept[d] /\ Complete(d)
      BY <1>a, Two DEF EInv, Rules, Says, Views
<1>3. \A e \in Devices, v \in {0, 1} : Meant(e, v) => Meant(e, v)'
      BY <1>0, <1>1, <1>2 DEF Meant
<1>4. Roles' /\ Turn'
      BY <1>0, <1>1, <1>a, Two DEF EInv, Rules, Roles, Turn
<1>5. Views'
      BY <1>0, <1>1, <1>a, Two DEF EInv, Rules, Views, Complete
<1>6. ToResponder' /\ ToInitiator'
      BY <1>0, <1>1, <1>3, <1>a, Two DEF EInv, Rules, ToResponder, ToInitiator, Nonce, Commit, Reveal
<1>7. NotSaid'
      BY <1>0, <1>1, <1>a, Two DEF EInv, Rules, NotSaid, Reveal
<1>8. Says(I)' /\ Says(R)'
  <2>1. Says(d)'
        BY <1>0, <1>1, <1>2, <1>a, Two DEF EInv, Rules, Says, Complete
  <2>2. Says(Other(d)) /\ Other(Other(d)) = d /\ Other(d) # d /\ Other(d) \in Devices
        BY <1>a, Two DEF EInv, Rules
  <2>3. /\ at'[Other(d)] = at[Other(d)] /\ sent'[Other(d)] = sent[Other(d)]
        /\ result'[Other(d)] = result[Other(d)]
        BY <1>1, <2>2
  <2>4. ~peer[Other(d)]
        BY <2>2 DEF Says
  <2>5. Says(Other(d))'
        BY <2>2, <2>3, <2>4, <1>1, <1>2 DEF Says, Complete
  <2>6. QED BY <1>a, <2>1, <2>5, Two
<1>9. QED BY <1>4, <1>5, <1>6, <1>7, <1>8 DEF Rules

LEMMA PassStep ==
    ASSUME EInv, NEW d \in Devices, PassesAnswerOn(d)
    PROVE  Rules'
<1>1. at[d] = "answer?" /\ at[d] \in Coded /\ ~Gone(d) /\ UNCHANGED <<view, answer, peer, kept>>
      /\ "deadline?" \in Coded
      BY DEF PassesAnswerOn, Coded, Deciding, Gone
<1>2. CASE sent[d] = "none" /\ answer[d] # "none"
  <2>1. answer[d] \in {"yes", "no"}
        BY <1>2 DEF EInv, ExchangeTypeOK
  <2>2. \/ Delivers(d, Confirm(1)) /\ answer[d] = "yes" /\ Goes(d, "deadline?")
        \/ Delivers(d, Confirm(0)) /\ answer[d] = "no" /\ Ends(d, "declined")
        \/ CannotSend(d) /\ Ends(d, "peer_closed")
        BY <1>2, <2>1, Told DEF PassesAnswerOn, Confirms, Confirm
  <2>3. sent' = [sent EXCEPT ![d] = answer[d]]
        BY <1>2 DEF PassesAnswerOn
  <2>4. CASE Delivers(d, Confirm(1)) /\ answer[d] = "yes" /\ Goes(d, "deadline?")
        BY <1>1, <1>2, <2>3, <2>4, SayStep
  <2>5. CASE Delivers(d, Confirm(0)) /\ answer[d] = "no" /\ Ends(d, "declined")
        BY <1>1, <1>2, <2>3, <2>5, SayStep
  <2>6. CASE CannotSend(d) /\ Ends(d, "peer_closed")
        BY <1>1, <1>2, <2>3, <2>6, MuteStep DEF CannotSend
  <2>7. QED BY <2>2, <2>4, <2>5, <2>6
<1>3. CASE ~(sent[d] = "none" /\ answer[d] # "none")
  <2>1. Goes(d, "deadline?") /\ UNCHANGED <<wire, sent>>
        BY <1>3 DEF PassesAnswerOn
  <2>2. QED BY <1>1, <2>1, GoOnStep
<1>4. QED BY <1>2, <1>3

LEMMA ClockStep ==
    ASSUME EInv, NEW d \in Devices, LooksAtClock(d)
    PROVE  Rules'
<1>1. /\ at[d] \in Coded /\ ~Gone(d) /\ UNCHANGED <<view, answer, sent, peer, kept>>
      /\ "save" \in Coded /\ "confirm?" \in Coded
      BY DEF LooksAtClock, Coded, Deciding, Gone
<1>2. \/ BothYes(d) /\ Goes(d, "save") /\ UNCHANGED wire
      \/ sent[d] = "none" /\ Delivers(d, Confirm(0)) /\ Ends(d, "timeout")
      \/ UNCHANGED wire /\ Ends(d, "peer_closed")
      \/ UNCHANGED wire /\ Ends(d, "timeout")
      \/ UNCHANGED wire /\ Goes(d, "confirm?")
      BY Told DEF LooksAtClock, CannotSend
<1>3. CASE BothYes(d) /\ Goes(d, "save") /\ UNCHANGED wire
      BY <1>1, <1>3, GoOnStep DEF BothYes
<1>4. CASE sent[d] = "none" /\ Delivers(d, Confirm(0)) /\ Ends(d, "timeout")
      BY <1>1, <1>4, SayStep
<1>5. CASE UNCHANGED wire /\ Ends(d, "peer_closed")
      BY <1>1, <1>5, EndStep
<1>6. CASE UNCHANGED wire /\ Ends(d, "timeout")
      BY <1>1, <1>6, EndStep
<1>7. CASE UNCHANGED wire /\ Goes(d, "confirm?")
      BY <1>1, <1>7, GoOnStep
<1>8. QED BY <1>2, <1>3, <1>4, <1>5, <1>6, <1>7

LEMMA ChannelStep ==
    ASSUME EInv, NEW d \in Devices, LooksAtChannel(d)
    PROVE  Rules'
<1>1. /\ at[d] = "confirm?" /\ UNCHANGED <<view, link, late, answer, sent, kept>>
      /\ \/ \E v \in {0, 1} : Reads(d, v)
         \/ Ends(d, "peer_closed") /\ UNCHANGED <<wire, peer>>
         \/ Goes(d, "answer?") /\ UNCHANGED <<wire, peer>>
      BY Read
<1>2. at[d] \in Coded /\ ~Gone(d) /\ "answer?" \in Coded
      BY <1>1 DEF Coded, Deciding, Gone
<1>3. ASSUME NEW v \in {0, 1}, Reads(d, v) PROVE Rules'
      BY <1>1, <1>3, ReadStep
<1>4. CASE Ends(d, "peer_closed") /\ UNCHANGED <<wire, peer>>
      BY <1>1, <1>2, <1>4, EndStep
<1>5. CASE Goes(d, "answer?") /\ UNCHANGED <<wire, peer>>
      BY <1>1, <1>2, <1>5, GoOnStep
<1>6. QED BY <1>1, <1>3, <1>4, <1>5

LEMMA EInvStep ==
    ASSUME EInv, [ExchangeNext]_exchangeVars
    PROVE  EInv'
<1>1. CASE ExchangeNext
  <2>1. ExchangeTypeOK'
        BY <1>1, TypeStep
  <2>2. Rules'
    <3>1. ASSUME NEW d \in Devices, SendCommit(d) PROVE Rules'
          BY <3>1, CommitStep
    <3>2. ASSUME NEW d \in Devices, SendNonce(d) PROVE Rules'
          BY <3>2, NonceStep
    <3>3. ASSUME NEW d \in Devices, SendReveal(d) PROVE Rules'
          BY <3>3, RevealStep
    <3>4. ASSUME NEW d \in Devices, Hear(d) PROVE Rules'
          BY <3>4, HearStep
    <3>5. ASSUME NEW d \in Devices, HearsNothing(d) PROVE Rules'
      <4>1. /\ ~Gone(d) /\ UNCHANGED <<view, wire, answer, sent, peer, kept>>
            /\ Ends(d, "timeout") \/ Ends(d, "peer_closed")
            BY <3>5, Waits DEF HearsNothing, Gone
      <4>2. QED BY <4>1, EndStep
    <3>6. ASSUME NEW d \in Devices, ShowCode(d) PROVE Rules'
      <4>1. /\ at[d] \in Coded /\ ~Gone(d) /\ "answer?" \in Coded
            /\ UNCHANGED <<view, wire, answer, sent, peer, kept>>
            /\ Goes(d, "answer?") \/ Ends(d, "store_failed")
            BY <3>6 DEF ShowCode, Gone, Coded, Deciding
      <4>2. QED BY <4>1, EndStep, GoOnStep
    <3>7. ASSUME NEW d \in Devices, PassesAnswerOn(d) PROVE Rules'
          BY <3>7, PassStep
    <3>8. ASSUME NEW d \in Devices, LooksAtClock(d) PROVE Rules'
          BY <3>8, ClockStep
    <3>9. ASSUME NEW d \in Devices, LooksAtChannel(d) PROVE Rules'
          BY <3>9, ChannelStep
    <3>10. ASSUME NEW d \in Devices, SavesFriend(d) PROVE Rules'
      <4>1. at[d] = "save" /\ ~Gone(d) /\ UNCHANGED <<view, wire, answer, sent, peer>>
            BY <3>10 DEF SavesFriend, Gone
      <4>2. \/ Ends(d, "paired") /\ kept' = [kept EXCEPT ![d] = TRUE]
            \/ Ends(d, "store_failed") /\ UNCHANGED kept
            BY <3>10 DEF SavesFriend
      <4>3. QED BY <4>1, <4>2, EndStep, SaveStep
    <3>11. ASSUME NEW d \in Devices, UserAnswers(d) PROVE Rules'
      <4>1. UNCHANGED <<at, view, wire, sent, peer, result, kept>>
            BY <3>11 DEF UserAnswers
      <4>2. \A e \in Devices : e # d => answer'[e] = answer[e]
            BY <3>11 DEF UserAnswers, EInv, ExchangeTypeOK
      <4>3. sent[d] = "none"
            BY <3>11, Two DEF UserAnswers, EInv, Rules, Says
      <4>4. QED BY <4>1, <4>2, <4>3, SilentStep
    <3>12. ASSUME NEW d \in Devices, DeviceCrashes(d) PROVE Rules'
          BY <3>12, EndStep DEF DeviceCrashes
    <3>13. ASSUME NEW d \in Devices, DeadlinePasses(d) PROVE Rules'
          BY <3>13, SilentStep DEF DeadlinePasses
    <3>14. CASE Reset \/ BothOver
          BY <3>14, SilentStep DEF Reset, BothOver, exchangeVars
    <3>15. QED BY <1>1, <3>1, <3>2, <3>3, <3>4, <3>5, <3>6, <3>7, <3>8, <3>9, <3>10, <3>11,
                  <3>12, <3>13, <3>14 DEF ExchangeNext, Run
  <2>3. QED BY <2>1, <2>2 DEF EInv
<1>2. CASE UNCHANGED exchangeVars
  <2>1. ExchangeTypeOK'
        BY <1>2 DEF EInv, ExchangeTypeOK, exchangeVars
  <2>2. Rules'
        BY <1>2, SilentStep DEF exchangeVars
  <2>3. QED BY <2>1, <2>2 DEF EInv
<1>3. QED BY <1>1, <1>2

LEMMA EInvAlways == ExchangeSpec => []EInv
<1>1. QED BY EInvInit, EInvStep, PTL DEF ExchangeSpec

-----------------------------------------------------------------------------
(* A friend is in a trust store only if both users confirmed, and the code   *)
(* both of them confirmed was one and the same.                              *)
THEOREM SavedByBoth == ExchangeSpec => []SavedMeansBothSaidYes
<1>1. ASSUME EInv PROVE SavedMeansBothSaidYes
  <2>1. ASSUME NEW d \in Devices, kept[d]
        PROVE  (\A e \in Devices : answer[e] = "yes") /\ Code(d) = Code(Other(d))
    <3>1. Says(d) /\ Says(Other(d)) /\ Other(d) \in Devices
          BY <1>1, Two DEF EInv, Rules
    <3>2. sent[d] = "yes" /\ sent[Other(d)] = "yes"
          BY <2>1, <3>1 DEF Says
    <3>3. answer[d] = "yes" /\ answer[Other(d)] = "yes" /\ Complete(d) /\ Complete(Other(d))
          BY <3>1, <3>2 DEF Says
    <3>4. view[I].r = view[R].r /\ view[R].i = view[I].i
          BY <1>1, <3>3, Two DEF EInv, Rules, Views, Complete
    <3>5. Code(I) = Code(R)
          BY <3>4 DEF Code
    <3>6. QED BY <3>3, <3>5, Two
  <2>2. QED BY <2>1 DEF SavedMeansBothSaidYes
<1>2. QED BY <1>1, EInvAlways, PTL

(* Honest devices compute one code and never accuse each other of breaking   *)
(* the protocol.                                                             *)
THEOREM OneCode == ExchangeSpec => []HonestPeersAgree
<1>1. ASSUME EInv PROVE HonestPeersAgree
  <2>1. \A d \in Devices : result[d] \notin {"protocol", "bad_commit"}
        BY <1>1, Two DEF EInv, Rules, Says
  <2>2. ASSUME \A d \in Devices : at[d] \in Deciding \cup {"save"} PROVE Code(I) = Code(R)
    <3>1. Complete(I) /\ Complete(R)
          BY <1>1, <2>2, Two DEF EInv, Rules, Views, Coded
    <3>2. view[I].r = view[R].r /\ view[R].i = view[I].i
          BY <1>1, <3>1, Two DEF EInv, Rules, Views, Complete
    <3>3. QED BY <3>2 DEF Code
  <2>3. QED BY <2>1, <2>2 DEF HonestPeersAgree, I, R
<1>2. QED BY <1>1, EInvAlways, PTL

(* When only one device saved its friend, the other was interrupted; it      *)
(* never declined.                                                           *)
THEOREM OneSidedExplained == ExchangeSpec => []OneSidedIsAnInterruption
<1>1. ASSUME EInv PROVE OneSidedIsAnInterruption
  <2>1. ASSUME NEW d \in Devices, kept[d], Gone(Other(d)), ~kept[Other(d)]
        PROVE  result[Other(d)] \in {"timeout", "peer_closed", "store_failed", "crashed"}
    <3>1. Says(d) /\ Says(Other(d)) /\ Other(d) \in Devices /\ Other(Other(d)) = d
          BY <1>1, Two DEF EInv, Rules
    <3>2. sent[Other(d)] = "yes"
          BY <2>1, <3>1 DEF Says
    <3>3. result[Other(d)] \notin {"none", "paired", "declined", "peer_declined",
                                  "protocol", "bad_commit"}
          BY <2>1, <3>1, <3>2 DEF Says
    <3>4. QED BY <1>1, <3>1, <3>3 DEF EInv, ExchangeTypeOK, Results
  <2>2. QED BY <2>1 DEF OneSidedIsAnInterruption
<1>2. QED BY <1>1, EInvAlways, PTL

-----------------------------------------------------------------------------
LEMMA PairingInit == PInit => Init /\ ExchangeInit
BY DEF PInit

LEMMA PairingStep ==
    [PNext]_<<stage, vars, exchangeVars>> => [Next]_vars /\ [ExchangeNext]_exchangeVars
BY DEF PNext

(* A behaviour of the composed module is one of the listener and one of the  *)
(* exchange, so all of the above holds of it.                                *)
THEOREM PairingIsBoth == PSpec => Spec /\ ExchangeSpec
BY PairingInit, PairingStep, PTL DEF PSpec, Spec, ExchangeSpec

=============================================================================
