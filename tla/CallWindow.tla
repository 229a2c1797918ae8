----------------------------- MODULE CallWindow ------------------------------
(***************************************************************************)
(* The life of calls in the window of gui.py: the Tk thread (buttons, the  *)
(* incoming-call prompt, the poll that drains the event queue), the worker *)
(* thread of one call, the pairing thread that shares the queue and the    *)
(* listening port, and their users.  The call itself, from _run_call on,   *)
(* is CallControl's; here it only ends.                                    *)
(***************************************************************************)
EXTENDS Integers, Sequences, FiniteSets, SequencesExt

CONSTANTS MaxCalls,     (* bound: times Start is pressed                   *)
          MaxQuestions  (* bound: questions the pairing threads ask        *)

ASSUME WindowAssumption == MaxCalls \in Nat /\ MaxQuestions \in Nat

NoCall == 0
Calls  == 1..MaxCalls

VARIABLES
    tk,         (* the Tk thread: in its loop, draining, joining, gone     *)
    call,       (* the latest call; its Stats, CallHandle and stop event   *)
                (* are the window's                                        *)
    mode,       (* "listen" or "call", read at Start                       *)
    startOn, stopOn,  (* the buttons (the panel is locked as Start is)     *)
    hungUp,     (* _hung_up                                                *)
    stop,       (* the stop event of the call                              *)
    label,      (* state_label                                             *)
    dialog,     (* the prompt: the call it shows and the queue it answers  *)
    answers,    (* the queue of answers of each call                       *)
    inbox,      (* the queue the worker waits on: cfg["answers"]           *)
    ringing, live,
    telemetry,  (* the call whose Stats the telemetry samples              *)
    heard,      (* the call whose audio the window's Stats counted         *)
    events,     (* worker -> Tk                                            *)
    worker,     (* where the worker thread is                              *)
    open,       (* the sockets it holds                                    *)
    pair,       (* where the pairing thread is                             *)
    questions,  (* how many were asked; the latest is the thread's own     *)
    prompts,    (* codes on the screen, one per unanswered question        *)
    boxes,      (* the answers given to them                               *)
    accepted,   (* history: calls whose own prompt was accepted            *)
    saidYes,    (* history: questions whose own prompt was answered yes    *)
    confirmed   (* history: questions a yes was taken for                  *)

buttons  == <<startOn, stopOn, label>>
prompt   == <<dialog, answers, inbox, accepted>>
session  == <<ringing, live, telemetry>>
thread   == <<worker, open>>
pairVars == <<pair, questions, prompts, boxes, saidYes, confirmed>>
vars == <<tk, call, mode, hungUp, stop, heard, events,
          buttons, prompt, session, thread, pairVars>>

NoDialog == [shows |-> NoCall, queue |-> NoCall]
NoAnswer == "none"

Init ==
    /\ tk = "loop" /\ call = NoCall /\ mode = "listen"
    /\ startOn = TRUE /\ stopOn = FALSE /\ label = "idle"
    /\ hungUp = FALSE /\ stop = FALSE
    /\ dialog = NoDialog /\ answers = [c \in Calls |-> <<>>] /\ inbox = NoCall
    /\ ringing = FALSE /\ live = FALSE /\ telemetry = NoCall /\ heard = NoCall
    /\ events = <<>> /\ worker = "none" /\ open = {}
    /\ pair = "none" /\ questions = 0 /\ prompts = {} /\ saidYes = {} /\ confirmed = {}
    /\ boxes = [n \in 1..MaxQuestions |-> NoAnswer]
    /\ accepted = {}

WorkerAlive  == worker # "none"
PairAlive    == pair # "none"
InLoop       == tk = "loop"
Event(k, v)  == [kind |-> k, value |-> v]
Put(e)       == events' = Append(events, e)
Says(text)   == Event("state", text)

-----------------------------------------------------------------------------
(* Buttons. *)

(* Mutant: the queue of answers is the window's, not the call's. *)
FreshAnswersKept(c) == IF inbox = NoCall THEN c ELSE inbox

(* Every call has its own queue of answers. *)
FreshAnswers(c) == c

(* Every call has its own Stats, in which nothing was received. *)
FreshStats == NoCall

(* _start with settings that read() and validate_wav() accept (others only   *)
(* raise an error box).                                                      *)
Start ==
    /\ InLoop /\ startOn /\ ~WorkerAlive /\ call < MaxCalls
    /\ call' = call + 1
    /\ mode' \in {"listen", "call"}
    /\ inbox' = FreshAnswers(call + 1)
    /\ stop' = FALSE /\ heard' = FreshStats /\ hungUp' = FALSE
    /\ startOn' = FALSE /\ stopOn' = TRUE
    /\ worker' = "loading"
    /\ UNCHANGED <<tk, label, dialog, answers, accepted, session, events, open, pairVars>>

(* _stop; the steps of CallHandle.hang_up are in CallControl. *)
HangUp ==
    /\ InLoop /\ stopOn
    /\ hungUp' = TRUE /\ stop' = TRUE
    /\ stopOn' = FALSE /\ label' = "hanging_up"
    /\ dialog' = NoDialog
    /\ UNCHANGED <<tk, call, mode, startOn, answers, inbox, accepted, session, heard,
                   events, thread, pairVars>>

(* Accept, Decline or the X of the prompt. *)
Answer(yes) ==
    /\ InLoop /\ dialog # NoDialog
    /\ dialog' = NoDialog
    /\ answers' = [answers EXCEPT ![dialog.queue] = Append(@, yes)]
    /\ accepted' = IF yes THEN accepted \cup {dialog.shows} ELSE accepted
    /\ UNCHANGED <<tk, call, mode, buttons, hungUp, stop, inbox, session, heard, events,
                   thread, pairVars>>

-----------------------------------------------------------------------------
(* The poll. *)

Poll ==
    /\ InLoop
    /\ events # <<>> \/ (ringing /\ heard # NoCall)    \* else the poll changes nothing
    /\ tk' = "draining"
    /\ UNCHANGED <<call, mode, buttons, hungUp, stop, prompt, session, heard, events,
                   thread, pairVars>>

Shows(text) == label' = text /\ UNCHANGED <<tk, startOn, stopOn, dialog, session>>

OpensDialog(c) ==
    /\ dialog' = [shows |-> c, queue |-> inbox]
    /\ UNCHANGED <<tk, buttons, session>>

Rings ==
    /\ ringing' = TRUE /\ label' = "ringing"
    /\ UNCHANGED <<tk, startOn, stopOn, dialog, live, telemetry>>

GoLive == live' = TRUE /\ telemetry' = call

Connects == GoLive /\ UNCHANGED <<tk, buttons, dialog, ringing>>

(* The last sample may raise, which ends the drain until the next poll; the  *)
(* finally clause runs whatever it did.                                      *)
CallDone ==
    /\ dialog' = NoDialog /\ ringing' = FALSE /\ live' = FALSE
    /\ startOn' = TRUE /\ stopOn' = FALSE
    /\ UNCHANGED telemetry
    /\ \/ UNCHANGED <<tk, label>>
       \/ live /\ tk' = "loop" /\ label' = "UI_error"

(* One round of _drain. *)
DrainOne ==
    /\ tk = "draining" /\ events # <<>>
    /\ events' = Tail(events)
    /\ LET e == Head(events)
       IN  \/ e.kind = "state"     /\ Shows(e.value)
           \/ e.kind = "incoming"  /\ OpensDialog(e.value)
           \/ e.kind = "ringing"   /\ Rings
           \/ e.kind = "connected" /\ Connects
           \/ e.kind = "done"      /\ CallDone
    /\ UNCHANGED <<call, mode, hungUp, stop, answers, inbox, accepted, heard, thread, pairVars>>

(* The queue is empty: _refresh. *)
Refresh ==
    /\ tk = "draining" /\ events = <<>>
    /\ tk' = "loop"
    /\ IF ringing /\ heard # NoCall
       THEN ringing' = FALSE /\ GoLive /\ label' = "talking"
       ELSE UNCHANGED <<session, label>>
    /\ UNCHANGED <<call, mode, startOn, stopOn, hungUp, stop, prompt, heard, events,
                   thread, pairVars>>

-----------------------------------------------------------------------------
(* The window's X. *)

CloseWindow ==
    /\ InLoop
    /\ dialog' = NoDialog
    /\ IF WorkerAlive THEN hungUp' = TRUE /\ stop' = TRUE ELSE UNCHANGED <<hungUp, stop>>
    /\ tk' = "joining"
    /\ UNCHANGED <<call, mode, buttons, answers, inbox, accepted, session, heard, events,
                   thread, pairVars>>

(* The join returns when the worker is gone or after CLOSE_JOIN_S. *)
Destroy ==
    /\ tk = "joining"
    /\ tk' = "gone"
    /\ UNCHANGED <<call, mode, buttons, hungUp, stop, prompt, session, heard, events,
                   thread, pairVars>>

-----------------------------------------------------------------------------
(* The worker: _run. *)

Goes(from, to) == worker = from /\ worker' = to
KeepTk == UNCHANGED <<tk, call, mode, buttons, hungUp, stop, dialog, accepted, session>>

(* Any step before the call may fail: no friends, a bad file, a refused      *)
(* connection or handshake, no CALL_START; the label says why.               *)
Fails ==
    /\ worker \in {"loading", "handshaking", "awaiting_start", "connecting", "calling"}
    /\ worker' = "leaving" /\ Put(Says("over"))
    /\ KeepTk /\ UNCHANGED <<answers, inbox, heard, open, pairVars>>

PortTaken == pair \in {"allowing", "asking"}

Listen ==
    /\ mode = "listen" /\ ~PortTaken /\ Goes("loading", "accepting")
    /\ open' = open \cup {"srv"}
    /\ KeepTk /\ UNCHANGED <<answers, inbox, heard, events, pairVars>>

(* Mutant: accept() blocks. *)
GiveUpAcceptingNever ==
    /\ FALSE
    /\ KeepTk /\ UNCHANGED <<answers, inbox, heard, events, thread, pairVars>>

(* _accept() notices the stop event between two ticks. *)
GiveUpAccepting ==
    /\ stop /\ Goes("accepting", "leaving") /\ Put(Says("over"))
    /\ KeepTk /\ UNCHANGED <<answers, inbox, heard, open, pairVars>>

Accept ==
    /\ ~stop /\ Goes("accepting", "handshaking")
    /\ open' = open \cup {"conn"}
    /\ KeepTk /\ UNCHANGED <<answers, inbox, heard, events, pairVars>>

(* The handshake is done and the user is asked, wherever Hang up is by now.  *)
Ask ==
    /\ Goes("handshaking", "asking")
    /\ open' = open \cup {"channel", "udp"}
    /\ Put(Event("incoming", call))
    /\ KeepTk /\ UNCHANGED <<answers, inbox, heard, pairVars>>

(* wait_for_answer takes an answer, sees the stop event or runs out of time. *)
TakeAnswer ==
    /\ worker = "asking" /\ ~stop /\ answers[inbox] # <<>>
    /\ answers' = [answers EXCEPT ![inbox] = Tail(@)]
    /\ worker' = IF Head(answers[inbox]) THEN "awaiting_start" ELSE "declining"
    /\ KeepTk /\ UNCHANGED <<inbox, heard, events, open, pairVars>>

NoAnswerComes ==
    /\ Goes("asking", "declining")
    /\ KeepTk /\ UNCHANGED <<answers, inbox, heard, events, open, pairVars>>

(* CALL_END, if it can still be sent. *)
Decline ==
    /\ Goes("declining", "leaving") /\ Put(Says("over"))
    /\ KeepTk /\ UNCHANGED <<answers, inbox, heard, open, pairVars>>

(* wait_call_start returns, having seen no stop event when it last looked.   *)
CallStarts ==
    /\ Goes("awaiting_start", "talking")
    /\ events' = events \o <<Event("connected", call), Says("talking")>>
    /\ KeepTk /\ UNCHANGED <<answers, inbox, heard, open, pairVars>>

Dial ==
    /\ mode = "call" /\ Goes("loading", "connecting")
    /\ KeepTk /\ UNCHANGED <<answers, inbox, heard, events, open, pairVars>>

Connect ==
    /\ Goes("connecting", "calling")
    /\ open' = open \cup {"conn"}
    /\ KeepTk /\ UNCHANGED <<answers, inbox, heard, events, pairVars>>

SendCallStart ==
    /\ Goes("calling", "talking")
    /\ open' = open \cup {"channel", "udp"}
    /\ Put(Event("ringing", call))
    /\ KeepTk /\ UNCHANGED <<answers, inbox, heard, pairVars>>

(* The receiver thread counts the first datagram of the peer. *)
Hear ==
    /\ worker = "talking" /\ heard # call
    /\ heard' = call
    /\ KeepTk /\ UNCHANGED <<answers, inbox, events, thread, pairVars>>

(* _run_call returns or raises: the stop event, the peer or an error.        *)
CallEnds ==
    /\ Goes("talking", "leaving") /\ Put(Says("over"))
    /\ KeepTk /\ UNCHANGED <<answers, inbox, heard, open, pairVars>>

(* The finally clause: close everything, then say so. *)
Leave ==
    /\ Goes("leaving", "exiting")
    /\ open' = {}
    /\ Put(Event("done", call))
    /\ KeepTk /\ UNCHANGED <<answers, inbox, heard, pairVars>>

Exit ==
    /\ Goes("exiting", "none")
    /\ KeepTk /\ UNCHANGED <<answers, inbox, heard, events, open, pairVars>>

-----------------------------------------------------------------------------
(* Pairing from the window; the exchange itself is PairingExchange's.        *)

KeepCall == UNCHANGED <<call, mode, buttons, hungUp, stop, prompt, session, heard,
                        events, thread>>

(* _allow_pairing and _pair_with, refused while a call or a pairing is on.   *)
BeginPairing ==
    /\ InLoop /\ ~WorkerAlive /\ ~PairAlive
    /\ pair' \in {"allowing", "joining_in"}
    /\ KeepCall /\ UNCHANGED <<tk, questions, prompts, boxes, saidYes, confirmed>>

(* _ask_user: a prompt and a box of its own for every question. *)
AskUser ==
    /\ pair \in {"allowing", "joining_in"} /\ questions < MaxQuestions
    /\ pair' = IF pair = "allowing" THEN "asking" ELSE "asking_as_guest"
    /\ questions' = questions + 1
    /\ prompts' = prompts \cup {questions + 1}
    /\ KeepCall /\ UNCHANGED <<tk, boxes, saidYes, confirmed>>

(* The box the answer to question n goes to. *)
BoxOf(n) == n

UserConfirms(n, yes) ==
    /\ InLoop /\ n \in prompts
    /\ prompts' = prompts \ {n}
    /\ boxes' = [boxes EXCEPT ![BoxOf(n)] = IF yes THEN "yes" ELSE "no"]
    /\ saidYes' = IF yes THEN saidYes \cup {n} ELSE saidYes
    /\ KeepCall /\ UNCHANGED <<tk, pair, questions, confirmed>>

Asking == pair \in {"asking", "asking_as_guest"}

(* The thread takes the answer to its question; _ask_user looks for          *)
(* cancellation again before it believes a yes, so the same answer may count *)
(* as no.  The attempt may then still fail: allow_pairing waits on for       *)
(* another as long as its window is open.                                    *)
TakeConfirmation ==
    /\ Asking /\ boxes[BoxOf(questions)] # NoAnswer
    /\ \/ UNCHANGED confirmed
       \/ /\ boxes[BoxOf(questions)] = "yes"
          /\ confirmed' = confirmed \cup {questions}
    /\ \/ pair' = "none"
       \/ pair = "asking" /\ pair' = "allowing"
    /\ KeepCall /\ UNCHANGED <<tk, questions, prompts, boxes, saidYes>>

(* An attempt fails or runs out of time before the answer; its prompt stays  *)
(* on screen, and another attempt may ask.                                   *)
AttemptFails ==
    /\ pair = "asking" /\ pair' = "allowing"
    /\ KeepCall /\ UNCHANGED <<tk, questions, prompts, boxes, saidYes, confirmed>>

(* The pairing fails, is cancelled or runs out of time.                      *)
PairingFails ==
    /\ PairAlive /\ pair' = "none"
    /\ KeepCall /\ UNCHANGED <<tk, questions, prompts, boxes, saidYes, confirmed>>

-----------------------------------------------------------------------------
TkThread == Poll \/ DrainOne \/ Refresh \/ Destroy

User ==
    \/ Start \/ HangUp \/ CloseWindow \/ BeginPairing
    \/ \E yes \in BOOLEAN : Answer(yes)
    \/ \E n \in prompts, yes \in BOOLEAN : UserConfirms(n, yes)

(* Steps of the worker that end without help: every one of them is bounded.  *)
WorkerThread ==
    \/ Fails \/ Listen \/ GiveUpAccepting \/ Ask
    \/ TakeAnswer \/ NoAnswerComes \/ Decline \/ CallStarts
    \/ Dial \/ Connect \/ SendCallStart \/ (stop /\ CallEnds) \/ Leave \/ Exit

Others == Accept \/ Hear \/ (~stop /\ CallEnds)

PairThread == AskUser \/ TakeConfirmation \/ AttemptFails \/ PairingFails

(* The process is gone with its window. *)
Gone == tk = "gone" /\ UNCHANGED vars

Next ==
    \/ tk # "gone" /\ (TkThread \/ User \/ WorkerThread \/ Others \/ PairThread)
    \/ Gone

Spec == Init /\ [][Next]_vars /\ WF_vars(TkThread) /\ WF_vars(WorkerThread)

-----------------------------------------------------------------------------
TypeOK ==
    /\ tk \in {"loop", "draining", "joining", "gone"}
    /\ call \in 0..MaxCalls /\ mode \in {"listen", "call"}
    /\ {startOn, stopOn, hungUp, stop, ringing, live} \subseteq BOOLEAN
    /\ label \in {"idle", "hanging_up", "ringing", "talking", "over", "UI_error"}
    /\ dialog \in [shows : 0..MaxCalls, queue : 0..MaxCalls]
    /\ answers \in [Calls -> Seq(BOOLEAN)] /\ inbox \in 0..MaxCalls
    /\ telemetry \in 0..MaxCalls /\ heard \in 0..MaxCalls
    /\ \A e \in ToSet(events) : e.kind \in {"state", "incoming", "ringing", "connected", "done"}
    /\ worker \in {"none", "loading", "accepting", "handshaking", "asking", "declining",
                   "awaiting_start", "connecting", "calling", "talking", "leaving", "exiting"}
    /\ open \subseteq {"srv", "conn", "channel", "udp"}
    /\ pair \in {"none", "allowing", "joining_in", "asking", "asking_as_guest"}
    /\ questions \in 0..MaxQuestions /\ prompts \subseteq 1..questions
    /\ boxes \in [1..MaxQuestions -> {NoAnswer, "yes", "no"}]
    /\ accepted \subseteq Calls
    /\ saidYes \subseteq 1..questions /\ confirmed \subseteq 1..questions

(* An answer counts for the question it was given to.  A listener talks only *)
(* in a call whose own prompt, with that caller's fingerprint and code, was  *)
(* accepted, however late an answer to the call before it came               *)
(* (gui.py:264-267); and a pairing is confirmed only by a yes to its own     *)
(* code, though the prompts of attempts that gave up stay open               *)
(* (gui.py:198-206).                                                         *)
AnswersStayWithTheirQuestion ==
    /\ mode = "listen" /\ worker \in {"awaiting_start", "talking"} => call \in accepted
    /\ confirmed \subseteq saidYes

(* "A peer hang-up or a dropped control connection updates the status line"  *)
(* (README.md:241-242): once a call is over that nobody here hung up, the    *)
(* label tells how it ended.  It does not hold: a poll between the end text  *)
(* and "done" may still take the first audio heard for the beginning of the  *)
(* talk (gui.py:512-517), and its text stays (see the README).               *)
LabelTellsTheEnd ==
    startOn /\ ~hungUp /\ ~WorkerAlive => label \in {"idle", "over", "UI_error"}

(* However far the call has come, Hang up gives the window back: Start is    *)
(* usable again (gui.py:275-282, 320-330).                                   *)
HangUpFreesTheWindow == hungUp ~> (startOn \/ tk = "gone")

=============================================================================
