---------------------------- MODULE Window_proof -----------------------------
(***************************************************************************)
(* The window, for any number of calls, questions and turns of the knobs:  *)
(* an answer counts for the question it was given to, the panel shows the  *)
(* settings the call uses, and what is sampled and exported of a call      *)
(* agrees with itself.                                                     *)
(***************************************************************************)
EXTENDS Window, SequenceTheorems, WellFoundedInduction, TLAPS

-----------------------------------------------------------------------------
(* The life of calls. *)

Events ==
    [kind : {"state"}, value : {"talking", "over"}]
        \cup [kind : {"incoming", "ringing", "connected", "done"}, value : Calls]

CallTypes ==
    /\ tk \in {"loop", "draining", "joining", "gone"}
    /\ call \in 0..MaxCalls /\ mode \in {"listen", "call"}
    /\ startOn \in BOOLEAN /\ stopOn \in BOOLEAN /\ hungUp \in BOOLEAN /\ stop \in BOOLEAN
    /\ ringing \in BOOLEAN /\ live \in BOOLEAN
    /\ label \in {"idle", "hanging_up", "ringing", "talking", "over", "UI_error"}
    /\ dialog \in [shows : 0..MaxCalls, queue : 0..MaxCalls]
    /\ answers \in [Calls -> Seq(BOOLEAN)] /\ inbox \in 0..MaxCalls
    /\ telemetry \in 0..MaxCalls /\ heard \in 0..MaxCalls
    /\ events \in Seq(Events)
    /\ worker \in {"none", "loading", "accepting", "handshaking", "asking", "declining",
                   "awaiting_start", "connecting", "calling", "talking", "leaving", "exiting"}
    /\ open \subseteq {"srv", "conn", "channel", "udp"}
    /\ accepted \subseteq Calls
    /\ worker # "none" => call \in Calls

PairTypes ==
    /\ pair \in {"none", "allowing", "joining_in", "asking", "asking_as_guest"}
    /\ questions \in 0..MaxQuestions /\ prompts \subseteq 1..questions
    /\ boxes \in [1..MaxQuestions -> {NoAnswer, "yes", "no"}]
    /\ saidYes \subseteq 1..questions /\ confirmed \subseteq 1..questions
    /\ pair \in {"asking", "asking_as_guest"} => questions \in 1..MaxQuestions

(* A yes in the box of a question was said to its own prompt. *)
PairInv ==
    /\ PairTypes
    /\ \A n \in 1..MaxQuestions : boxes[n] = "yes" => n \in saidYes
    /\ confirmed \subseteq saidYes

(* The queue of events holds nothing but the latest call's prompt, and       *)
(* nothing behind its "done"; Start can be used when it is empty.            *)
QueueInv ==
    /\ startOn => events = <<>> /\ worker \in {"none", "exiting"}
    /\ \A i \in 1..Len(events) :
         /\ events[i].kind = "incoming" => events[i].value = call
         /\ events[i].kind = "done" => i = Len(events) /\ worker \in {"none", "exiting"}

(* The prompt answers the queue of the call it shows, and a yes in a queue   *)
(* was said to the prompt of its call.                                       *)
AnswerInv ==
    /\ inbox = call
    /\ dialog # NoDialog => dialog.shows = dialog.queue /\ dialog.queue \in Calls
    /\ \A c \in Calls : \A i \in 1..Len(answers[c]) : answers[c][i] = TRUE => c \in accepted
    /\ worker = "awaiting_start" => call \in accepted
    /\ mode = "listen" /\ worker = "talking" => call \in accepted
    /\ worker \in {"connecting", "calling"} => mode = "call"

LEMMA CallTypesStep ==
    ASSUME CallTypes, AnswerInv, Next
    PROVE  CallTypes'
<1> USE DEF CallTypes, KeepTk, KeepCall, vars, buttons, prompt, session, thread, pairVars
<1>0. NoDialog \in [shows : 0..MaxCalls, queue : 0..MaxCalls]
      BY WindowAssumption DEF NoDialog, NoCall
<1>1. CASE Poll
      BY <1>1, WindowAssumption DEF Poll
<1>2. CASE DrainOne
  <2> DEFINE e == Head(events)
  <2>1. e \in Events /\ events' = Tail(events) /\ Tail(events) \in Seq(Events)
        BY <1>2 DEF DrainOne
  <2>2. UNCHANGED <<call, mode, hungUp, stop, answers, inbox, accepted, heard, thread, pairVars>>
        BY <1>2 DEF DrainOne
  <2>3. \/ e.kind = "state"     /\ Shows(e.value)
        \/ e.kind = "incoming"  /\ OpensDialog(e.value)
        \/ e.kind = "ringing"   /\ Rings
        \/ e.kind = "connected" /\ Connects
        \/ e.kind = "done"      /\ CallDone
        BY <1>2 DEF DrainOne
  <2>4. /\ e.kind = "state" => e.value \in {"talking", "over"}
        /\ e.kind = "incoming" => e.value \in 0..MaxCalls
        BY <2>1, WindowAssumption DEF Events, Calls
  <2> HIDE DEF e
  <2>5. CASE e.kind = "state" /\ Shows(e.value)
        BY <2>1, <2>2, <2>4, <2>5 DEF Shows
  <2>6. CASE e.kind = "incoming" /\ OpensDialog(e.value)
        BY <2>1, <2>2, <2>4, <2>6 DEF OpensDialog
  <2>7. CASE e.kind = "ringing" /\ Rings
        BY <2>1, <2>2, <2>7 DEF Rings
  <2>8. CASE e.kind = "connected" /\ Connects
        BY <2>1, <2>2, <2>8 DEF Connects, GoLive
  <2>9. CASE e.kind = "done" /\ CallDone
        BY <1>0, <2>1, <2>2, <2>9, ZenonT(60) DEF CallDone
  <2>10. QED BY <2>3, <2>5, <2>6, <2>7, <2>8, <2>9
<1>3. CASE Refresh
  <2>1. CASE ringing /\ heard # NoCall
        BY <1>3, <2>1 DEF Refresh, GoLive
  <2>2. CASE ~(ringing /\ heard # NoCall)
        BY <1>3, <2>2 DEF Refresh
  <2>3. QED BY <2>1, <2>2
<1>4. CASE Destroy
      BY <1>4, WindowAssumption DEF Destroy
<1>5. CASE Start
  <2>1. /\ call < MaxCalls /\ call' = call + 1 /\ inbox' = call + 1 /\ heard' = 0
        /\ mode' \in {"listen", "call"} /\ worker' = "loading"
        /\ stop' = FALSE /\ hungUp' = FALSE /\ startOn' = FALSE /\ stopOn' = TRUE
        /\ UNCHANGED <<tk, label, dialog, answers, accepted, session, events, open, pairVars>>
        BY <1>5 DEF Start, FreshAnswers, FreshStats, NoCall
  <2>2. call' \in 1..MaxCalls /\ call' \in 0..MaxCalls /\ inbox' \in 0..MaxCalls /\ heard' \in 0..MaxCalls
        BY <2>1, WindowAssumption
  <2>3. stop' \in BOOLEAN /\ hungUp' \in BOOLEAN /\ startOn' \in BOOLEAN /\ stopOn' \in BOOLEAN
        BY Zenon, <2>1
  <2>4. QED BY <2>1, <2>2, <2>3 DEF Calls
<1>6. CASE HangUp
      BY <1>0, <1>6, ZenonT(60) DEF HangUp
<1>7. CASE CloseWindow
  <2>1. /\ dialog' = NoDialog /\ tk' = "joining"
        /\ UNCHANGED <<call, mode, buttons, answers, inbox, accepted, session, heard, events,
                       thread, pairVars>>
        BY <1>7 DEF CloseWindow
  <2>2. hungUp' \in BOOLEAN /\ stop' \in BOOLEAN
    <3>1. (hungUp' = TRUE /\ stop' = TRUE) \/ UNCHANGED <<hungUp, stop>>
          BY <1>7 DEF CloseWindow
    <3>2. CASE hungUp' = TRUE /\ stop' = TRUE
          BY Zenon, <3>2
    <3>3. CASE UNCHANGED <<hungUp, stop>>
          BY <3>3
    <3>4. QED BY <3>1, <3>2, <3>3
  <2>3. QED BY <1>0, <2>1, <2>2
<1>8. CASE BeginPairing
      BY <1>8, WindowAssumption DEF BeginPairing, PairAlive, NoAnswer
<1>9. ASSUME NEW yes \in BOOLEAN, Answer(yes)
      PROVE  CallTypes'
  <2>1. /\ answers' = [answers EXCEPT ![dialog.queue] = Append(@, yes)]
        /\ accepted' = IF yes THEN accepted \cup {dialog.shows} ELSE accepted
        /\ dialog # NoDialog /\ dialog' = NoDialog
        /\ UNCHANGED <<tk, call, mode, buttons, hungUp, stop, inbox, session, heard, events,
                       thread, pairVars>>
        BY <1>9 DEF Answer
  <2>2. dialog.queue \in Calls /\ dialog.shows \in Calls
        BY <2>1 DEF AnswerInv
  <2>3. \A c \in Calls : answers[c] \in Seq(BOOLEAN) /\ Append(answers[c], yes) \in Seq(BOOLEAN)
        BY <1>9
  <2>4. answers' \in [Calls -> Seq(BOOLEAN)]
        BY <2>1, <2>2, <2>3
  <2>5. dialog' \in [shows : 0..MaxCalls, queue : 0..MaxCalls] /\ accepted' \subseteq Calls
        BY <2>1, <2>2, WindowAssumption DEF NoDialog, NoCall
  <2>6. QED BY <2>1, <2>4, <2>5
<1>10. ASSUME NEW n \in prompts, NEW yes \in BOOLEAN, UserConfirms(n, yes)
      PROVE  CallTypes'
      BY <1>10, WindowAssumption DEF UserConfirms, BoxOf, NoAnswer
<1>11. CASE Fails
      BY <1>11, WindowAssumption DEF Fails, Goes, Put, Says, Event, Events, Calls
<1>12. CASE Listen
      BY <1>12, WindowAssumption DEF Listen, Goes, Put, Says, Event, Events, Calls
<1>13. CASE GiveUpAccepting
      BY <1>13, WindowAssumption DEF GiveUpAccepting, Goes, Put, Says, Event, Events, Calls
<1>14. CASE Ask
      BY <1>14, WindowAssumption DEF Ask, Goes, Put, Says, Event, Events, Calls
<1>15. CASE TakeAnswer
  <2>1. /\ answers[inbox] # <<>> /\ answers' = [answers EXCEPT ![inbox] = Tail(@)]
        /\ worker' \in {"awaiting_start", "declining"} /\ KeepTk
        /\ UNCHANGED <<inbox, heard, events, open, pairVars>> /\ call \in Calls
        BY <1>15 DEF TakeAnswer
  <2>2. answers[inbox] \in Seq(BOOLEAN)
        BY <2>1 DEF AnswerInv
  <2>3. Tail(answers[inbox]) \in Seq(BOOLEAN)
    <3> DEFINE q == answers[inbox]
    <3>1. q # <<>> /\ q \in Seq(BOOLEAN)
          BY <2>1, <2>2
    <3> HIDE DEF q
    <3>2. Tail(q) \in Seq(BOOLEAN)
          BY <3>1
    <3>3. QED BY <3>2 DEF q
  <2>5. answers' \in [Calls -> Seq(BOOLEAN)]
        BY <2>1, <2>3
  <2>6. QED BY <2>1, <2>5
<1>16. CASE NoAnswerComes
      BY <1>16, WindowAssumption DEF NoAnswerComes, Goes, Put, Says, Event, Events, Calls
<1>17. CASE Decline
      BY <1>17, WindowAssumption DEF Decline, Goes, Put, Says, Event, Events, Calls
<1>18. CASE CallStarts
      BY <1>18, WindowAssumption DEF CallStarts, Goes, Put, Says, Event, Events, Calls
<1>19. CASE Dial
      BY <1>19, WindowAssumption DEF Dial, Goes, Put, Says, Event, Events, Calls
<1>20. CASE Connect
      BY <1>20, WindowAssumption DEF Connect, Goes, Put, Says, Event, Events, Calls
<1>21. CASE SendCallStart
      BY <1>21, WindowAssumption DEF SendCallStart, Goes, Put, Says, Event, Events, Calls
<1>22. CASE CallEnds
      BY <1>22, WindowAssumption DEF CallEnds, Goes, Put, Says, Event, Events, Calls
<1>23. CASE Leave
      BY <1>23, WindowAssumption DEF Leave, Goes, Put, Says, Event, Events, Calls
<1>24. CASE Exit
      BY <1>24, WindowAssumption DEF Exit, Goes, Put, Says, Event, Events, Calls
<1>25. CASE Accept
      BY <1>25, WindowAssumption DEF Accept, Goes, Put, Says, Event, Events, Calls
<1>26. CASE Hear
      BY <1>26, WindowAssumption DEF Hear, Goes, Put, Says, Event, Events, Calls
<1>27. CASE AskUser
      BY <1>27, WindowAssumption DEF AskUser
<1>28. CASE TakeConfirmation \/ AttemptFails
  <2>1. CASE TakeConfirmation
        BY <2>1 DEF TakeConfirmation
  <2>2. CASE AttemptFails
        BY <2>2 DEF AttemptFails
  <2>3. QED BY <1>28, <2>1, <2>2
<1>29. CASE PairingFails
      BY <1>29, WindowAssumption DEF PairingFails, PairAlive
<1>30. CASE Gone
      BY <1>30, WindowAssumption DEF Gone
<1>31. QED BY <1>1, <1>2, <1>3, <1>4, <1>5, <1>6, <1>7, <1>8, <1>9, <1>10, <1>11, <1>12, <1>13, <1>14, <1>15, <1>16, <1>17, <1>18, <1>19, <1>20, <1>21, <1>22, <1>23, <1>24, <1>25, <1>26, <1>27, <1>28, <1>29, <1>30 DEF Next, TkThread, User, WorkerThread, Others, PairThread

LEMMA PairInvStep ==
    ASSUME PairInv, Next
    PROVE  PairInv'
<1> USE DEF PairInv, PairTypes, KeepTk, KeepCall, vars, buttons, prompt, session, thread, pairVars
<1>1. CASE Poll
      BY <1>1, WindowAssumption DEF Poll
<1>2. CASE DrainOne
      BY <1>2, WindowAssumption DEF DrainOne, Shows, OpensDialog, Rings, GoLive, Connects, CallDone, NoDialog, NoCall, Events
<1>3. CASE Refresh
      BY <1>3, WindowAssumption DEF Refresh, GoLive
<1>4. CASE Destroy
      BY <1>4, WindowAssumption DEF Destroy
<1>5. CASE Start
      BY <1>5, WindowAssumption DEF Start, FreshAnswers, FreshStats, WorkerAlive, NoCall, Calls
<1>6. CASE HangUp
      BY <1>6, WindowAssumption DEF HangUp, NoDialog, NoCall
<1>7. CASE CloseWindow
      BY <1>7, WindowAssumption DEF CloseWindow, NoDialog, NoCall
<1>8. CASE BeginPairing
      BY <1>8, WindowAssumption DEF BeginPairing, PairAlive, NoAnswer
<1>9. ASSUME NEW yes \in BOOLEAN, Answer(yes)
      PROVE  PairInv'
      BY <1>9, WindowAssumption DEF Answer, NoDialog, NoCall, Calls
<1>10. ASSUME NEW n \in prompts, NEW yes \in BOOLEAN, UserConfirms(n, yes)
      PROVE  PairInv'
      BY <1>10, WindowAssumption DEF UserConfirms, BoxOf, NoAnswer
<1>11. CASE Fails
      BY <1>11, WindowAssumption DEF Fails, Goes, Put, Says, Event, Events, Calls
<1>12. CASE Listen
      BY <1>12, WindowAssumption DEF Listen, Goes, Put, Says, Event, Events, Calls
<1>13. CASE GiveUpAccepting
      BY <1>13, WindowAssumption DEF GiveUpAccepting, Goes, Put, Says, Event, Events, Calls
<1>14. CASE Ask
      BY <1>14, WindowAssumption DEF Ask, Goes, Put, Says, Event, Events, Calls
<1>15. CASE TakeAnswer
      BY <1>15, WindowAssumption DEF TakeAnswer, Goes, Put, Says, Event, Events, Calls
<1>16. CASE NoAnswerComes
      BY <1>16, WindowAssumption DEF NoAnswerComes, Goes, Put, Says, Event, Events, Calls
<1>17. CASE Decline
      BY <1>17, WindowAssumption DEF Decline, Goes, Put, Says, Event, Events, Calls
<1>18. CASE CallStarts
      BY <1>18, WindowAssumption DEF CallStarts, Goes, Put, Says, Event, Events, Calls
<1>19. CASE Dial
      BY <1>19, WindowAssumption DEF Dial, Goes, Put, Says, Event, Events, Calls
<1>20. CASE Connect
      BY <1>20, WindowAssumption DEF Connect, Goes, Put, Says, Event, Events, Calls
<1>21. CASE SendCallStart
      BY <1>21, WindowAssumption DEF SendCallStart, Goes, Put, Says, Event, Events, Calls
<1>22. CASE CallEnds
      BY <1>22, WindowAssumption DEF CallEnds, Goes, Put, Says, Event, Events, Calls
<1>23. CASE Leave
      BY <1>23, WindowAssumption DEF Leave, Goes, Put, Says, Event, Events, Calls
<1>24. CASE Exit
      BY <1>24, WindowAssumption DEF Exit, Goes, Put, Says, Event, Events, Calls
<1>25. CASE Accept
      BY <1>25, WindowAssumption DEF Accept, Goes, Put, Says, Event, Events, Calls
<1>26. CASE Hear
      BY <1>26, WindowAssumption DEF Hear, Goes, Put, Says, Event, Events, Calls
<1>27. CASE AskUser
      BY <1>27, WindowAssumption DEF AskUser
<1>28. CASE TakeConfirmation \/ AttemptFails
      BY <1>28, WindowAssumption DEF TakeConfirmation, AttemptFails, BoxOf, Asking, NoAnswer
<1>29. CASE PairingFails
      BY <1>29, WindowAssumption DEF PairingFails, PairAlive
<1>30. CASE Gone
      BY <1>30, WindowAssumption DEF Gone
<1>31. QED BY <1>1, <1>2, <1>3, <1>4, <1>5, <1>6, <1>7, <1>8, <1>9, <1>10, <1>11, <1>12, <1>13, <1>14, <1>15, <1>16, <1>17, <1>18, <1>19, <1>20, <1>21, <1>22, <1>23, <1>24, <1>25, <1>26, <1>27, <1>28, <1>29, <1>30 DEF Next, TkThread, User, WorkerThread, Others, PairThread

LEMMA QueueInvStep ==
    ASSUME CallTypes, QueueInv, Next
    PROVE  QueueInv'
<1> USE DEF CallTypes, QueueInv, KeepTk, KeepCall, vars, buttons, prompt, session, thread, pairVars
<1>1. CASE Poll
      BY <1>1 DEF Poll
<1>2. CASE DrainOne
      BY <1>2, SMTT(60) DEF DrainOne, Shows, OpensDialog, Rings, GoLive, Connects, CallDone, NoDialog, NoCall, Events
<1>3. CASE Refresh
      BY <1>3 DEF Refresh, GoLive
<1>4. CASE Destroy
      BY <1>4 DEF Destroy
<1>5. CASE Start
      BY <1>5 DEF Start, FreshAnswers, FreshStats, WorkerAlive, NoCall, Calls
<1>6. CASE HangUp
      BY <1>6 DEF HangUp, NoDialog, NoCall
<1>7. CASE CloseWindow
      BY <1>7 DEF CloseWindow, NoDialog, NoCall
<1>8. CASE BeginPairing
      BY <1>8 DEF BeginPairing, PairAlive, NoAnswer
<1>9. ASSUME NEW yes \in BOOLEAN, Answer(yes)
      PROVE  QueueInv'
      BY <1>9 DEF Answer, NoDialog, NoCall, Calls
<1>10. ASSUME NEW n \in prompts, NEW yes \in BOOLEAN, UserConfirms(n, yes)
      PROVE  QueueInv'
      BY <1>10 DEF UserConfirms, BoxOf, NoAnswer
<1>11. CASE Fails
      BY <1>11 DEF Fails, Goes, Put, Says, Event, Events, Calls
<1>12. CASE Listen
      BY <1>12 DEF Listen, Goes, Put, Says, Event, Events, Calls
<1>13. CASE GiveUpAccepting
      BY <1>13 DEF GiveUpAccepting, Goes, Put, Says, Event, Events, Calls
<1>14. CASE Ask
      BY <1>14 DEF Ask, Goes, Put, Says, Event, Events, Calls
<1>15. CASE TakeAnswer
      BY <1>15 DEF TakeAnswer, Goes, Put, Says, Event, Events, Calls
<1>16. CASE NoAnswerComes
      BY <1>16 DEF NoAnswerComes, Goes, Put, Says, Event, Events, Calls
<1>17. CASE Decline
      BY <1>17 DEF Decline, Goes, Put, Says, Event, Events, Calls
<1>18. CASE CallStarts
      BY <1>18, SMTT(60) DEF CallStarts, Goes, Put, Says, Event, Events, Calls
<1>19. CASE Dial
      BY <1>19 DEF Dial, Goes, Put, Says, Event, Events, Calls
<1>20. CASE Connect
      BY <1>20 DEF Connect, Goes, Put, Says, Event, Events, Calls
<1>21. CASE SendCallStart
      BY <1>21 DEF SendCallStart, Goes, Put, Says, Event, Events, Calls
<1>22. CASE CallEnds
      BY <1>22 DEF CallEnds, Goes, Put, Says, Event, Events, Calls
<1>23. CASE Leave
      BY <1>23 DEF Leave, Goes, Put, Says, Event, Events, Calls
<1>24. CASE Exit
      BY <1>24 DEF Exit, Goes, Put, Says, Event, Events, Calls
<1>25. CASE Accept
      BY <1>25 DEF Accept, Goes, Put, Says, Event, Events, Calls
<1>26. CASE Hear
      BY <1>26 DEF Hear, Goes, Put, Says, Event, Events, Calls
<1>27. CASE AskUser
      BY <1>27 DEF AskUser
<1>28. CASE TakeConfirmation \/ AttemptFails
      BY <1>28 DEF TakeConfirmation, AttemptFails, BoxOf, Asking, NoAnswer
<1>29. CASE PairingFails
      BY <1>29 DEF PairingFails, PairAlive
<1>30. CASE Gone
      BY <1>30 DEF Gone
<1>31. QED BY <1>1, <1>2, <1>3, <1>4, <1>5, <1>6, <1>7, <1>8, <1>9, <1>10, <1>11, <1>12, <1>13, <1>14, <1>15, <1>16, <1>17, <1>18, <1>19, <1>20, <1>21, <1>22, <1>23, <1>24, <1>25, <1>26, <1>27, <1>28, <1>29, <1>30 DEF Next, TkThread, User, WorkerThread, Others, PairThread

LEMMA AnswerInvStep ==
    ASSUME CallTypes, QueueInv, AnswerInv, Next
    PROVE  AnswerInv'
<1> USE DEF CallTypes, QueueInv, AnswerInv, KeepTk, KeepCall, vars, buttons, prompt, session, thread, pairVars
<1>1. CASE Poll
      BY <1>1 DEF Poll
<1>2. CASE DrainOne
      BY <1>2 DEF DrainOne, Shows, OpensDialog, Rings, GoLive, Connects, CallDone, NoDialog, NoCall, Events
<1>3. CASE Refresh
      BY <1>3 DEF Refresh, GoLive
<1>4. CASE Destroy
      BY <1>4 DEF Destroy
<1>5. CASE Start
      BY <1>5 DEF Start, FreshAnswers, FreshStats, WorkerAlive, NoCall, Calls
<1>6. CASE HangUp
      BY <1>6 DEF HangUp, NoDialog, NoCall
<1>7. CASE CloseWindow
      BY <1>7 DEF CloseWindow, NoDialog, NoCall
<1>8. CASE BeginPairing
      BY <1>8 DEF BeginPairing, PairAlive, NoAnswer
<1>9. ASSUME NEW yes \in BOOLEAN, Answer(yes)
      PROVE  AnswerInv'
      BY <1>9 DEF Answer, NoDialog, NoCall, Calls
<1>10. ASSUME NEW n \in prompts, NEW yes \in BOOLEAN, UserConfirms(n, yes)
      PROVE  AnswerInv'
      BY <1>10 DEF UserConfirms, BoxOf, NoAnswer
<1>11. CASE Fails
      BY <1>11 DEF Fails, Goes, Put, Says, Event, Events, Calls
<1>12. CASE Listen
      BY <1>12 DEF Listen, Goes, Put, Says, Event, Events, Calls
<1>13. CASE GiveUpAccepting
      BY <1>13 DEF GiveUpAccepting, Goes, Put, Says, Event, Events, Calls
<1>14. CASE Ask
      BY <1>14 DEF Ask, Goes, Put, Says, Event, Events, Calls
<1>15. CASE TakeAnswer
  <2>1. /\ answers[inbox] # <<>> /\ answers' = [answers EXCEPT ![inbox] = Tail(@)]
        /\ worker' = IF Head(answers[inbox]) THEN "awaiting_start" ELSE "declining"
        /\ UNCHANGED <<call, mode, dialog, accepted, inbox>> /\ call \in Calls
        BY <1>15 DEF TakeAnswer
  <2> DEFINE q == answers[inbox]
  <2>2. q \in Seq(BOOLEAN) /\ q # <<>>
        BY <2>1
  <2>3. Head(q) = q[1] /\ 1 \in 1..Len(q) /\ Tail(q) \in Seq(BOOLEAN)
        /\ \A i \in 1..Len(Tail(q)) : i + 1 \in 1..Len(q) /\ Tail(q)[i] = q[i + 1]
    <3> HIDE DEF q
    <3>1. QED BY <2>2
  <2>4. /\ answers'[inbox] = Tail(q) /\ DOMAIN answers' = Calls
        /\ \A c \in Calls \ {inbox} : answers'[c] = answers[c]
        BY <2>1
  <2>5. inbox = call /\ inbox \in Calls /\ \A i \in 1..Len(q) : q[i] = TRUE => inbox \in accepted
        BY <2>1
  <2>6. Head(q) = TRUE => call \in accepted
    <3> HIDE DEF q
    <3>1. QED BY <2>3, <2>5
  <2>7. \A c \in Calls : \A i \in 1..Len(answers'[c]) : answers'[c][i] = TRUE => c \in accepted
    <3> SUFFICES ASSUME NEW c \in Calls, NEW i \in 1..Len(answers'[c]), answers'[c][i] = TRUE
                 PROVE  c \in accepted
        BY <2>1
    <3>1. CASE c = inbox
      <4>1. i \in 1..Len(Tail(q)) /\ Tail(q)[i] = TRUE
            BY <2>4, <3>1
      <4> HIDE DEF q
      <4>2. QED BY <2>3, <2>5, <3>1, <4>1
    <3>2. CASE c # inbox
          BY <2>4, <3>2
    <3>3. QED BY <3>1, <3>2
  <2>8. worker' \in {"awaiting_start", "declining"} /\ (worker' = "awaiting_start" => call \in accepted)
    <3>1. worker' = IF Head(q) = TRUE THEN "awaiting_start" ELSE "declining"
      <4>1. Head(q) \in BOOLEAN
        <5> HIDE DEF q
        <5>1. QED BY <2>2
      <4>2. QED BY <2>1, <4>1
    <3> HIDE DEF q
    <3>2. QED BY <2>6, <3>1
  <2>9. QED BY <2>1, <2>7, <2>8
<1>16. CASE NoAnswerComes
      BY <1>16 DEF NoAnswerComes, Goes, Put, Says, Event, Events, Calls
<1>17. CASE Decline
      BY <1>17 DEF Decline, Goes, Put, Says, Event, Events, Calls
<1>18. CASE CallStarts
      BY <1>18 DEF CallStarts, Goes, Put, Says, Event, Events, Calls
<1>19. CASE Dial
      BY <1>19 DEF Dial, Goes, Put, Says, Event, Events, Calls
<1>20. CASE Connect
      BY <1>20 DEF Connect, Goes, Put, Says, Event, Events, Calls
<1>21. CASE SendCallStart
      BY <1>21 DEF SendCallStart, Goes, Put, Says, Event, Events, Calls
<1>22. CASE CallEnds
      BY <1>22 DEF CallEnds, Goes, Put, Says, Event, Events, Calls
<1>23. CASE Leave
      BY <1>23 DEF Leave, Goes, Put, Says, Event, Events, Calls
<1>24. CASE Exit
      BY <1>24 DEF Exit, Goes, Put, Says, Event, Events, Calls
<1>25. CASE Accept
      BY <1>25 DEF Accept, Goes, Put, Says, Event, Events, Calls
<1>26. CASE Hear
      BY <1>26 DEF Hear, Goes, Put, Says, Event, Events, Calls
<1>27. CASE AskUser
      BY <1>27 DEF AskUser
<1>28. CASE TakeConfirmation \/ AttemptFails
      BY <1>28 DEF TakeConfirmation, AttemptFails, BoxOf, Asking, NoAnswer
<1>29. CASE PairingFails
      BY <1>29 DEF PairingFails, PairAlive
<1>30. CASE Gone
      BY <1>30 DEF Gone
<1>31. QED BY <1>1, <1>2, <1>3, <1>4, <1>5, <1>6, <1>7, <1>8, <1>9, <1>10, <1>11, <1>12, <1>13, <1>14, <1>15, <1>16, <1>17, <1>18, <1>19, <1>20, <1>21, <1>22, <1>23, <1>24, <1>25, <1>26, <1>27, <1>28, <1>29, <1>30 DEF Next, TkThread, User, WorkerThread, Others, PairThread

LEMMA QuestionInit == WInit => CallTypes /\ PairInv /\ QueueInv /\ AnswerInv
<1> SUFFICES ASSUME Init PROVE CallTypes /\ PairInv /\ QueueInv /\ AnswerInv
    BY DEF WInit
<1>1. NoDialog \in [shows : 0..MaxCalls, queue : 0..MaxCalls] /\ 0 \in 0..MaxCalls
      BY WindowAssumption DEF NoDialog, NoCall
<1>2. /\ startOn \in BOOLEAN /\ stopOn \in BOOLEAN /\ hungUp \in BOOLEAN /\ stop \in BOOLEAN
      /\ ringing \in BOOLEAN /\ live \in BOOLEAN
      BY Zenon DEF Init
<1>3. answers \in [Calls -> Seq(BOOLEAN)] /\ events \in Seq(Events)
      /\ \A c \in Calls : answers[c] = <<>>
      BY DEF Init
<1>4. CallTypes
      BY <1>1, <1>2, <1>3 DEF Init, CallTypes, NoCall
<1>5. PairInv
      BY WindowAssumption DEF Init, PairInv, PairTypes, NoAnswer
<1>6. QueueInv
      BY DEF Init, QueueInv
<1>7. AnswerInv
      BY <1>3 DEF Init, AnswerInv
<1>8. QED BY <1>4, <1>5, <1>6, <1>7

LEMMA QuestionStep ==
    ASSUME CallTypes, PairInv, QueueInv, AnswerInv, [WNext]_<<side, vars, panelVars>>
    PROVE  CallTypes' /\ PairInv' /\ QueueInv' /\ AnswerInv'
<1>1. CASE Next
      BY <1>1, CallTypesStep, PairInvStep, QueueInvStep, AnswerInvStep
<1>2. CASE UNCHANGED vars
  <2> USE DEF vars, buttons, prompt, session, thread, pairVars
  <2>1. CallTypes'
        BY <1>2 DEF CallTypes
  <2>2. PairInv'
        BY <1>2 DEF PairInv, PairTypes
  <2>3. QueueInv'
        BY <1>2 DEF QueueInv
  <2>4. AnswerInv'
        BY <1>2 DEF AnswerInv
  <2>5. QED BY <2>1, <2>2, <2>3, <2>4
<1>3. QED BY <1>1, <1>2 DEF WNext

(* Every variable of the window's calls keeps its type. *)
THEOREM WindowTypes == WSpec => []TypeOK
<1>1. CallTypes /\ PairInv => TypeOK
  <2> SUFFICES ASSUME CallTypes, PairInv PROVE TypeOK
      OBVIOUS
  <2>1. \A e \in ToSet(events) : e.kind \in {"state", "incoming", "ringing", "connected", "done"}
        BY DEF CallTypes, Events, ToSet
  <2>2. {startOn, stopOn, hungUp, stop, ringing, live} \subseteq BOOLEAN
        BY DEF CallTypes
  <2>3. QED BY <2>1, <2>2 DEF TypeOK, CallTypes, PairInv, PairTypes
<1>2. QED BY <1>1, QuestionInit, QuestionStep, PTL DEF WSpec

(* An answer counts for the question it was given to: a listener talks only  *)
(* in a call whose own prompt was accepted, and a pairing is confirmed only  *)
(* by a yes to its own code, for any number of calls, attempts and prompts   *)
(* left open (gui.py:198-206, 264-267).                                      *)
THEOREM AnswersKeepTheirQuestion == WSpec => []AnswersStayWithTheirQuestion
<1>1. PairInv /\ AnswerInv => AnswersStayWithTheirQuestion
      BY DEF PairInv, AnswerInv, AnswersStayWithTheirQuestion
<1>2. QED BY <1>1, QuestionInit, QuestionStep, PTL DEF WSpec

-----------------------------------------------------------------------------
(* The panel. *)

(* What a slider can set: its knob's value is where its slider goes back to. *)
Settable(k) == IF k = "bitrate" THEN {0} \cup {1000 * r : r \in Nat \ 0..7} ELSE Nat

KnobNames == {"loss_pct", "loss_model", "burst_len", "bitrate", "repair"}

KnobsOK(v) ==
    /\ v = [k \in KnobNames |-> v[k]]
    /\ \A k \in Sliders : v[k] \in Settable(k)

PanelInv ==
    /\ KnobsOK(knobs)
    /\ position = [k \in Sliders |-> position[k]]
    /\ PanelTellsTheTruth

(* From the slider to the knob and back, and from the knob to the slider.    *)
LEMMA KnobOfSlider ==
    ASSUME NEW k \in Sliders, NEW p \in Nat
    PROVE  ToKnob(k, p) \in Settable(k)
<1>1. CASE k # "bitrate"
      BY <1>1 DEF ToKnob, Settable, Rounded
<1>2. CASE k = "bitrate" /\ p < 80
      BY <1>2 DEF ToKnob, Settable
<1>3. CASE k = "bitrate" /\ p >= 80
  <2>1. Rounded(p) \in Nat \ 0..7
        BY <1>3 DEF Rounded
  <2>2. ToKnob(k, p) = 1000 * Rounded(p)
        BY <1>3 DEF ToKnob
  <2>3. QED BY <1>3, <2>1, <2>2 DEF Settable
<1>4. QED BY <1>1, <1>2, <1>3

LEMMA SliderOfKnob ==
    ASSUME NEW k \in Sliders, NEW v \in Settable(k)
    PROVE  ToKnob(k, ToSlider(k, v)) = v
<1>1. CASE k # "bitrate"
  <2>1. v \in Nat
        BY <1>1 DEF Settable
  <2>2. (10 * v + 5) \div 10 = v
        BY <2>1
  <2>3. QED BY <1>1, <2>2 DEF ToKnob, ToSlider, Rounded
<1>2. CASE k = "bitrate" /\ v = 0
      BY <1>2 DEF ToKnob, ToSlider
<1>3. CASE k = "bitrate" /\ v # 0
  <2>1. PICK r \in Nat \ 0..7 : v = 1000 * r
        BY <1>3 DEF Settable
  <2>2. ToSlider(k, v) = 10 * r
    <3>1. (1000 * r) \div 100 = 10 * r
          BY <2>1
    <3>2. QED BY <1>3, <2>1, <3>1 DEF ToSlider
  <2>3. Rounded(10 * r) = r /\ 10 * r >= 80
        BY <2>1 DEF Rounded
  <2>4. QED BY <1>3, <2>1, <2>2, <2>3 DEF ToKnob
<1>4. QED BY <1>1, <1>2, <1>3

LEMMA RefreshTells ==
    ASSUME NEW v, KnobsOK(v), knobs' = v, Refreshed(v)
    PROVE  PanelInv'
<1>1. \A k \in Sliders : position'[k] = ToSlider(k, v[k]) /\ v[k] \in Settable(k)
      BY DEF Refreshed, PositionsOf, KnobsOK
<1>2. \A k \in Sliders : ToKnob(k, position'[k]) = knobs'[k]
      BY <1>1, SliderOfKnob
<1>3. /\ position' = [k \in Sliders |-> position'[k]]
      /\ caption' = [k \in Sliders |-> knobs'[k]]
      /\ radio' = [k \in Radios |-> knobs'[k]]
      /\ burstOn' = (knobs'.loss_model = "burst")
      BY DEF Refreshed, PositionsOf, RadiosOf
<1>4. QED BY <1>2, <1>3 DEF PanelInv, PanelTellsTheTruth

LEMMA DefaultsOK == KnobsOK(Defaults)
<1>1. Defaults = [k \in KnobNames |-> Defaults[k]]
      BY DEF Defaults, KnobNames
<1>2. Defaults["loss_pct"] = 0 /\ Defaults["burst_len"] = 3 /\ Defaults["bitrate"] = 0
      BY DEF Defaults
<1>3. QED BY <1>1, <1>2 DEF KnobsOK, Sliders, Settable

(* One knob is set, another way than by a slider or to what a slider can set.*)
LEMMA KnobSet ==
    ASSUME KnobsOK(knobs), NEW k \in KnobNames, NEW x, k \in Sliders => x \in Settable(k)
    PROVE  KnobsOK([knobs EXCEPT ![k] = x])
<1> DEFINE v == [knobs EXCEPT ![k] = x]
<1>1. DOMAIN knobs = KnobNames
      BY DEF KnobsOK
<1>2. /\ v = [n \in KnobNames |-> v[n]]
      /\ v[k] = x /\ \A n \in KnobNames \ {k} : v[n] = knobs[n]
      BY <1>1
<1> HIDE DEF v
<1>3. Sliders \subseteq KnobNames
      BY DEF Sliders, KnobNames
<1>4. \A n \in Sliders : v[n] \in Settable(n)
      BY <1>2, <1>3 DEF KnobsOK
<1>5. KnobsOK(v)
      BY <1>2, <1>4 DEF KnobsOK
<1>6. QED BY <1>5 DEF v

LEMMA PresetOK ==
    ASSUME KnobsOK(knobs), NEW name \in DOMAIN Presets
    PROVE  KnobsOK(Updated(knobs, PresetValues(name)))
<1> DEFINE P == Presets[name]
           V == PresetValues(name)
<1>1. /\ DOMAIN P \subseteq NetworkKnobs
      /\ "loss_pct" \in DOMAIN P => P["loss_pct"] \in Nat
      /\ "burst_len" \in DOMAIN P => P["burst_len"] \in Nat
  <2>1. name \in {"Clean", "BadWiFi", "BurstLoss"}
        BY DEF Presets
  <2>2. CASE name = "Clean"
    <3>1. P = [k \in {} |-> 0]
          BY <2>2 DEF Presets
    <3>2. QED BY <3>1
  <2>3. CASE name = "BadWiFi"
    <3>1. P = [loss_pct |-> 5]
          BY <2>3 DEF Presets
    <3>2. QED BY <3>1 DEF NetworkKnobs
  <2>4. CASE name = "BurstLoss"
    <3>1. P = [loss_pct |-> 10, loss_model |-> "burst", burst_len |-> 4]
          BY <2>4 DEF Presets
    <3>2. QED BY <3>1 DEF NetworkKnobs
  <2>5. QED BY <2>1, <2>2, <2>3, <2>4
<1> HIDE DEF P
<1>2. V = [k \in DOMAIN P \cup NetworkKnobs |-> IF k \in DOMAIN P THEN P[k] ELSE Defaults[k]]
  <2> DEFINE D == [k \in NetworkKnobs |-> Defaults[k]]
  <2>1. V = [k \in DOMAIN P \cup DOMAIN D |-> IF k \in DOMAIN P THEN P[k] ELSE D[k]]
        BY DEF PresetValues, Updated, P
  <2>2. DOMAIN D = NetworkKnobs /\ \A k \in NetworkKnobs : D[k] = Defaults[k]
        OBVIOUS
  <2> HIDE DEF D
  <2>3. QED BY <2>1, <2>2
<1> HIDE DEF V
<1>3. /\ DOMAIN V = NetworkKnobs
      /\ V["loss_pct"] \in Nat /\ V["burst_len"] \in Nat
  <2>1. Defaults["loss_pct"] \in Nat /\ Defaults["burst_len"] \in Nat
        BY DEF Defaults
  <2>2. QED BY <1>1, <1>2, <2>1 DEF NetworkKnobs
<1>4. DOMAIN knobs = KnobNames /\ NetworkKnobs \subseteq KnobNames /\ Sliders \subseteq KnobNames
      BY DEF KnobsOK, KnobNames, NetworkKnobs, Sliders
<1> DEFINE W == Updated(knobs, V)
<1>5. W = [k \in KnobNames |-> IF k \in NetworkKnobs THEN V[k] ELSE knobs[k]]
  <2>1. W = [k \in DOMAIN V \cup DOMAIN knobs |-> IF k \in DOMAIN V THEN V[k] ELSE knobs[k]]
        BY DEF Updated
  <2>2. DOMAIN V \cup DOMAIN knobs = KnobNames
        BY <1>3, <1>4
  <2>3. QED BY <1>3, <2>1, <2>2
<1> HIDE DEF W
<1>6. W = [k \in KnobNames |-> W[k]]
      BY <1>5
<1>7. /\ W["loss_pct"] = V["loss_pct"] /\ W["burst_len"] = V["burst_len"]
      /\ W["bitrate"] = knobs["bitrate"]
      BY <1>5 DEF KnobNames, NetworkKnobs
<1>8. knobs["bitrate"] \in Settable("bitrate")
      BY DEF KnobsOK, Sliders
<1>9. \A k \in Sliders : W[k] \in Settable(k)
      BY <1>3, <1>7, <1>8 DEF Sliders, Settable
<1>10. KnobsOK(W)
       BY <1>6, <1>9 DEF KnobsOK
<1>11. QED BY <1>10 DEF W, V

LEMMA MoveTells ==
    ASSUME PanelInv, NEW k \in Sliders, NEW p \in Nat, MoveSlider(k, p)
    PROVE  PanelInv'
<1> DEFINE x == ToKnob(k, p)
<1>1. /\ position' = [position EXCEPT ![k] = p] /\ knobs' = [knobs EXCEPT ![k] = x]
      /\ caption' = [caption EXCEPT ![k] = x] /\ UNCHANGED <<radio, burstOn>>
      BY DEF MoveSlider
<1>2. x \in Settable(k)
      BY KnobOfSlider
<1>3. k \in KnobNames /\ Sliders \subseteq KnobNames /\ Radios \subseteq KnobNames \ Sliders
      /\ "loss_model" \in Radios
      BY DEF KnobNames, Sliders, Radios
<1>4. KnobsOK(knobs')
      BY <1>1, <1>2, <1>3, KnobSet DEF PanelInv
<1>5. DOMAIN knobs = KnobNames /\ DOMAIN position = Sliders /\ DOMAIN caption = Sliders
      BY DEF PanelInv, KnobsOK, PanelTellsTheTruth
<1>6. /\ knobs'[k] = x /\ \A n \in KnobNames \ {k} : knobs'[n] = knobs[n]
      /\ position' = [n \in Sliders |-> position'[n]]
      /\ position'[k] = p /\ \A n \in Sliders \ {k} : position'[n] = position[n]
      /\ caption' = [n \in Sliders |-> caption'[n]]
      /\ caption'[k] = x /\ \A n \in Sliders \ {k} : caption'[n] = caption[n]
      BY <1>1, <1>3, <1>5
<1> HIDE DEF x
<1>7. \A n \in Sliders : ToKnob(n, position'[n]) = knobs'[n]
  <2>1. \A n \in Sliders : ToKnob(n, position[n]) = knobs[n]
        BY DEF PanelInv, PanelTellsTheTruth
  <2>2. QED BY <1>3, <1>6, <2>1 DEF x
<1>8. caption' = [n \in Sliders |-> knobs'[n]]
  <2>1. \A n \in Sliders : caption[n] = knobs[n]
        BY DEF PanelInv, PanelTellsTheTruth
  <2>2. \A n \in Sliders : caption'[n] = knobs'[n]
        BY <1>3, <1>6, <2>1
  <2>3. QED BY <1>6, <2>2
<1>9. radio' = [n \in Radios |-> knobs'[n]]
  <2>1. radio = [n \in Radios |-> knobs[n]]
        BY DEF PanelInv, PanelTellsTheTruth
  <2>2. \A n \in Radios : knobs'[n] = knobs[n]
        BY <1>3, <1>6
  <2>3. QED BY <1>1, <2>1, <2>2
<1>10. burstOn' = (knobs'.loss_model = "burst")
  <2>1. burstOn = (knobs.loss_model = "burst")
        BY DEF PanelInv, PanelTellsTheTruth
  <2>2. knobs'["loss_model"] = knobs["loss_model"]
        BY <1>3, <1>6
  <2>3. QED BY <1>1, <2>1, <2>2
<1>11. QED BY <1>4, <1>6, <1>7, <1>8, <1>9, <1>10 DEF PanelInv, PanelTellsTheTruth

LEMMA RepairTells ==
    ASSUME PanelInv, NEW r, OnRepair(r)
    PROVE  PanelInv'
<1>1. /\ radio' = [radio EXCEPT !["repair"] = r] /\ knobs' = [knobs EXCEPT !["repair"] = r]
      /\ UNCHANGED <<position, caption, burstOn>>
      BY DEF OnRepair
<1>2. "repair" \in KnobNames \ Sliders /\ Sliders \subseteq KnobNames /\ "repair" # "loss_model"
      /\ Radios \subseteq KnobNames /\ "loss_model" \in KnobNames /\ "repair" \in Radios
      BY DEF KnobNames, Sliders, Radios
<1>3. KnobsOK(knobs')
      BY <1>1, <1>2, KnobSet DEF PanelInv
<1>4. DOMAIN knobs = KnobNames /\ DOMAIN radio = Radios /\ \A n \in Radios : radio[n] = knobs[n]
      BY DEF PanelInv, KnobsOK, PanelTellsTheTruth
<1>5. /\ knobs'["repair"] = r /\ \A n \in KnobNames \ {"repair"} : knobs'[n] = knobs[n]
      /\ radio' = [n \in Radios |-> radio'[n]]
      /\ radio'["repair"] = r /\ \A n \in Radios \ {"repair"} : radio'[n] = radio[n]
      BY <1>1, <1>2, <1>4
<1>6. \A n \in Sliders : knobs'[n] = knobs[n]
      BY <1>2, <1>5
<1>7. \A n \in Radios : radio'[n] = knobs'[n]
      BY <1>2, <1>4, <1>5
<1>8. radio' = [n \in Radios |-> knobs'[n]]
      BY <1>5, <1>7
<1>9. knobs'["loss_model"] = knobs["loss_model"]
      BY <1>2, <1>5
<1>10. caption' = [n \in Sliders |-> knobs'[n]]
  <2>1. caption = [n \in Sliders |-> knobs[n]]
        BY DEF PanelInv, PanelTellsTheTruth
  <2>2. QED BY <1>1, <1>6, <2>1
<1>11. \A n \in Sliders : ToKnob(n, position'[n]) = knobs'[n]
  <2>1. \A n \in Sliders : ToKnob(n, position[n]) = knobs[n]
        BY DEF PanelInv, PanelTellsTheTruth
  <2>2. QED BY <1>1, <1>6, <2>1
<1>12. burstOn' = (knobs'.loss_model = "burst") /\ position' = [n \in Sliders |-> position'[n]]
  <2>1. burstOn = (knobs.loss_model = "burst") /\ position = [n \in Sliders |-> position[n]]
        BY DEF PanelInv, PanelTellsTheTruth
  <2>2. QED BY <1>1, <1>9, <2>1
<1>13. QED BY <1>3, <1>8, <1>10, <1>11, <1>12 DEF PanelInv, PanelTellsTheTruth

(* However sliders, radio buttons and presets have been used, every widget   *)
(* shows the setting that the call uses, for every place a slider can be     *)
(* dragged to and any number of turns (gui_network.py:3-5).                  *)
THEOREM WidgetsTellTheTruth == WSpec => []PanelTellsTheTruth
<1>1. WInit => PanelInv
  <2> SUFFICES ASSUME PanelInit PROVE PanelInv
      BY DEF WInit
  <2>1. KnobsOK(knobs)
        BY DefaultsOK DEF PanelInit
  <2>2. \A k \in Sliders : position[k] = ToSlider(k, knobs[k]) /\ knobs[k] \in Settable(k)
        BY <2>1 DEF PanelInit, PositionsOf, KnobsOK
  <2>3. \A k \in Sliders : ToKnob(k, position[k]) = knobs[k]
        BY <2>2, SliderOfKnob
  <2>4. /\ position = [k \in Sliders |-> position[k]]
        /\ caption = [k \in Sliders |-> knobs[k]] /\ radio = [k \in Radios |-> knobs[k]]
        BY DEF PanelInit, PositionsOf, RadiosOf
  <2>5. burstOn = (knobs.loss_model = "burst")
        BY DEF PanelInit, Defaults
  <2>6. QED BY <2>1, <2>3, <2>4, <2>5 DEF PanelInv, PanelTellsTheTruth
<1>2. PanelInv /\ [WNext]_<<side, vars, panelVars>> => PanelInv'
  <2> SUFFICES ASSUME PanelInv, [WNext]_<<side, vars, panelVars>> PROVE PanelInv'
      OBVIOUS
  <2>1. CASE UNCHANGED <<knobs, widgets>>
        BY <2>1 DEF widgets, PanelInv, PanelTellsTheTruth, KnobsOK
  <2>2. ASSUME NEW k \in Sliders, NEW p \in Nat, MoveSlider(k, p)
        PROVE  PanelInv'
        BY <2>2, MoveTells
  <2>3. ASSUME NEW r, OnRepair(r)
        PROVE  PanelInv'
        BY <2>3, RepairTells
  <2>4. ASSUME NEW m, OnModel(m)
        PROVE  PanelInv'
    <3>1. knobs' = [knobs EXCEPT !["loss_model"] = m] /\ Refreshed(knobs')
          BY <2>4 DEF OnModel
    <3>2. "loss_model" \in KnobNames \ Sliders
          BY DEF KnobNames, Sliders
    <3>3. KnobsOK(knobs')
          BY <3>1, <3>2, KnobSet DEF PanelInv
    <3>4. QED BY <3>1, <3>3, RefreshTells
  <2>5. ASSUME NEW n \in DOMAIN Presets, ApplyPreset(n)
        PROVE  PanelInv'
    <3>1. knobs' = Updated(knobs, PresetValues(n)) /\ Refreshed(knobs')
          BY <2>5 DEF ApplyPreset
    <3>2. KnobsOK(knobs')
          BY <3>1, PresetOK DEF PanelInv
    <3>3. QED BY <3>1, <3>2, RefreshTells
  <2>6. CASE Turns
    <3>1. {"loss_pct", "burst_len", "bitrate"} \subseteq Sliders
          BY DEF Sliders
    <3>2. LossPositions \subseteq Nat /\ RatePositions \subseteq Nat
          BY PanelAssumption
    <3>3. QED BY <2>2, <2>3, <2>4, <2>5, <2>6, <3>1, <3>2 DEF Turns
  <2>7. CASE PanelNext /\ ~Turns
    <3>1. UNCHANGED <<knobs, widgets>>
          BY <2>7 DEF PanelNext, BeginSampling, Sample, FinishSampling, BeginExport,
                      CancelExport, CopySession, ExportThread, WriteTimeline, WriteSummary,
                      WriteCharts, ExportFails, ExportReported, Writes, KeepWindow
    <3>2. QED BY <2>1, <3>1
  <2>8. QED BY <2>1, <2>6, <2>7 DEF WNext, panelVars
<1>3. PanelInv => PanelTellsTheTruth
      BY DEF PanelInv
<1>4. QED BY <1>1, <1>2, <1>3, PTL DEF WSpec

-----------------------------------------------------------------------------
(* The least counterexample, with which the inductions below are made.       *)
LEMMA LeastNat ==
    ASSUME NEW N, N \subseteq Nat, N # {}
    PROVE  \E n \in N : \A m \in Nat : m < n => m \notin N
<1> DEFINE R == OpToRel(<, Nat)
<1>1. \A x, y \in Nat : <<y, x>> \in R <=> y < x
      BY DEF OpToRel
<1>2. IsWellFoundedOn(R, Nat)
      BY NatLessThanWellFounded
<1> HIDE DEF R
<1>3. PICK n \in N : \A m \in N : ~(<<m, n>> \in R)
      BY <1>2, WFMin
<1>4. QED BY <1>1, <1>3

LEMMA MaxIsIn ==
    ASSUME NEW n \in Nat, NEW S, S \subseteq 1..n, S # {}
    PROVE  Max(S) \in S /\ \A i \in S : i <= Max(S)
<1> DEFINE N == {m \in Nat : n - m \in S}
<1>1. N \subseteq Nat /\ N # {}
  <2>1. PICK i \in S : TRUE
        OBVIOUS
  <2>2. n - i \in Nat /\ n - (n - i) = i
        BY <2>1
  <2>3. n - i \in N
        BY <2>1, <2>2
  <2>4. QED BY <2>3
<1>2. PICK m \in N : \A l \in Nat : l < m => l \notin N
  <2> HIDE DEF N
  <2>1. QED BY <1>1, LeastNat
<1>3. n - m \in S
      OBVIOUS
<1>4. \A i \in S : n - m >= i
  <2> SUFFICES ASSUME NEW i \in S PROVE n - m >= i
      OBVIOUS
  <2>1. n - i \in Nat /\ n - (n - i) = i /\ i \in Nat /\ m \in Nat
        OBVIOUS
  <2>2. n - i \in N
        BY <2>1
  <2>3. ~(n - i < m)
        BY <1>2, <2>1, <2>2
  <2>4. QED BY <2>1, <2>3
<1>5. \E x \in S : \A y \in S : x >= y
      BY <1>3, <1>4
<1>6. Max(S) \in S /\ \A y \in S : Max(S) >= y
      BY <1>5 DEF Max
<1>7. S \subseteq Nat
      OBVIOUS
<1>8. QED BY <1>6, <1>7

-----------------------------------------------------------------------------
(* The settings, and what is noted of their changes. *)

Values == Nat \cup {"random", "burst", "plc", "fec"}
Settings == [KnobNames -> Values]
Changes == [knob : KnobNames, old : Values, new : Values]
Notes == [row : Nat, change : Changes]

(* Notes on the way from a to b: what each says of its knob is so, and no    *)
(* knob in K is passed over.                                                 *)
Tells(s, a, b, K) ==
    /\ s \in Seq(Changes)
    /\ \A i \in 1..Len(s) : s[i].old = a[s[i].knob] /\ s[i].new = b[s[i].knob]
    /\ \A k \in K : a[k] # b[k] => \E i \in 1..Len(s) : s[i].knob = k

LEMMA ChangeTells ==
    ASSUME NEW a \in Settings, NEW b \in Settings, NEW k \in KnobNames
    PROVE  Tells(Change(a, b, k), a, b, {k})
<1>1. a[k] \in Values /\ b[k] \in Values
      BY DEF Settings
<1>2. CASE a[k] = b[k]
  <2>1. Change(a, b, k) = <<>>
        BY <1>2 DEF Change
  <2>2. QED BY <1>2, <2>1 DEF Tells
<1>3. CASE a[k] # b[k]
  <2>0. PICK c : c = [knob |-> k, old |-> a[k], new |-> b[k]]
        OBVIOUS
  <2>1. Change(a, b, k) = <<c>>
        BY <1>3, <2>0 DEF Change
  <2>2. c \in Changes /\ c.knob = k /\ c.old = a[k] /\ c.new = b[k]
        BY <1>1, <2>0 DEF Changes
  <2>3. QED BY <2>1, <2>2 DEF Tells
<1>4. QED BY <1>2, <1>3

LEMMA TellsBoth ==
    ASSUME NEW a, NEW b, NEW K, NEW L, NEW s, NEW t, Tells(s, a, b, K), Tells(t, a, b, L)
    PROVE  Tells(s \o t, a, b, K \cup L)
<1>0. PICK u : u = s \o t
      OBVIOUS
<1>1. /\ u \in Seq(Changes) /\ Len(u) = Len(s) + Len(t) /\ Len(s) \in Nat /\ Len(t) \in Nat
      /\ \A i \in 1..Len(s) : u[i] = s[i]
      /\ \A i \in 1..Len(t) : u[Len(s) + i] = t[i]
      BY <1>0 DEF Tells
<1>2. \A i \in 1..Len(u) : (i \in 1..Len(s) /\ u[i] = s[i])
                           \/ \E j \in 1..Len(t) : u[i] = t[j]
  <2> SUFFICES ASSUME NEW i \in 1..Len(u), i \notin 1..Len(s)
               PROVE  \E j \in 1..Len(t) : u[i] = t[j]
      BY <1>1
  <2>1. i - Len(s) \in 1..Len(t) /\ Len(s) + (i - Len(s)) = i
        BY <1>1
  <2>2. QED BY <1>1, <2>1
<1>3. \A i \in 1..Len(u) : u[i].old = a[u[i].knob] /\ u[i].new = b[u[i].knob]
      BY <1>2 DEF Tells
<1>4. ASSUME NEW k \in K \cup L, a[k] # b[k]
      PROVE  \E i \in 1..Len(u) : u[i].knob = k
  <2>1. CASE k \in K
    <3>1. PICK i \in 1..Len(s) : s[i].knob = k
          BY <1>4, <2>1 DEF Tells
    <3>2. i \in 1..Len(u)
          BY <1>1
    <3>3. QED BY <1>1, <3>1, <3>2
  <2>2. CASE k \in L
    <3>1. PICK i \in 1..Len(t) : t[i].knob = k
          BY <1>4, <2>2 DEF Tells
    <3>2. Len(s) + i \in 1..Len(u)
          BY <1>1
    <3>3. QED BY <1>1, <3>1, <3>2
  <2>3. QED BY <2>1, <2>2
<1>5. QED BY <1>0, <1>1, <1>3, <1>4 DEF Tells

LEMMA DifferencesTell ==
    ASSUME NEW a \in Settings, NEW b \in Settings
    PROVE  Tells(Differences(a, b), a, b, KnobNames)
<1> DEFINE c(k) == Change(a, b, k)
<1>0. \A k \in KnobNames : Tells(c(k), a, b, {k})
      BY ChangeTells
<1>a. /\ Tells(c("loss_pct"), a, b, {"loss_pct"}) /\ Tells(c("loss_model"), a, b, {"loss_model"})
      /\ Tells(c("burst_len"), a, b, {"burst_len"}) /\ Tells(c("repair"), a, b, {"repair"})
      /\ Tells(c("bitrate"), a, b, {"bitrate"})
      BY <1>0 DEF KnobNames
<1> HIDE DEF c
<1>1. Tells(c("loss_pct") \o c("loss_model"), a, b, {"loss_pct"} \cup {"loss_model"})
      BY <1>a, TellsBoth
<1>2. Tells((c("loss_pct") \o c("loss_model")) \o c("burst_len"), a, b,
            ({"loss_pct"} \cup {"loss_model"}) \cup {"burst_len"})
      BY <1>a, <1>1, TellsBoth
<1>3. Tells(((c("loss_pct") \o c("loss_model")) \o c("burst_len")) \o c("repair"), a, b,
            (({"loss_pct"} \cup {"loss_model"}) \cup {"burst_len"}) \cup {"repair"})
      BY <1>a, <1>2, TellsBoth
<1>4. Tells((((c("loss_pct") \o c("loss_model")) \o c("burst_len")) \o c("repair")) \o c("bitrate"),
            a, b, ((({"loss_pct"} \cup {"loss_model"}) \cup {"burst_len"}) \cup {"repair"})
                  \cup {"bitrate"})
      BY <1>a, <1>3, TellsBoth
<1>5. ((({"loss_pct"} \cup {"loss_model"}) \cup {"burst_len"}) \cup {"repair"}) \cup {"bitrate"}
      = KnobNames
      BY DEF KnobNames
<1>6. Differences(a, b) =
      (((c("loss_pct") \o c("loss_model")) \o c("burst_len")) \o c("repair")) \o c("bitrate")
      BY DEF Differences, c
<1>7. QED BY <1>4, <1>5, <1>6, Zenon

-----------------------------------------------------------------------------
(* Replayed and EventsExplainRows, of any history. *)

About(notes, k, n) == {i \in 1..Len(notes) : notes[i].change.knob = k /\ notes[i].row <= n}

Replay(start, notes, n) ==
    [k \in KnobNames |-> IF About(notes, k, n) = {} THEN start[k]
                         ELSE notes[Max(About(notes, k, n))].change.new]

Explain(start, notes, rows) ==
    \A n \in 1..Len(rows) :
        /\ Replay(start, notes, n) = rows[n]
        /\ \A i \in 1..Len(notes) :
              notes[i].row = n => Replay(start, notes, n - 1)[notes[i].change.knob]
                                   = notes[i].change.old

Known(rows, start) == IF rows = <<>> THEN start ELSE rows[Len(rows)]

(* Notes, and the new ones after them, noted with row N + 1. *)
Joined(notes, new, N, both) ==
    /\ notes \in Seq(Notes) /\ new \in Seq(Notes) /\ N \in Nat
    /\ \A i \in 1..Len(notes) : notes[i].row <= N
    /\ \A i \in 1..Len(new) : new[i].row = N + 1
    /\ both = notes \o new

LEMMA JoinedIs ==
    ASSUME NEW notes, NEW new, NEW N, NEW both, Joined(notes, new, N, both)
    PROVE  /\ Len(notes) \in Nat /\ Len(new) \in Nat /\ Len(both) = Len(notes) + Len(new)
           /\ both \in Seq(Notes)
           /\ \A i \in 1..Len(notes) : both[i] = notes[i] /\ both[i].row <= N /\ both[i].row \in Nat
           /\ \A j \in 1..Len(new) : both[Len(notes) + j] = new[j] /\ new[j].row = N + 1
           /\ \A i \in 1..Len(both) : i \in 1..Len(notes) \/ \E j \in 1..Len(new) : i = Len(notes) + j
<1>1. /\ Len(notes) \in Nat /\ Len(new) \in Nat /\ Len(both) = Len(notes) + Len(new)
      /\ both \in Seq(Notes)
      /\ \A i \in 1..Len(notes) : both[i] = notes[i]
      /\ \A j \in 1..Len(new) : both[Len(notes) + j] = new[j]
      BY DEF Joined
<1>2. \A i \in 1..Len(notes) : notes[i].row \in Nat
  <2>1. \A i \in 1..Len(notes) : notes[i] \in Notes
        BY DEF Joined
  <2>2. \A e \in Notes : e.row \in Nat
        BY DEF Notes
  <2>3. QED BY <2>1, <2>2
<1>3. ASSUME NEW i \in 1..Len(both), i \notin 1..Len(notes)
      PROVE  \E j \in 1..Len(new) : i = Len(notes) + j
  <2>1. i - Len(notes) \in 1..Len(new) /\ i = Len(notes) + (i - Len(notes))
        BY <1>1, <1>3
  <2>2. QED BY <2>1
<1>4. QED BY <1>1, <1>2, <1>3 DEF Joined

LEMMA AboutOld ==
    ASSUME NEW notes, NEW new, NEW N, NEW both, Joined(notes, new, N, both),
           NEW k, NEW n \in Int, n <= N
    PROVE  About(both, k, n) = About(notes, k, n)
<1>1. N \in Nat
      BY DEF Joined
<1>2. /\ Len(notes) \in Nat /\ Len(new) \in Nat /\ Len(both) = Len(notes) + Len(new)
      /\ \A i \in 1..Len(notes) : both[i] = notes[i]
      /\ \A j \in 1..Len(new) : both[Len(notes) + j] = new[j] /\ new[j].row = N + 1
      /\ \A i \in 1..Len(both) : i \in 1..Len(notes) \/ \E j \in 1..Len(new) : i = Len(notes) + j
      BY JoinedIs
<1>3. \A i \in 1..Len(both) : both[i].row <= n => i \in 1..Len(notes)
  <2> SUFFICES ASSUME NEW i \in 1..Len(both), both[i].row <= n, i \notin 1..Len(notes)
               PROVE  FALSE
      OBVIOUS
  <2>a. PICK j \in 1..Len(new) : i = Len(notes) + j
        BY <1>2
  <2>1. both[i].row = N + 1
        BY <1>2, <2>a
  <2>2. ~(N + 1 <= n)
        BY <1>1
  <2>3. QED BY <2>1, <2>2
<1>4. \A i \in 1..Len(notes) : i \in 1..Len(both)
      BY <1>2
<1>5. QED BY <1>2, <1>3, <1>4 DEF About

LEMMA ReplayOld ==
    ASSUME NEW notes, NEW new, NEW N, NEW both, Joined(notes, new, N, both),
           NEW start, NEW n \in Int, n <= N
    PROVE  Replay(start, both, n) = Replay(start, notes, n)
<1> SUFFICES ASSUME NEW k \in KnobNames, About(notes, k, n) # {}
             PROVE  both[Max(About(notes, k, n))] = notes[Max(About(notes, k, n))]
  <2>1. \A k \in KnobNames : About(both, k, n) = About(notes, k, n)
        BY AboutOld
  <2>2. QED BY <2>1 DEF Replay
<1>1. About(notes, k, n) \subseteq 1..Len(notes) /\ Len(notes) \in Nat
      BY JoinedIs DEF About
<1>2. Max(About(notes, k, n)) \in 1..Len(notes)
      BY <1>1, MaxIsIn
<1>3. QED BY <1>2, JoinedIs

(* The new notes mention k, and give it the value v. *)
NotedAs(new, k, v) ==
    /\ \E j \in 1..Len(new) : new[j].change.knob = k
    /\ \A j \in 1..Len(new) : new[j].change.knob = k => new[j].change.new = v

LEMMA ReplayNoted ==
    ASSUME NEW notes, NEW new, NEW N, NEW both, Joined(notes, new, N, both),
           NEW start, NEW k \in KnobNames, NEW v,
           NotedAs(new, k, v)
    PROVE  Replay(start, both, N + 1)[k] = v
<1> DEFINE A == About(both, k, N + 1)
<1>1. /\ Len(notes) \in Nat /\ Len(new) \in Nat /\ Len(both) = Len(notes) + Len(new)
      /\ \A j \in 1..Len(new) : both[Len(notes) + j] = new[j] /\ new[j].row = N + 1
      /\ \A i \in 1..Len(both) : i \in 1..Len(notes) \/ \E j \in 1..Len(new) : i = Len(notes) + j
      BY JoinedIs
<1>2. PICK j \in 1..Len(new) : new[j].change.knob = k
      BY DEF NotedAs
<1>3. Len(notes) + j \in A
  <2>1. Len(notes) + j \in 1..Len(both)
        BY <1>1
  <2>2. N + 1 <= N + 1
        BY DEF Joined
  <2>3. QED BY <1>1, <1>2, <2>1, <2>2 DEF About
<1>4. A \subseteq 1..Len(both) /\ A # {} /\ Len(both) \in Nat
  <2>1. A \subseteq 1..Len(both)
        BY DEF About
  <2>2. QED BY <1>1, <1>3, <2>1
<1>5. PICK m : m = Max(A)
      OBVIOUS
<1> HIDE DEF A
<1>6. m \in A /\ \A i \in A : i <= m
      BY <1>4, <1>5, MaxIsIn
<1>7. PICK l \in 1..Len(new) : m = Len(notes) + l
  <2>1. m \in 1..Len(both) /\ Len(notes) + j <= m
        BY <1>3, <1>4, <1>6
  <2>2. m \notin 1..Len(notes)
        BY <1>1, <2>1
  <2>3. QED BY <1>1, <2>1, <2>2
<1>8. both[m].change.knob = k
      BY <1>6 DEF A, About
<1>9. both[m].change.new = v
      BY <1>1, <1>7, <1>8 DEF NotedAs
<1>10. QED BY <1>4, <1>5, <1>9 DEF Replay, A

LEMMA ReplayUnnoted ==
    ASSUME NEW notes, NEW new, NEW N, NEW both, Joined(notes, new, N, both),
           NEW start, NEW k \in KnobNames,
           \A j \in 1..Len(new) : new[j].change.knob # k
    PROVE  Replay(start, both, N + 1)[k] = Replay(start, notes, N)[k]
<1>1. /\ Len(notes) \in Nat /\ Len(new) \in Nat /\ Len(both) = Len(notes) + Len(new) /\ N \in Nat
      /\ \A i \in 1..Len(notes) : both[i] = notes[i] /\ both[i].row <= N /\ both[i].row \in Nat
      /\ \A j \in 1..Len(new) : both[Len(notes) + j] = new[j] /\ new[j].row = N + 1
      /\ \A i \in 1..Len(both) : i \in 1..Len(notes) \/ \E j \in 1..Len(new) : i = Len(notes) + j
  <2>1. N \in Nat
        BY DEF Joined
  <2>2. QED BY <2>1, JoinedIs
<1>2. About(both, k, N + 1) = About(notes, k, N)
  <2>1. \A i \in 1..Len(both) : both[i].change.knob = k => i \in 1..Len(notes)
    <3> SUFFICES ASSUME NEW i \in 1..Len(both), both[i].change.knob = k, i \notin 1..Len(notes)
                 PROVE  FALSE
        OBVIOUS
    <3>1. PICK j \in 1..Len(new) : i = Len(notes) + j
          BY <1>1
    <3>2. new[j].change.knob = k
          BY <1>1, <3>1
    <3>3. QED BY <3>2
  <2>2. \A i \in 1..Len(notes) : i \in 1..Len(both) /\ both[i].row <= N + 1 /\ notes[i].row <= N
    <3> SUFFICES ASSUME NEW i \in 1..Len(notes)
                 PROVE  i \in 1..Len(both) /\ both[i].row <= N + 1 /\ notes[i].row <= N
        OBVIOUS
    <3>1. both[i].row <= N + 1
      <4>1. PICK r \in Nat : r = both[i].row
            BY <1>1
      <4>2. r <= N /\ N \in Nat
            BY <1>1, <4>1
      <4>3. r <= N + 1
            BY <4>2
      <4>4. QED BY <4>1, <4>3
    <3>2. i \in 1..Len(both)
          BY <1>1
    <3>3. QED BY <1>1, <3>1, <3>2
  <2>3. QED BY <1>1, <2>1, <2>2 DEF About
<1>3. CASE About(notes, k, N) = {}
      BY <1>2, <1>3 DEF Replay
<1>4. CASE About(notes, k, N) # {}
  <2>1. About(notes, k, N) \subseteq 1..Len(notes)
        BY DEF About
  <2>2. Max(About(notes, k, N)) \in 1..Len(notes)
        BY <1>1, <1>4, <2>1, MaxIsIn
  <2>3. both[Max(About(notes, k, N))] = notes[Max(About(notes, k, N))]
        BY <1>1, <2>2
  <2>4. QED BY <1>2, <1>4, <2>3 DEF Replay
<1>5. QED BY <1>3, <1>4

Rows == Seq(Settings)

(* What a call's telemetry has, after any number of samples. *)
History(start, rows, notes) ==
    /\ start \in Settings /\ rows \in Rows /\ notes \in Seq(Notes)
    /\ \A i \in 1..Len(notes) : notes[i].row \in 1..Len(rows)
    /\ Explain(start, notes, rows)

LEMMA ReplayIsKnown ==
    ASSUME NEW start, NEW rows, NEW notes, History(start, rows, notes)
    PROVE  Replay(start, notes, Len(rows)) = Known(rows, start)
<1>1. Len(rows) \in Nat
      BY DEF History, Rows
<1>2. CASE rows = <<>>
  <2>1. Len(rows) = 0
        BY <1>2
  <2>2. \A k \in KnobNames : About(notes, k, 0) = {}
    <3> SUFFICES ASSUME NEW k \in KnobNames, NEW i \in 1..Len(notes), notes[i].row <= 0
                 PROVE  FALSE
        BY DEF About
    <3>1. notes[i].row \in 1..0
          BY <2>1 DEF History
    <3>2. QED BY <3>1
  <2>3. Replay(start, notes, 0) = [k \in KnobNames |-> start[k]]
        BY <2>2 DEF Replay
  <2>4. start = [k \in KnobNames |-> start[k]]
        BY DEF History, Settings
  <2>5. QED BY <1>2, <2>1, <2>3, <2>4 DEF Known
<1>3. CASE rows # <<>>
  <2>1. Len(rows) \in 1..Len(rows)
    <3>1. rows \in Seq(Settings)
          BY DEF History, Rows
    <3>2. QED BY <1>3, <3>1
  <2>2. QED BY <1>3, <2>1 DEF History, Explain, Known
<1>4. QED BY <1>2, <1>3

(* The changes d, noted with a row. *)
Stamped(d, row, new) == new = [i \in DOMAIN d |-> [row |-> row, change |-> d[i]]]

(* A sample appends a row with the changes since the row before. *)
LEMMA HistoryGrows ==
    ASSUME NEW start, NEW rows, NEW notes, History(start, rows, notes),
           NEW cur \in Settings, NEW d, Tells(d, Known(rows, start), cur, KnobNames),
           NEW new, Stamped(d, Len(rows) + 1, new)
    PROVE  History(start, Append(rows, cur), notes \o new)
<1>1. PICK both : both = notes \o new
      OBVIOUS
<1>2. PICK N : N = Len(rows)
      OBVIOUS
<1>3. PICK more : more = Append(rows, cur)
      OBVIOUS
<1>4. PICK known : known = Known(rows, start)
      OBVIOUS
<1>5. /\ start \in Settings /\ rows \in Rows /\ notes \in Seq(Notes) /\ N \in Nat
      BY <1>2 DEF History, Rows
<1>6. /\ more \in Rows /\ Len(more) = N + 1 /\ more[N + 1] = cur
      /\ \A n \in 1..N : more[n] = rows[n]
      BY <1>2, <1>3, <1>5 DEF Rows
<1>7. /\ new \in Seq(Notes) /\ Len(new) = Len(d) /\ Len(d) \in Nat
      /\ \A i \in 1..Len(d) : new[i].row = N + 1 /\ new[i].change = d[i]
  <2>1. d \in Seq(Changes) /\ DOMAIN d = 1..Len(d) /\ Len(d) \in Nat
        BY DEF Tells
  <2>2. \A i \in 1..Len(d) : new[i] = [row |-> N + 1, change |-> d[i]]
        BY <1>2, <2>1 DEF Stamped
  <2>3. \A i \in 1..Len(d) : new[i] \in Notes
    <3>1. \A i \in 1..Len(d) : d[i] \in Changes
          BY <2>1
    <3>2. N + 1 \in Nat
          BY <1>5
    <3>3. \A c \in Changes : [row |-> N + 1, change |-> c] \in Notes
          BY <3>2 DEF Notes
    <3>4. QED BY <2>2, <3>1, <3>3
  <2>4. new = [i \in 1..Len(d) |-> new[i]]
        BY <2>1 DEF Stamped
  <2>5. new \in Seq(Notes) /\ Len(new) = Len(d)
        BY <2>1, <2>3, <2>4
  <2>6. \A i \in 1..Len(d) : new[i].row = N + 1 /\ new[i].change = d[i]
    <3> SUFFICES ASSUME NEW i \in 1..Len(d)
                 PROVE  new[i].row = N + 1 /\ new[i].change = d[i]
        OBVIOUS
    <3>1. new[i] = [row |-> N + 1, change |-> d[i]]
          BY <2>2
    <3>2. QED BY <3>1
  <2>7. QED BY <2>1, <2>5, <2>6
<1>8. \A i \in 1..Len(notes) : notes[i].row \in 1..N
      BY <1>2 DEF History
<1>9. Joined(notes, new, N, both)
  <2>1. \A i \in 1..Len(notes) : notes[i].row <= N
        BY <1>5, <1>8
  <2>2. QED BY <1>1, <1>5, <1>7, <2>1 DEF Joined
<1>10. /\ both \in Seq(Notes) /\ Len(notes) \in Nat
       /\ \A i \in 1..Len(notes) : both[i] = notes[i]
       /\ \A j \in 1..Len(new) : both[Len(notes) + j] = new[j]
       /\ \A i \in 1..Len(both) : i \in 1..Len(notes) \/ \E j \in 1..Len(new) : i = Len(notes) + j
       BY <1>9, JoinedIs
<1>11. \A i \in 1..Len(both) : both[i].row \in 1..Len(more)
  <2> SUFFICES ASSUME NEW i \in 1..Len(both) PROVE both[i].row \in 1..(N + 1)
      BY <1>6
  <2>1. CASE i \in 1..Len(notes)
    <3>1. both[i].row \in 1..N
          BY <1>8, <1>10, <2>1
    <3>2. QED BY <1>5, <3>1
  <2>2. CASE i \notin 1..Len(notes)
    <3>1. PICK j \in 1..Len(new) : i = Len(notes) + j
          BY <1>10, <2>2
    <3>a. j \in 1..Len(d) /\ both[i] = new[j]
          BY <1>7, <1>10, <3>1
    <3>2. both[i].row = N + 1
          BY <1>7, <3>a
    <3>3. N + 1 \in 1..(N + 1)
          BY <1>5
    <3>4. QED BY <3>2, <3>3
  <2>3. QED BY <2>1, <2>2
<1>12. Replay(start, notes, N) = known
       BY <1>2, <1>4, ReplayIsKnown
<1>13. known \in Settings
  <2>1. rows # <<>> => rows[Len(rows)] \in Settings
        BY <1>5 DEF Rows
  <2>2. QED BY <1>4, <1>5, <2>1 DEF Known
<1>14. \A n \in Int : n <= N => Replay(start, both, n) = Replay(start, notes, n)
       BY <1>9, ReplayOld
<1>15. Tells(d, known, cur, KnobNames)
       BY <1>4
<1>16. Replay(start, both, N + 1) = cur
  <2>1. \A k \in KnobNames : Replay(start, both, N + 1)[k] = cur[k]
    <3> SUFFICES ASSUME NEW k \in KnobNames
                 PROVE  Replay(start, both, N + 1)[k] = cur[k]
        OBVIOUS
    <3>1. CASE \E j \in 1..Len(new) : new[j].change.knob = k
      <4>1. \A j \in 1..Len(new) : new[j].change.knob = k => new[j].change.new = cur[k]
            BY <1>7, <1>15 DEF Tells
      <4>2. PICK v : v = cur[k]
            OBVIOUS
      <4>3. \A j \in 1..Len(new) : new[j].change.knob = k => new[j].change.new = v
            BY <4>1, <4>2
      <4>a. NotedAs(new, k, v)
            BY <3>1, <4>3 DEF NotedAs
      <4>4. Replay(start, both, N + 1)[k] = v
            BY <1>9, <4>a, ReplayNoted
      <4>5. QED BY <4>2, <4>4
    <3>2. CASE \A j \in 1..Len(new) : new[j].change.knob # k
      <4>1. Replay(start, both, N + 1)[k] = Replay(start, notes, N)[k]
            BY <1>9, <3>2, ReplayUnnoted
      <4>2. \A j \in 1..Len(d) : d[j].knob # k
            BY <1>7, <3>2
      <4>3. known[k] = cur[k]
            BY <1>15, <4>2 DEF Tells
      <4>4. QED BY <1>12, <4>1, <4>3
    <3>3. QED BY <3>1, <3>2
  <2>2. Replay(start, both, N + 1) = [k \in KnobNames |-> Replay(start, both, N + 1)[k]]
        BY DEF Replay
  <2>3. cur = [k \in KnobNames |-> cur[k]]
        BY DEF Settings
  <2>4. QED BY <2>1, <2>2, <2>3
<1>17. ASSUME NEW n \in 1..Len(more)
       PROVE  Replay(start, both, n) = more[n]
  <2>1. CASE n \in 1..N
    <3>1. Replay(start, notes, n) = rows[n]
          BY <1>2, <2>1 DEF History, Explain
    <3>2. n \in Int /\ n <= N
          BY <1>5, <2>1
    <3>3. QED BY <1>6, <1>14, <2>1, <3>1, <3>2
  <2>2. CASE n = N + 1
        BY <1>6, <1>16, <2>2
  <2>3. n \in 1..N \/ n = N + 1
        BY <1>5, <1>6
  <2>4. QED BY <2>1, <2>2, <2>3
<1>18. ASSUME NEW n \in 1..Len(more), NEW i \in 1..Len(both), both[i].row = n
       PROVE  Replay(start, both, n - 1)[both[i].change.knob] = both[i].change.old
  <2>1. CASE i \in 1..Len(notes)
    <3>1. both[i] = notes[i] /\ n \in 1..N
          BY <1>8, <1>10, <1>18, <2>1
    <3>2. Replay(start, notes, n - 1)[notes[i].change.knob] = notes[i].change.old
          BY <1>2, <1>18, <2>1, <3>1 DEF History, Explain
    <3>3. n - 1 \in Int /\ n - 1 <= N
          BY <1>5, <3>1
    <3>4. Replay(start, both, n - 1) = Replay(start, notes, n - 1)
          BY <1>14, <3>3
    <3>5. QED BY <3>1, <3>2, <3>4
  <2>2. CASE i \notin 1..Len(notes)
    <3>1. PICK j \in 1..Len(new) : i = Len(notes) + j
          BY <1>10, <2>2
    <3>a. j \in 1..Len(d) /\ both[i] = new[j]
          BY <1>7, <1>10, <3>1
    <3>2. both[i].row = N + 1 /\ both[i].change = d[j]
          BY <1>7, <3>a
    <3>3. n - 1 = N
          BY <1>5, <1>18, <3>2
    <3>4. N \in Int /\ N <= N
          BY <1>5
    <3>5. Replay(start, both, N) = known
          BY <1>12, <1>14, <3>4
    <3>6. d[j].old = known[d[j].knob]
          BY <1>15, <3>a DEF Tells
    <3>7. QED BY <3>2, <3>3, <3>5, <3>6
  <2>3. QED BY <2>1, <2>2
<1>19. Explain(start, both, more)
       BY <1>17, <1>18 DEF Explain
<1>20. History(start, more, both)
       BY <1>5, <1>6, <1>10, <1>11, <1>19 DEF History
<1>21. QED BY <1>1, <1>3, <1>20

-----------------------------------------------------------------------------
(* The telemetry. *)

SamplesInv ==
    /\ knobs \in Settings
    /\ samples = [on |-> samples.on, start |-> samples.start, last |-> samples.last,
                  rows |-> samples.rows, events |-> samples.events]
    /\ samples.last = Known(samples.rows, samples.start)
    /\ History(samples.start, samples.rows, samples.events)

LEMMA NewHistory ==
    ASSUME NEW start \in Settings
    PROVE  History(start, <<>>, <<>>) /\ Known(<<>>, start) = start
<1>1. <<>> \in Rows /\ <<>> \in Seq(Notes) /\ 1..Len(<<>>) = {}
      BY DEF Rows
<1>2. QED BY <1>1 DEF History, Explain, Known

LEMMA DefaultsAreSettings == Defaults \in Settings
<1>1. Defaults = [k \in KnobNames |-> Defaults[k]]
      BY DEF Defaults, KnobNames
<1>2. Defaults["loss_pct"] \in Values /\ Defaults["loss_model"] \in Values
      /\ Defaults["burst_len"] \in Values /\ Defaults["bitrate"] \in Values
      /\ Defaults["repair"] \in Values
      BY DEF Defaults, Values
<1>3. \A k \in KnobNames : Defaults[k] \in Values
      BY <1>2 DEF KnobNames
<1>4. QED BY <1>1, <1>3 DEF Settings

LEMMA SettingsSet ==
    ASSUME NEW v \in Settings, NEW k, NEW x \in Values
    PROVE  [v EXCEPT ![k] = x] \in Settings
BY DEF Settings

LEMMA ToKnobValue ==
    ASSUME NEW k, NEW p \in Nat
    PROVE  ToKnob(k, p) \in Values
<1>1. Rounded(p) \in Nat /\ 1000 * Rounded(p) \in Nat
      BY DEF Rounded
<1>2. ToKnob(k, p) \in Nat
      BY <1>1 DEF ToKnob
<1>3. QED BY <1>2 DEF Values

LEMMA PresetSettings ==
    ASSUME NEW v \in Settings, NEW name \in DOMAIN Presets
    PROVE  Updated(v, PresetValues(name)) \in Settings
<1>1. PICK P : P = Presets[name]
      OBVIOUS
<1>2. /\ DOMAIN P \subseteq NetworkKnobs
      /\ \A k \in DOMAIN P : P[k] \in Values
  <2>1. name \in {"Clean", "BadWiFi", "BurstLoss"}
        BY DEF Presets
  <2>2. CASE name = "Clean"
    <3>1. P = [k \in {} |-> 0]
          BY <1>1, <2>2 DEF Presets
    <3>2. QED BY <3>1
  <2>3. CASE name = "BadWiFi"
    <3>1. P = [loss_pct |-> 5]
          BY <1>1, <2>3 DEF Presets
    <3>2. QED BY <3>1 DEF NetworkKnobs, Values
  <2>4. CASE name = "BurstLoss"
    <3>1. P = [loss_pct |-> 10, loss_model |-> "burst", burst_len |-> 4]
          BY <1>1, <2>4 DEF Presets
    <3>2. DOMAIN P = {"loss_pct", "loss_model", "burst_len"}
          /\ P["loss_pct"] = 10 /\ P["loss_model"] = "burst" /\ P["burst_len"] = 4
          BY <3>1
    <3>3. QED BY <3>2 DEF NetworkKnobs, Values
  <2>5. QED BY <2>1, <2>2, <2>3, <2>4
<1>3. PICK D : D = [k \in NetworkKnobs |-> Defaults[k]]
      OBVIOUS
<1>4. DOMAIN D = NetworkKnobs /\ \A k \in NetworkKnobs : D[k] \in Values
  <2>1. \A k \in NetworkKnobs : Defaults[k] \in Values
        BY DefaultsAreSettings DEF Settings, NetworkKnobs, KnobNames
  <2>2. QED BY <1>3, <2>1
<1>5. PICK V : V = PresetValues(name)
      OBVIOUS
<1>6. DOMAIN V = NetworkKnobs /\ \A k \in NetworkKnobs : V[k] \in Values
  <2>1. V = [k \in DOMAIN D \cup DOMAIN P |-> IF k \in DOMAIN P THEN P[k] ELSE D[k]]
        BY <1>1, <1>3, <1>5 DEF PresetValues, Updated
  <2>2. DOMAIN D \cup DOMAIN P = NetworkKnobs
        BY <1>2, <1>4
  <2>3. QED BY <1>2, <1>4, <2>1, <2>2
<1>7. Updated(v, V) = [k \in KnobNames |-> IF k \in NetworkKnobs THEN V[k] ELSE v[k]]
  <2>1. DOMAIN v \cup DOMAIN V = KnobNames
        BY <1>6 DEF Settings, KnobNames, NetworkKnobs
  <2>2. QED BY <1>6, <2>1 DEF Updated
<1>8. \A k \in KnobNames : v[k] \in Values
      BY DEF Settings
<1>9. Updated(v, V) \in Settings
      BY <1>6, <1>7, <1>8 DEF Settings
<1>10. QED BY <1>5, <1>9

LEMMA TurnsKeepSettings ==
    ASSUME knobs \in Settings, Turns
    PROVE  knobs' \in Settings /\ samples' = samples
<1>1. LossPositions \subseteq Nat /\ RatePositions \subseteq Nat
      BY PanelAssumption
<1>2. ASSUME NEW k, NEW p \in Nat, MoveSlider(k, p)
      PROVE  knobs' \in Settings /\ samples' = samples
  <2>1. knobs' = [knobs EXCEPT ![k] = ToKnob(k, p)] /\ samples' = samples
        BY <1>2 DEF MoveSlider, KeepSession
  <2>2. QED BY <2>1, ToKnobValue, SettingsSet
<1>3. ASSUME NEW r \in {"plc", "fec"}, OnRepair(r)
      PROVE  knobs' \in Settings /\ samples' = samples
  <2>1. knobs' = [knobs EXCEPT !["repair"] = r] /\ samples' = samples /\ r \in Values
        BY <1>3 DEF OnRepair, KeepSession, Values
  <2>2. QED BY <2>1, SettingsSet
<1>4. ASSUME NEW m \in {"random", "burst"}, OnModel(m)
      PROVE  knobs' \in Settings /\ samples' = samples
  <2>1. knobs' = [knobs EXCEPT !["loss_model"] = m] /\ samples' = samples /\ m \in Values
        BY <1>4 DEF OnModel, KeepSession, Values
  <2>2. QED BY <2>1, SettingsSet
<1>5. ASSUME NEW n \in DOMAIN Presets, ApplyPreset(n)
      PROVE  knobs' \in Settings /\ samples' = samples
      BY <1>5, PresetSettings DEF ApplyPreset, KeepSession
<1>6. QED BY <1>1, <1>2, <1>3, <1>4, <1>5 DEF Turns

LEMMA SampledKeeps ==
    ASSUME SamplesInv, NEW on, Sampled(on), knobs' = knobs
    PROVE  SamplesInv'
<1>1. PICK d : d = Differences(samples.last, knobs)
      OBVIOUS
<1>2. PICK new : Stamped(d, Len(samples.rows) + 1, new)
      BY DEF Stamped
<1>3. samples' = [samples EXCEPT !.on = on, !.rows = Append(@, knobs),
                                 !.events = @ \o new, !.last = knobs]
      BY <1>1, <1>2 DEF Sampled, Seen, Stamped
<1>4. /\ samples' = [on |-> on, start |-> samples.start, last |-> knobs,
                     rows |-> Append(samples.rows, knobs), events |-> samples.events \o new]
  <2>1. samples = [on |-> samples.on, start |-> samples.start, last |-> samples.last,
                  rows |-> samples.rows, events |-> samples.events]
        BY DEF SamplesInv
  <2>2. QED BY <1>3, <2>1
<1>5. samples.last = Known(samples.rows, samples.start) /\ samples.last \in Settings
      /\ samples.start \in Settings /\ samples.rows \in Seq(Settings) /\ knobs \in Settings
      /\ History(samples.start, samples.rows, samples.events)
  <2>1. samples.rows # <<>> => samples.rows[Len(samples.rows)] \in Settings
        BY DEF SamplesInv, History, Rows
  <2>2. QED BY <2>1 DEF SamplesInv, History, Rows, Known
<1>6. Tells(d, samples.last, knobs, KnobNames)
      BY <1>1, <1>5, DifferencesTell
<1>7. Tells(d, Known(samples.rows, samples.start), knobs, KnobNames)
      BY <1>5, <1>6
<1>8. History(samples.start, Append(samples.rows, knobs), samples.events \o new)
      BY <1>2, <1>5, <1>7, HistoryGrows
<1>9. Known(Append(samples.rows, knobs), samples.start) = knobs
  <2>1. PICK rows \in Seq(Settings) : rows = samples.rows
        BY <1>5
  <2>2. Append(rows, knobs) # <<>> /\ Append(rows, knobs)[Len(Append(rows, knobs))] = knobs
        BY <1>5, <2>1
  <2>3. QED BY <2>1, <2>2 DEF Known
<1>10. QED BY <1>4, <1>5, <1>8, <1>9 DEF SamplesInv

LEMMA SamplesStep ==
    ASSUME SamplesInv, [WNext]_<<side, vars, panelVars>>
    PROVE  SamplesInv'
<1>1. CASE UNCHANGED <<knobs, samples>>
      BY <1>1 DEF SamplesInv
<1>2. CASE Turns
      BY <1>2, TurnsKeepSettings DEF SamplesInv
<1>3. CASE BeginSampling
  <2>1. samples' = [on |-> TRUE, start |-> knobs, last |-> knobs, rows |-> <<>>, events |-> <<>>]
        /\ knobs' = knobs
        BY <1>3 DEF BeginSampling
  <2>2. History(knobs, <<>>, <<>>) /\ Known(<<>>, knobs) = knobs /\ knobs \in Settings
        BY NewHistory DEF SamplesInv
  <2>3. QED BY <2>1, <2>2 DEF SamplesInv
<1>4. CASE Sample
      BY <1>4, SampledKeeps DEF Sample
<1>5. CASE FinishSampling
      BY <1>5, SampledKeeps DEF FinishSampling
<1>6. CASE BeginExport \/ CancelExport \/ CopySession \/ ExportThread \/ ExportReported
      BY <1>1, <1>6 DEF BeginExport, CancelExport, CopySession, ExportThread, ExportReported,
         WriteTimeline, WriteSummary, WriteCharts, ExportFails, Writes, KeepWindow
<1>7. UNCHANGED panelVars => UNCHANGED <<knobs, samples>>
      BY DEF panelVars
<1>8. QED BY <1>1, <1>2, <1>3, <1>4, <1>5, <1>6, <1>7 DEF WNext, PanelNext

LEMMA SamplesAlways == WSpec => []SamplesInv
<1>1. WInit => SamplesInv
  <2> SUFFICES ASSUME PanelInit PROVE SamplesInv
      BY DEF WInit
  <2>1. samples = [on |-> FALSE, start |-> Defaults, last |-> Defaults, rows |-> <<>>, events |-> <<>>]
        /\ knobs = Defaults
        BY DEF PanelInit, NoSamples
  <2>2. QED BY <2>1, DefaultsAreSettings, NewHistory DEF SamplesInv
<1>2. QED BY <1>1, SamplesStep, PTL DEF WSpec

(* For any number of rows, turns and calls, every change of a knob between   *)
(* two samples is noted once, with the value it replaced: a row's settings   *)
(* are those that the events up to it lead to (telemetry.py:101-110).       *)
THEOREM EventsTellTheRows == WSpec => []EventsExplainRows
<1>1. SamplesInv => EventsExplainRows
  <2> SUFFICES ASSUME SamplesInv PROVE EventsExplainRows
      OBVIOUS
  <2>1. /\ DOMAIN samples.start = KnobNames
        /\ DOMAIN samples.rows = 1..Len(samples.rows)
        /\ DOMAIN samples.events = 1..Len(samples.events)
        BY DEF SamplesInv, History, Rows, Settings
  <2>2. \A k, n : Noted(k, n) = About(samples.events, k, n)
        BY <2>1 DEF Noted, About
  <2>3. \A n : Replayed(n) = Replay(samples.start, samples.events, n)
        BY <2>1, <2>2 DEF Replayed, Replay
  <2>4. Explain(samples.start, samples.events, samples.rows)
        BY DEF SamplesInv, History
  <2>5. QED BY <2>1, <2>3, <2>4 DEF Explain, EventsExplainRows
<1>2. QED BY <1>1, SamplesAlways, PTL

-----------------------------------------------------------------------------
(* What FlattenSeq makes of a sequence of segments. *)
Flat(s) == FlattenSeq(s)

(* The function by which FlattenSeq is defined. *)
Flattens(f, s) ==
    f = [i \in 1..Len(s) |-> IF i = 1 THEN s[i] ELSE f[i - 1] \o s[i]]

LEMMA FlattensUpTo ==
    ASSUME NEW s
    PROVE  \A n \in Nat : \E f : f = [i \in 1..n |-> IF i = 1 THEN s[i] ELSE f[i - 1] \o s[i]]
<1> DEFINE P(n) == \E f : f = [i \in 1..n |-> IF i = 1 THEN s[i] ELSE f[i - 1] \o s[i]]
           N == {n \in Nat : ~P(n)}
<1> SUFFICES N = {}
    OBVIOUS
<1> SUFFICES ASSUME N # {} PROVE FALSE
    OBVIOUS
<1>1. PICK n \in N : \A m \in Nat : m < n => m \notin N
  <2>1. N \subseteq Nat
        OBVIOUS
  <2> HIDE DEF N
  <2>2. QED BY <2>1, LeastNat
<1>2. n # 0
  <2> DEFINE f == [i \in 1..0 |-> s[1]]
  <2>1. f = [i \in 1..0 |-> IF i = 1 THEN s[i] ELSE f[i - 1] \o s[i]]
        OBVIOUS
  <2> HIDE DEF f
  <2>2. P(0)
        BY <2>1
  <2>3. QED BY <2>2
<1>3. n - 1 \in Nat /\ n \in Nat /\ n - 1 < n
      BY <1>2
<1>4. PICK f : f = [i \in 1..(n - 1) |-> IF i = 1 THEN s[i] ELSE f[i - 1] \o s[i]]
      BY <1>1, <1>3
<1> DEFINE g == [i \in 1..n |-> IF i = 1 THEN s[i] ELSE f[i - 1] \o s[i]]
<1>5. \A i \in 1..n : g[i] = IF i = 1 THEN s[i] ELSE f[i - 1] \o s[i]
      OBVIOUS
<1>6. g = [i \in 1..n |-> g[i]]
      OBVIOUS
<1> HIDE DEF g
<1>7. \A i \in 1..(n - 1) : g[i] = f[i]
  <2> DEFINE rhs(i) == IF i = 1 THEN s[i] ELSE f[i - 1] \o s[i]
  <2>1. f = [i \in 1..(n - 1) |-> rhs(i)] /\ \A i \in 1..n : g[i] = rhs(i)
        BY <1>4, <1>5
  <2> HIDE DEF rhs
  <2>2. \A i \in 1..(n - 1) : f[i] = rhs(i)
        BY <2>1
  <2>3. QED BY <1>3, <2>1, <2>2
<1>8. \A i \in 1..n : g[i] = IF i = 1 THEN s[i] ELSE g[i - 1] \o s[i]
  <2> SUFFICES ASSUME NEW i \in 1..n, i # 1
               PROVE  g[i] = g[i - 1] \o s[i]
      BY <1>5
  <2>1. i - 1 \in 1..(n - 1)
        BY <1>3
  <2>2. QED BY <1>5, <1>7, <2>1
<1>9. g = [i \in 1..n |-> IF i = 1 THEN s[i] ELSE g[i - 1] \o s[i]]
      BY <1>6, <1>8
<1>10. P(n)
      BY <1>9
<1>11. QED BY <1>1, <1>10

LEMMA FlatByFunction ==
    ASSUME NEW s \in Seq(Rows)
    PROVE  \E f : Flattens(f, s) /\ Flat(s) = IF s = <<>> THEN <<>> ELSE f[Len(s)]
<1> DEFINE flatten[i \in 1..Len(s)] == IF i = 1 THEN s[i] ELSE flatten[i - 1] \o s[i]
           Q(h) == h = [i \in 1..Len(s) |-> IF i = 1 THEN s[i] ELSE h[i - 1] \o s[i]]
<1>1. Flat(s) = IF Len(s) = 0 THEN s ELSE flatten[Len(s)]
      BY DEF Flat, FlattenSeq
<1>2. flatten = CHOOSE h : Q(h)
      BY DEF flatten
<1>3. \E h : Q(h)
  <2>1. Len(s) \in Nat
        OBVIOUS
  <2>2. QED BY <2>1, FlattensUpTo, Zenon
<1>4. \A h : Q(h) <=> Flattens(h, s)
      BY DEF Flattens
<1>5. Len(s) = 0 <=> s = <<>>
      OBVIOUS
<1> HIDE DEF flatten, Q
<1>6. Q(flatten)
      BY <1>2, <1>3
<1>7. QED BY <1>1, <1>4, <1>5, <1>6

LEMMA AppendIs ==
    ASSUME NEW S, NEW s \in Seq(S), NEW x \in S, NEW t, t = Append(s, x)
    PROVE  /\ t \in Seq(S) /\ Len(t) = Len(s) + 1 /\ t # <<>> /\ Len(s) \in Nat
           /\ \A i \in 1..Len(s) : t[i] = s[i]
           /\ t[Len(s) + 1] = x
OBVIOUS

(* f[i] is what the first i segments are together. *)
LEMMA FlattenTypes ==
    ASSUME NEW s \in Seq(Rows), NEW f, Flattens(f, s)
    PROVE  \A i \in 1..Len(s) : f[i] \in Rows /\ f[i] = IF i = 1 THEN s[1] ELSE f[i - 1] \o s[i]
<1>1. \A i \in 1..Len(s) : f[i] = IF i = 1 THEN s[1] ELSE f[i - 1] \o s[i]
  <2> DEFINE rhs(i) == IF i = 1 THEN s[i] ELSE f[i - 1] \o s[i]
  <2>1. f = [i \in 1..Len(s) |-> rhs(i)]
        BY DEF Flattens
  <2> HIDE DEF rhs
  <2>2. \A i \in 1..Len(s) : f[i] = rhs(i)
        BY <2>1
  <2>3. QED BY <2>2 DEF rhs
<1> DEFINE N == {n \in Nat : n \in 1..Len(s) /\ f[n] \notin Rows}
<1>a. Len(s) \in Nat /\ 1..Len(s) \subseteq Nat
      OBVIOUS
<1>b. ASSUME N = {} PROVE \A i \in 1..Len(s) : f[i] \in Rows
      BY <1>a, <1>b
<1> SUFFICES ASSUME N # {} PROVE FALSE
    BY <1>1, <1>b
<1>2. PICK n \in N : \A m \in Nat : m < n => m \notin N
  <2>1. N \subseteq Nat
        OBVIOUS
  <2> HIDE DEF N
  <2>2. QED BY <2>1, LeastNat
<1>3. n \in 1..Len(s) /\ s[n] \in Rows /\ f[n] \notin Rows
      OBVIOUS
<1>4. n # 1
      BY <1>1, <1>3
<1>5. n - 1 \in 1..Len(s) /\ n - 1 \in Nat /\ n - 1 < n
      BY <1>a, <1>3, <1>4
<1>6. f[n - 1] \in Rows
      BY <1>2, <1>5
<1>7. f[n] = f[n - 1] \o s[n]
      BY <1>1, <1>3, <1>4
<1>8. QED BY <1>3, <1>6, <1>7 DEF Rows

(* Two sequences of segments that begin alike are flattened alike. *)
LEMMA FlattenAlike ==
    ASSUME NEW s \in Seq(Rows), NEW t \in Seq(Rows), NEW m \in Nat, m <= Len(s), m <= Len(t),
           \A i \in 1..m : t[i] = s[i],
           NEW f, Flattens(f, s), NEW g, Flattens(g, t)
    PROVE  \A i \in 1..m : g[i] = f[i]
<1>a. Len(s) \in Nat /\ Len(t) \in Nat
      OBVIOUS
<1>b. \A i \in 1..m : i \in 1..Len(s) /\ i \in 1..Len(t) /\ i \in Nat
      BY <1>a
<1>1. /\ \A i \in 1..Len(s) : f[i] = IF i = 1 THEN s[1] ELSE f[i - 1] \o s[i]
      /\ \A i \in 1..Len(t) : g[i] = IF i = 1 THEN t[1] ELSE g[i - 1] \o t[i]
      BY FlattenTypes
<1> DEFINE N == {n \in Nat : n \in 1..m /\ g[n] # f[n]}
<1>c. ASSUME N = {} PROVE \A i \in 1..m : g[i] = f[i]
      BY <1>b, <1>c
<1> SUFFICES ASSUME N # {} PROVE FALSE
    BY <1>c
<1>2. PICK n \in N : \A l \in Nat : l < n => l \notin N
  <2>1. N \subseteq Nat
        OBVIOUS
  <2> HIDE DEF N
  <2>2. QED BY <2>1, LeastNat
<1>3. n \in 1..m /\ n \in 1..Len(s) /\ n \in 1..Len(t) /\ t[n] = s[n] /\ g[n] # f[n]
      BY <1>b
<1>4. n # 1
  <2>1. n = 1 => g[n] = t[n] /\ f[n] = s[n]
        BY <1>1, <1>3
  <2>2. QED BY <1>3, <2>1
<1>5. n - 1 \in 1..m /\ n - 1 \in Nat /\ n - 1 < n
      BY <1>3, <1>4
<1>6. g[n - 1] = f[n - 1]
      BY <1>2, <1>5
<1>7. QED BY <1>1, <1>3, <1>4, <1>6

LEMMA FlatType ==
    ASSUME NEW s \in Seq(Rows)
    PROVE  Flat(s) \in Rows
<1>1. PICK f : Flattens(f, s) /\ Flat(s) = IF s = <<>> THEN <<>> ELSE f[Len(s)]
      BY FlatByFunction
<1>2. s # <<>> => Len(s) \in 1..Len(s)
      OBVIOUS
<1>3. s # <<>> => f[Len(s)] \in Rows
      BY <1>1, <1>2, FlattenTypes
<1>4. QED BY <1>1, <1>3 DEF Rows

LEMMA FlatAppend ==
    ASSUME NEW s \in Seq(Rows), NEW x \in Rows
    PROVE  Flat(Append(s, x)) = Flat(s) \o x
<1>0. SUFFICES ASSUME NEW t, t = Append(s, x)
               PROVE  Flat(t) = Flat(s) \o x
    OBVIOUS
<1>1. /\ t \in Seq(Rows) /\ Len(t) = Len(s) + 1 /\ t # <<>> /\ Len(s) \in Nat
      /\ \A i \in 1..Len(s) : t[i] = s[i]
      /\ t[Len(s) + 1] = x
      BY <1>0, AppendIs
<1>2. PICK f : Flattens(f, s) /\ Flat(s) = IF s = <<>> THEN <<>> ELSE f[Len(s)]
      BY FlatByFunction
<1>3. PICK g : Flattens(g, t) /\ Flat(t) = IF t = <<>> THEN <<>> ELSE g[Len(t)]
      BY <1>1, FlatByFunction
<1>4. \A i \in 1..Len(s) : g[i] = f[i]
  <2>1. Len(s) \in Nat /\ Len(s) <= Len(s) /\ Len(s) <= Len(t)
        BY <1>1
  <2>2. t \in Seq(Rows) /\ \A i \in 1..Len(s) : t[i] = s[i]
        BY <1>1
  <2>3. Flattens(f, s) /\ Flattens(g, t)
        BY <1>2, <1>3
  <2>4. QED BY <2>1, <2>2, <2>3, FlattenAlike
<1>5. g[Len(t)] = IF Len(t) = 1 THEN t[1] ELSE g[Len(t) - 1] \o t[Len(t)]
      BY <1>1, <1>3, FlattenTypes
<1>6. CASE s = <<>>
  <2>1. Flat(t) = x /\ Flat(s) = <<>>
        BY <1>1, <1>2, <1>3, <1>5, <1>6
  <2>2. QED BY <1>1, <2>1 DEF Rows
<1>7. CASE s # <<>>
  <2>1. Len(s) >= 1 /\ Len(t) # 1 /\ Len(t) - 1 = Len(s)
        BY <1>1, <1>7
  <2>2. /\ Flat(t) = g[Len(t)] /\ Flat(s) = f[Len(s)] /\ Len(s) \in 1..Len(s)
        /\ t[Len(t)] = x
        BY <1>1, <1>2, <1>3, <1>7, <2>1
  <2>a. g[Len(t)] = g[Len(s)] \o x
        BY <1>5, <2>1, <2>2
  <2>3. QED BY <1>4, <2>2, <2>a
<1>8. QED BY <1>6, <1>7


LEMMA AppendBehind == \A a, b \in Rows : \A x \in Settings : a \o Append(b, x) = Append(a \o b, x)
<1> SUFFICES ASSUME NEW a \in Seq(Settings), NEW b \in Seq(Settings), NEW x \in Settings
             PROVE  a \o Append(b, x) = Append(a \o b, x)
    BY DEF Rows
<1> DEFINE l == a \o Append(b, x)
           r == Append(a \o b, x)
<1>1. /\ l \in Seq(Settings) /\ r \in Seq(Settings)
      /\ Len(l) = Len(a) + Len(b) + 1 /\ Len(r) = Len(a) + Len(b) + 1
      /\ Len(a) \in Nat /\ Len(b) \in Nat
      OBVIOUS
<1>2. \A i \in 1..Len(l) : l[i] = r[i]
      OBVIOUS
<1> HIDE DEF l, r
<1>3. l = r
      BY <1>1, <1>2, SeqEqual
<1>4. QED BY <1>3 DEF l, r

(* t is s with row added to its last segment. *)
Longer(s, row, t) == t = [s EXCEPT ![Len(s)] = Append(@, row)]

LEMMA LastGrowsIs ==
    ASSUME NEW s \in Seq(Rows), s # <<>>, NEW row \in Settings,
           NEW t, Longer(s, row, t)
    PROVE  /\ t \in Seq(Rows) /\ Len(t) = Len(s) /\ t # <<>> /\ Len(s) \in Nat \ {0}
           /\ \A i \in 1..(Len(s) - 1) : t[i] = s[i]
           /\ t[Len(s)] = Append(s[Len(s)], row) /\ s[Len(s)] \in Rows
<1>1. Len(s) \in Nat \ {0} /\ Len(s) \in 1..Len(s) /\ s[Len(s)] \in Rows
      OBVIOUS
<1>2. Append(s[Len(s)], row) \in Rows
      BY <1>1 DEF Rows
<1>3. QED BY <1>1, <1>2 DEF Longer

LEMMA FlatGrows ==
    ASSUME NEW s \in Seq(Rows), s # <<>>, NEW row \in Settings,
           NEW t, Longer(s, row, t)
    PROVE  Flat(t) = Append(Flat(s), row)
<1>0. PICK L : L = Len(s)
      OBVIOUS
<1>1. /\ t \in Seq(Rows) /\ Len(t) = L /\ t # <<>> /\ L \in Nat \ {0}
      /\ \A i \in 1..(L - 1) : t[i] = s[i]
      /\ t[L] = Append(s[L], row) /\ s[L] \in Rows
  <2>1. /\ t \in Seq(Rows) /\ Len(t) = Len(s) /\ t # <<>> /\ Len(s) \in Nat \ {0}
        /\ \A i \in 1..(Len(s) - 1) : t[i] = s[i]
        /\ t[Len(s)] = Append(s[Len(s)], row) /\ s[Len(s)] \in Rows
        BY LastGrowsIs
  <2>2. QED BY <1>0, <2>1
<1>2. PICK f : Flattens(f, s) /\ Flat(s) = IF s = <<>> THEN <<>> ELSE f[Len(s)]
      BY FlatByFunction
<1>3. PICK g : Flattens(g, t) /\ Flat(t) = IF t = <<>> THEN <<>> ELSE g[Len(t)]
      BY <1>1, FlatByFunction
<1>4. L \in 1..L /\ L = Len(s) /\ L = Len(t)
      BY <1>0, <1>1
<1>5. Flat(s) = f[L] /\ Flat(t) = g[L]
      BY <1>1, <1>2, <1>3, <1>4
<1>6. f[L] = (IF L = 1 THEN s[1] ELSE f[L - 1] \o s[L])
  <2>1. \A i \in 1..Len(s) : f[i] = IF i = 1 THEN s[1] ELSE f[i - 1] \o s[i]
        BY <1>2, FlattenTypes
  <2>2. QED BY <1>4, <2>1
<1>7. g[L] = (IF L = 1 THEN t[1] ELSE g[L - 1] \o t[L])
  <2>1. t \in Seq(Rows) /\ Flattens(g, t)
        BY <1>1, <1>3
  <2>2. \A i \in 1..Len(t) : g[i] = IF i = 1 THEN t[1] ELSE g[i - 1] \o t[i]
        BY <2>1, FlattenTypes
  <2>3. QED BY <1>4, <2>2
<1>8. CASE L = 1
      BY <1>1, <1>5, <1>6, <1>7, <1>8
<1>9. CASE L # 1
  <2>1. L - 1 \in Nat /\ L - 1 <= Len(s) /\ L - 1 <= Len(t) /\ L - 1 \in 1..(L - 1) /\ L - 1 \in 1..Len(s)
        BY <1>1, <1>4, <1>9
  <2>2. \A i \in 1..(L - 1) : g[i] = f[i]
    <3>1. PICK m \in Nat : m = L - 1
          BY <2>1
    <3>2. m <= Len(s) /\ m <= Len(t) /\ \A i \in 1..m : t[i] = s[i]
          BY <1>1, <2>1, <3>1
    <3>3. Flattens(f, s) /\ Flattens(g, t) /\ t \in Seq(Rows)
          BY <1>1, <1>2, <1>3
    <3>4. \A i \in 1..m : g[i] = f[i]
          BY <3>2, <3>3, FlattenAlike
    <3>5. QED BY <3>1, <3>4
  <2>3. PICK a : a = f[L - 1]
        OBVIOUS
  <2>4. a \in Rows
        BY <1>2, <2>1, <2>3, FlattenTypes
  <2>5. Flat(s) = a \o s[L] /\ Flat(t) = a \o Append(s[L], row)
        BY <1>1, <1>5, <1>6, <1>7, <1>9, <2>1, <2>2, <2>3
  <2>6. a \o Append(s[L], row) = Append(a \o s[L], row)
        BY <1>1, <2>4, AppendBehind
  <2>7. QED BY <2>5, <2>6
<1>10. QED BY <1>8, <1>9

-----------------------------------------------------------------------------
(* The segments of the rows p: all rows in order, each segment under one     *)
(* setting, and the next one under another.                                  *)
Parted(segs, p) ==
    /\ segs \in Seq(Rows)
    /\ Flat(segs) = p
    /\ \A i \in 1..Len(segs) :
          /\ Len(segs[i]) > 0
          /\ \A j \in 1..Len(segs[i]) : segs[i][j] = segs[i][1]
          /\ i > 1 => segs[i][1] # segs[i - 1][1]

LEMMA NothingParted == Parted(<<>>, <<>>)
<1>1. Flat(<<>>) = <<>> /\ 1..Len(<<>>) = {}
      BY DEF Flat, FlattenSeq
<1>2. QED BY <1>1 DEF Parted

LEMMA ExtendedParted ==
    ASSUME NEW segs, NEW p, Parted(segs, p), NEW row \in Settings
    PROVE  Parted(Extended(segs, row), Append(p, row))
<1>1. segs \in Seq(Rows) /\ Flat(segs) = p /\ p \in Rows
  <2>1. segs \in Seq(Rows) /\ Flat(segs) = p
        BY DEF Parted
  <2>2. Flat(segs) \in Rows
        BY <2>1, FlatType
  <2>3. QED BY <2>1, <2>2
<1>2. /\ \A i \in 1..Len(segs) : Len(segs[i]) > 0
      /\ \A i \in 1..Len(segs) : \A j \in 1..Len(segs[i]) : segs[i][j] = segs[i][1]
      /\ \A i \in 1..Len(segs) : i > 1 => segs[i][1] # segs[i - 1][1]
      BY DEF Parted
<1>a. PICK L \in Nat : L = Len(segs)
      BY <1>1
<1>b. segs # <<>> => Last(segs) = segs[L] /\ L \in 1..L /\ Head(Last(segs)) = segs[L][1]
  <2> SUFFICES ASSUME segs # <<>> PROVE Last(segs) = segs[L] /\ L \in 1..L /\ Head(segs[L]) = segs[L][1]
      OBVIOUS
  <2>1. L \in 1..L /\ L > 0
        BY <1>1, <1>a
  <2>2. segs[L] \in Seq(Settings) /\ Len(segs[L]) > 0
        BY <1>1, <1>2, <1>a, <2>1 DEF Rows
  <2>3. Head(segs[L]) = segs[L][1]
        BY <2>2
  <2>4. QED BY <1>a, <2>1, <2>3 DEF Last
<1>3. CASE segs # <<>> /\ Head(Last(segs)) = row
  <2>1. PICK t : Longer(segs, row, t)
        BY DEF Longer
  <2>2. Extended(segs, row) = t
        BY <1>3, <2>1 DEF Extended, Longer
  <2>3. /\ t \in Seq(Rows) /\ Len(t) = L /\ L \in Nat \ {0}
        /\ \A i \in 1..(L - 1) : t[i] = segs[i]
        /\ t[L] = Append(segs[L], row) /\ segs[L] \in Rows
    <3>1. /\ t \in Seq(Rows) /\ Len(t) = Len(segs) /\ Len(segs) \in Nat \ {0}
          /\ \A i \in 1..(Len(segs) - 1) : t[i] = segs[i]
          /\ t[Len(segs)] = Append(segs[Len(segs)], row) /\ segs[Len(segs)] \in Rows
          BY <1>1, <1>3, <2>1, LastGrowsIs
    <3>2. QED BY <1>a, <3>1
  <2>4. Flat(t) = Append(p, row)
        BY <1>1, <1>3, <2>1, FlatGrows
  <2>5. /\ Len(t[L]) = Len(segs[L]) + 1 /\ Len(segs[L]) \in Nat \ {0}
        /\ t[L][Len(segs[L]) + 1] = row
        /\ \A j \in 1..Len(segs[L]) : t[L][j] = segs[L][j]
    <3>1. Len(segs[L]) > 0
          BY <1>2, <1>3, <1>a, <1>b
    <3>2. PICK x \in Seq(Settings) : x = segs[L]
          BY <2>3 DEF Rows
    <3>3. QED BY <2>3, <3>1, <3>2
  <2>6. t[L][1] = row /\ segs[L][1] = row
        BY <1>3, <1>b, <2>5
  <2>7. \A j \in 1..Len(t[L]) : t[L][j] = t[L][1]
    <3> SUFFICES ASSUME NEW j \in 1..Len(t[L]) PROVE t[L][j] = row
        BY <2>6
    <3>1. CASE j = Len(segs[L]) + 1
          BY <2>5, <3>1
    <3>2. CASE j \in 1..Len(segs[L])
      <4>1. segs[L][j] = segs[L][1]
            BY <1>2, <1>3, <1>a, <1>b, <3>2
      <4>2. QED BY <2>5, <2>6, <3>2, <4>1
    <3>3. QED BY <2>5, <3>1, <3>2
  <2>8. ASSUME NEW i \in 1..Len(t)
        PROVE  /\ Len(t[i]) > 0
               /\ \A j \in 1..Len(t[i]) : t[i][j] = t[i][1]
               /\ i > 1 => t[i][1] # t[i - 1][1]
    <3>1. i \in 1..Len(segs)
          BY <1>a, <2>3
    <3>2. t[i][1] = segs[i][1]
      <4>1. CASE i = L
            BY <2>6, <4>1
      <4>2. CASE i # L
        <5>1. i \in 1..(L - 1)
              BY <1>a, <3>1, <4>2
        <5>2. QED BY <2>3, <5>1
      <4>3. QED BY <4>1, <4>2
    <3>3. i > 1 => t[i - 1] = segs[i - 1]
      <4>1. i > 1 => i - 1 \in 1..(L - 1)
            BY <1>a, <3>1
      <4>2. QED BY <2>3, <4>1
    <3>4. i > 1 => t[i][1] # t[i - 1][1]
          BY <1>2, <3>1, <3>2, <3>3
    <3>5. CASE i = L
      <4>1. Len(t[L]) > 0
            BY <2>5
      <4>2. QED BY <2>7, <3>4, <3>5, <4>1
    <3>6. CASE i # L
      <4>1. i \in 1..(L - 1)
            BY <1>a, <3>1, <3>6
      <4>2. t[i] = segs[i]
            BY <2>3, <4>1
      <4>3. QED BY <1>2, <3>1, <3>4, <4>2
    <3>7. QED BY <3>5, <3>6
  <2>9. QED BY <2>2, <2>3, <2>4, <2>8 DEF Parted
<1>4. CASE ~(segs # <<>> /\ Head(Last(segs)) = row)
  <2>1. PICK x : x = <<row>>
        OBVIOUS
  <2>2. x \in Rows /\ Len(x) = 1 /\ x[1] = row
        BY <2>1 DEF Rows
  <2>3. PICK t : t = Append(segs, x)
        OBVIOUS
  <2>4. Extended(segs, row) = t
        BY <1>4, <2>1, <2>3 DEF Extended
  <2>5. /\ t \in Seq(Rows) /\ Len(t) = L + 1
        /\ \A i \in 1..L : t[i] = segs[i]
        /\ t[L + 1] = x
        BY <1>1, <1>a, <2>2, <2>3, AppendIs
  <2>6. Flat(t) = Append(p, row)
    <3>1. Flat(t) = p \o x
          BY <1>1, <2>2, <2>3, FlatAppend
    <3>2. p \o <<row>> = Append(p, row)
      <4>1. PICK q \in Seq(Settings) : q = p
            BY <1>1 DEF Rows
      <4>2. q \o <<row>> = Append(q, row)
            OBVIOUS
      <4>3. QED BY <4>1, <4>2
    <3>3. QED BY <2>1, <3>1, <3>2
  <2>7. L > 0 => row # segs[L][1]
    <3>1. L > 0 => segs # <<>>
          BY <1>1, <1>a
    <3>2. QED BY <1>4, <1>b, <3>1
  <2>8. ASSUME NEW i \in 1..Len(t)
        PROVE  /\ Len(t[i]) > 0
               /\ \A j \in 1..Len(t[i]) : t[i][j] = t[i][1]
               /\ i > 1 => t[i][1] # t[i - 1][1]
    <3>1. CASE i = L + 1
      <4>1. t[i] = x
            BY <2>5, <3>1
      <4>2. i > 1 => L > 0 /\ L \in 1..L /\ i - 1 = L
            BY <3>1
      <4>3. i > 1 => t[i][1] # t[i - 1][1]
        <5>1. i > 1 => t[i - 1] = segs[L] /\ row # segs[L][1]
              BY <2>5, <2>7, <4>2
        <5>2. t[i][1] = row
              BY <2>2, <4>1
        <5>3. QED BY <5>1, <5>2
      <4>4. Len(x) > 0 /\ \A j \in 1..Len(x) : x[j] = x[1]
            BY <2>2
      <4>5. QED BY <4>1, <4>3, <4>4
    <3>2. CASE i # L + 1
      <4>1. i \in 1..L /\ i \in 1..Len(segs)
            BY <1>a, <2>5, <3>2
      <4>2. i > 1 => i - 1 \in 1..L
            BY <4>1
      <4>3. t[i] = segs[i] /\ (i > 1 => t[i - 1] = segs[i - 1])
            BY <2>5, <4>1, <4>2
      <4>4. QED BY <1>2, <4>1, <4>3
    <3>3. QED BY <3>1, <3>2
  <2>9. QED BY <2>4, <2>5, <2>6, <2>8 DEF Parted
<1>5. QED BY <1>3, <1>4

(* The function by which Segments is defined. *)
BuildsUp(f, rows, n) == f = [i \in 0..n |-> IF i = 0 THEN <<>> ELSE Extended(f[i - 1], rows[i])]

LEMMA BuildsUpTo ==
    ASSUME NEW rows
    PROVE  \A n \in Nat : \E f : BuildsUp(f, rows, n)
<1> DEFINE N == {n \in Nat : ~ \E f : BuildsUp(f, rows, n)}
<1> SUFFICES ASSUME N # {} PROVE FALSE
    OBVIOUS
<1>1. PICK n \in N : \A m \in Nat : m < n => m \notin N
  <2>1. N \subseteq Nat
        OBVIOUS
  <2> HIDE DEF N
  <2>2. QED BY <2>1, LeastNat
<1>2. n # 0
  <2> DEFINE f == [i \in 0..0 |-> <<>>]
  <2>1. f = [i \in 0..0 |-> IF i = 0 THEN <<>> ELSE Extended(f[i - 1], rows[i])]
        OBVIOUS
  <2> HIDE DEF f
  <2>2. BuildsUp(f, rows, 0)
        BY <2>1 DEF BuildsUp
  <2>3. QED BY <2>2
<1>3. n - 1 \in Nat /\ n \in Nat /\ n - 1 < n
      BY <1>2
<1>4. PICK f : BuildsUp(f, rows, n - 1)
      BY <1>1, <1>3
<1> DEFINE g == [i \in 0..n |-> IF i = 0 THEN <<>> ELSE Extended(f[i - 1], rows[i])]
<1>5. \A i \in 0..n : g[i] = IF i = 0 THEN <<>> ELSE Extended(f[i - 1], rows[i])
      OBVIOUS
<1>6. g = [i \in 0..n |-> g[i]]
      OBVIOUS
<1> HIDE DEF g
<1>7. \A i \in 0..(n - 1) : g[i] = f[i]
  <2> DEFINE rhs(i) == IF i = 0 THEN <<>> ELSE Extended(f[i - 1], rows[i])
  <2>1. f = [i \in 0..(n - 1) |-> rhs(i)] /\ \A i \in 0..n : g[i] = rhs(i)
        BY <1>4, <1>5 DEF BuildsUp
  <2> HIDE DEF rhs
  <2>2. \A i \in 0..(n - 1) : f[i] = rhs(i)
        BY <2>1
  <2>3. QED BY <1>3, <2>1, <2>2
<1>8. \A i \in 0..n : g[i] = IF i = 0 THEN <<>> ELSE Extended(g[i - 1], rows[i])
  <2> SUFFICES ASSUME NEW i \in 0..n, i # 0
               PROVE  g[i] = Extended(g[i - 1], rows[i])
      BY <1>5
  <2>1. i - 1 \in 0..(n - 1)
        BY <1>3
  <2>2. g[i - 1] = f[i - 1]
        BY <1>7, <2>1
  <2>3. QED BY <1>5, <2>2
<1>9. BuildsUp(g, rows, n)
  <2> DEFINE rhs(i) == IF i = 0 THEN <<>> ELSE Extended(g[i - 1], rows[i])
  <2>1. \A i \in 0..n : g[i] = rhs(i)
        BY <1>8
  <2> HIDE DEF rhs
  <2>2. g = [i \in 0..n |-> rhs(i)]
        BY <1>6, <2>1
  <2>3. QED BY <2>2 DEF BuildsUp, rhs
<1>10. QED BY <1>1, <1>9

LEMMA SegmentsByFunction ==
    ASSUME NEW rows \in Rows
    PROVE  \E f : BuildsUp(f, rows, Len(rows)) /\ Segments(rows) = f[Len(rows)]
<1> DEFINE upTo[n \in 0..Len(rows)] == IF n = 0 THEN <<>> ELSE Extended(upTo[n - 1], rows[n])
           Q(h) == h = [n \in 0..Len(rows) |-> IF n = 0 THEN <<>> ELSE Extended(h[n - 1], rows[n])]
<1>1. Segments(rows) = upTo[Len(rows)]
      BY DEF Segments
<1>2. upTo = CHOOSE h : Q(h)
      BY DEF upTo
<1>3. \E h : Q(h)
  <2>1. Len(rows) \in Nat
        BY DEF Rows
  <2>2. QED BY <2>1, BuildsUpTo, Zenon DEF BuildsUp
<1>4. \A h : Q(h) <=> BuildsUp(h, rows, Len(rows))
      BY DEF BuildsUp
<1> HIDE DEF upTo, Q
<1>5. Q(upTo)
      BY <1>2, <1>3
<1>6. QED BY <1>1, <1>4, <1>5

LEMMA SegmentsPart ==
    ASSUME NEW rows \in Rows
    PROVE  Parted(Segments(rows), rows)
<1>1. PICK f : BuildsUp(f, rows, Len(rows)) /\ Segments(rows) = f[Len(rows)]
      BY SegmentsByFunction
<1>2. PICK L \in Nat : L = Len(rows)
      BY DEF Rows
<1>3. /\ f[0] = <<>>
      /\ \A i \in 1..L : f[i] = Extended(f[i - 1], rows[i])
  <2> DEFINE rhs(i) == IF i = 0 THEN <<>> ELSE Extended(f[i - 1], rows[i])
  <2>1. f = [i \in 0..L |-> rhs(i)]
        BY <1>1, <1>2 DEF BuildsUp
  <2> HIDE DEF rhs
  <2>2. \A i \in 0..L : f[i] = rhs(i)
        BY <2>1
  <2>3. 0 \in 0..L /\ \A i \in 1..L : i \in 0..L /\ i # 0
        OBVIOUS
  <2>4. QED BY <2>2, <2>3 DEF rhs
<1> DEFINE N == {n \in Nat : n <= L /\ ~ Parted(f[n], SubSeq(rows, 1, n))}
<1>4. SUFFICES ASSUME N # {} PROVE FALSE
  <2>1. N = {} => Parted(f[L], SubSeq(rows, 1, L))
        OBVIOUS
  <2>2. SubSeq(rows, 1, L) = rows
    <3>1. rows \in Seq(Settings)
          BY DEF Rows
    <3>2. QED BY <1>2, <3>1
  <2>3. QED BY <1>1, <1>2, <1>4, <2>1, <2>2
<1>5. PICK n \in N : \A m \in Nat : m < n => m \notin N
  <2>1. N \subseteq Nat
        OBVIOUS
  <2> HIDE DEF N
  <2>2. QED BY <1>4, <2>1, LeastNat
<1>6. n \in Nat /\ n <= L /\ ~ Parted(f[n], SubSeq(rows, 1, n))
      OBVIOUS
<1>7. n # 0
  <2>1. SubSeq(rows, 1, 0) = <<>>
        BY DEF Rows
  <2>2. QED BY <1>3, <1>6, <2>1, NothingParted
<1>8. n - 1 \in Nat /\ n - 1 < n /\ n - 1 <= L /\ n \in 1..L
      BY <1>6, <1>7
<1>9. Parted(f[n - 1], SubSeq(rows, 1, n - 1))
      BY <1>5, <1>8
<1>10. rows[n] \in Settings /\ SubSeq(rows, 1, n) = Append(SubSeq(rows, 1, n - 1), rows[n])
  <2>1. PICK s \in Seq(Settings) : s = rows
        BY DEF Rows
  <2>2. n \in 1..Len(s)
        BY <1>2, <1>8, <2>1
  <2> DEFINE l == SubSeq(s, 1, n)
             k == SubSeq(s, 1, n - 1)
             r == Append(k, s[n])
  <2>3. /\ l \in Seq(Settings) /\ Len(l) = n /\ \A i \in 1..n : l[i] = s[i]
        BY <2>2
  <2>4. k \in Seq(Settings) /\ Len(k) = n - 1 /\ \A i \in 1..(n - 1) : k[i] = s[i]
        BY <1>8, <2>2
  <2>5. s[n] \in Settings
        BY <2>2
  <2> HIDE DEF l, k
  <2>6. r \in Seq(Settings) /\ Len(r) = n /\ (\A i \in 1..(n - 1) : r[i] = k[i]) /\ r[n] = s[n]
        BY <1>8, <2>4, <2>5
  <2> HIDE DEF r
  <2>7. \A i \in 1..n : l[i] = r[i]
    <3>1. \A i \in 1..n : i \in 1..(n - 1) \/ i = n
          BY <1>8
    <3>2. QED BY <2>3, <2>4, <2>6, <3>1
  <2>8. l = r
        BY <2>3, <2>6, <2>7, SeqEqual
  <2>9. QED BY <2>1, <2>5, <2>8 DEF l, k, r
<1>11. f[n] = Extended(f[n - 1], rows[n])
       BY <1>3, <1>8
<1>12. Parted(f[n], SubSeq(rows, 1, n))
       BY <1>9, <1>10, <1>11, ExtendedParted
<1>13. QED BY <1>6, <1>12

(* What is exported belongs together. *)
Exports(rows, notes) ==
    /\ rows \in Rows /\ notes \in Seq(Notes)
    /\ \A i \in 1..Len(notes) : notes[i].row \in 1..Len(rows)

(* The files, as far as they are written. *)
FilesAgree(w) ==
    w.segments # <<>> =>
        /\ Parted(w.segments, w.timeline)
        /\ w.charts \in {<<>>, w.timeline}
        /\ Exports(w.timeline, w.events)

ExportInv ==
    /\ export = [at |-> export.at, rows |-> export.rows, events |-> export.events]
    /\ written = [timeline |-> written.timeline, segments |-> written.segments,
                  events |-> written.events, charts |-> written.charts]
    /\ Exports(export.rows, export.events)
    /\ export.at = "summary" => /\ written.timeline = export.rows
                                /\ written.segments = <<>> /\ written.charts = <<>>
    /\ export.at = "charts" => written.timeline = export.rows
    /\ FilesAgree(written)

LEMMA ExportStep ==
    ASSUME SamplesInv, ExportInv, [WNext]_<<side, vars, panelVars>>
    PROVE  ExportInv'
<1>1. CASE UNCHANGED files
      BY <1>1 DEF files, ExportInv
<1>a. Exports(<<>>, <<>>)
  <2>1. <<>> \in Rows /\ <<>> \in Seq(Notes) /\ 1..Len(<<>>) = {}
        BY DEF Rows
  <2>2. QED BY <2>1 DEF Exports
<1>2. CASE BeginExport
  <2>1. export' = [export EXCEPT !.at = "choosing"] /\ written' = written
        BY <1>2 DEF BeginExport
  <2>2. export' = [at |-> "choosing", rows |-> export.rows, events |-> export.events]
        BY <2>1 DEF ExportInv
  <2>3. QED BY <2>1, <2>2 DEF ExportInv
<1>3. CASE CancelExport \/ ExportReported
  <2>1. export' = [at |-> "idle", rows |-> <<>>, events |-> <<>>] /\ written' = written
        BY <1>3 DEF CancelExport, ExportReported, NoExport
  <2>2. QED BY <1>a, <2>1 DEF ExportInv
<1>4. CASE CopySession
  <2>1. export' = [at |-> "timeline", rows |-> samples.rows, events |-> samples.events]
        /\ written' = written
        BY <1>4 DEF CopySession
  <2>2. Exports(samples.rows, samples.events)
        BY DEF SamplesInv, History, Exports
  <2>3. QED BY <2>1, <2>2 DEF ExportInv
<1>5. CASE WriteTimeline
  <2>1. export' = [export EXCEPT !.at = "summary"]
        BY <1>5 DEF WriteTimeline, Writes
  <2>2. export' = [at |-> "summary", rows |-> export.rows, events |-> export.events]
        BY <2>1 DEF ExportInv
  <2>3. written' = [timeline |-> export.rows, segments |-> <<>>, events |-> <<>>, charts |-> <<>>]
        BY <1>5 DEF WriteTimeline, Nothing, Exported
  <2>4. FilesAgree(written')
        BY <2>3 DEF FilesAgree
  <2>5. QED BY <2>2, <2>3, <2>4 DEF ExportInv
<1>6. CASE WriteSummary
  <2>1. export.at = "summary" /\ export' = [export EXCEPT !.at = "charts"]
        BY <1>6 DEF WriteSummary, Writes
  <2>2. export' = [at |-> "charts", rows |-> export.rows, events |-> export.events]
        BY <2>1 DEF ExportInv
  <2>3. PICK segs : segs = Segments(export.rows)
        OBVIOUS
  <2>4. written' = [written EXCEPT !.segments = segs, !.events = export.events]
        BY <1>6, <2>3 DEF WriteSummary, Exported
  <2>5. written' = [timeline |-> export.rows, segments |-> segs, events |-> export.events,
                    charts |-> <<>>]
        BY <2>1, <2>4 DEF ExportInv
  <2>6. Exports(export.rows, export.events) /\ export.rows \in Rows
        BY DEF ExportInv, Exports
  <2>7. Parted(segs, export.rows)
        BY <2>3, <2>6, SegmentsPart
  <2>8. FilesAgree(written')
        BY <2>5, <2>6, <2>7 DEF FilesAgree
  <2>9. QED BY <2>2, <2>5, <2>6, <2>8 DEF ExportInv
<1>7. CASE WriteCharts
  <2>1. export.at = "charts" /\ export' = [export EXCEPT !.at = "reporting"]
        /\ written' = [written EXCEPT !.charts = export.rows]
        BY <1>7 DEF WriteCharts, Writes, Exported
  <2>2. export' = [at |-> "reporting", rows |-> export.rows, events |-> export.events]
        BY <2>1 DEF ExportInv
  <2>3. written' = [timeline |-> written.timeline, segments |-> written.segments,
                    events |-> written.events, charts |-> written.timeline]
        BY <2>1 DEF ExportInv
  <2>4. FilesAgree(written')
        BY <2>3 DEF ExportInv, FilesAgree
  <2>5. Exports(export.rows, export.events)
        BY DEF ExportInv
  <2>6. QED BY <2>2, <2>3, <2>4, <2>5 DEF ExportInv
<1>8. CASE ExportFails
  <2>1. export' = [export EXCEPT !.at = "reporting"] /\ written' = written
        BY <1>8 DEF ExportFails, Writes
  <2>2. export' = [at |-> "reporting", rows |-> export.rows, events |-> export.events]
        BY <2>1 DEF ExportInv
  <2>3. QED BY <2>1, <2>2 DEF ExportInv
<1>9. CASE Turns \/ BeginSampling \/ Sample \/ FinishSampling
  <2>1. Turns => UNCHANGED files
        BY DEF Turns, MoveSlider, OnRepair, OnModel, ApplyPreset, KeepSession
  <2>2. BeginSampling \/ Sample \/ FinishSampling => UNCHANGED files
        BY DEF BeginSampling, Sample, FinishSampling
  <2>3. QED BY <1>1, <1>9, <2>1, <2>2
<1>10. UNCHANGED panelVars => UNCHANGED files
       BY DEF panelVars
<1>11. QED
  <2>1. PanelNext => ExportInv'
        BY <1>2, <1>3, <1>4, <1>5, <1>6, <1>7, <1>8, <1>9 DEF PanelNext, ExportThread
  <2>2. PanelNext \/ UNCHANGED panelVars
        BY DEF WNext
  <2>3. QED BY <1>1, <1>10, <2>1, <2>2

(* An export agrees with itself although sampling goes on and another call   *)
(* may begin while it is written, for any number of rows: the segments are   *)
(* the timeline, none left out, each under one setting and next to others,   *)
(* with events of none but these rows, and the charts show the same rows    *)
(* (gui.py:443-444, gui_logic.py:276-284, telemetry.py:116-142).             *)
THEOREM ExportsAgree == WSpec => []ExportAgreesWithItself
<1>1. WInit => ExportInv
  <2> SUFFICES ASSUME PanelInit PROVE ExportInv
      BY DEF WInit
  <2>1. export = [at |-> "idle", rows |-> <<>>, events |-> <<>>]
        /\ written = [timeline |-> <<>>, segments |-> <<>>, events |-> <<>>, charts |-> <<>>]
        BY DEF PanelInit, NoExport, Nothing
  <2>2. Exports(<<>>, <<>>)
    <3>1. <<>> \in Rows /\ <<>> \in Seq(Notes) /\ 1..Len(<<>>) = {}
          BY DEF Rows
    <3>2. QED BY <3>1 DEF Exports
  <2>3. FilesAgree(written)
        BY <2>1 DEF FilesAgree
  <2>4. QED BY <2>1, <2>2, <2>3 DEF ExportInv
<1>2. ExportInv => ExportAgreesWithItself
  <2> SUFFICES ASSUME ExportInv, written.segments # <<>> PROVE ExportAgreesWithItself
      BY DEF ExportAgreesWithItself
  <2>1. PICK segs, rows, notes :
             segs = written.segments /\ rows = written.timeline /\ notes = written.events
        OBVIOUS
  <2>2. Parted(segs, rows) /\ written.charts \in {<<>>, rows} /\ Exports(rows, notes)
        BY <2>1 DEF ExportInv, FilesAgree
  <2>3. /\ DOMAIN segs = 1..Len(segs) /\ \A i \in 1..Len(segs) : segs[i] \in Rows
        BY <2>2 DEF Parted
  <2>4. \A i \in 1..Len(segs) : DOMAIN segs[i] = 1..Len(segs[i])
        BY <2>3 DEF Rows
  <2>5. FlattenSeq(segs) = rows
        BY <2>2 DEF Parted, Flat
  <2>6. \A i \in DOMAIN segs : /\ \A j \in DOMAIN segs[i] : segs[i][j] = segs[i][1]
                               /\ i > 1 => segs[i][1] # segs[i - 1][1]
        BY <2>2, <2>3, <2>4 DEF Parted
  <2>7. \A i \in DOMAIN notes : notes[i].row <= Len(rows)
    <3>1. Len(rows) \in Nat /\ DOMAIN notes = 1..Len(notes)
          BY <2>2 DEF Exports, Rows
    <3>2. \A i \in 1..Len(notes) : notes[i].row \in 1..Len(rows)
          BY <2>2 DEF Exports
    <3>3. QED BY <3>1, <3>2
  <2>8. QED BY <2>1, <2>2, <2>5, <2>6, <2>7 DEF ExportAgreesWithItself
<1>3. QED BY <1>1, <1>2, SamplesAlways, ExportStep, PTL DEF WSpec

=============================================================================
