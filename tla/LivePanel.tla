------------------------------ MODULE LivePanel ------------------------------
(***************************************************************************)
(* The live half of the window: the network panel (gui_network.py) over    *)
(* the knobs (controls.py), the telemetry that samples them once a second  *)
(* (telemetry.py), and the export, written by a thread of its own while    *)
(* sampling goes on (gui.py).  Every other step is one callback of the Tk  *)
(* thread.                                                                 *)
(*                                                                         *)
(* Two sliders (a plain one and the bitrate's), the loss model with its    *)
(* burst length, and the repair mode stand for the ten knobs.  Slider      *)
(* positions are in tenths; a position half-way between two values is left *)
(* out.  A row of the telemetry is the settings it was taken under; its    *)
(* counters are VoiceReceiver's.                                           *)
(***************************************************************************)
EXTENDS Integers, Sequences, SequencesExt

CONSTANTS LossPositions, RatePositions,   (* where a slider may be dragged *)
          MaxRows,      (* bound: samples taken in a call                  *)
          MaxLives,     (* bound: calls sampled                            *)
          MaxTurns      (* bound: times a knob is turned                   *)

ASSUME PanelAssumption ==
    /\ LossPositions \subseteq Nat /\ RatePositions \subseteq Nat
    /\ {MaxRows, MaxLives, MaxTurns} \subseteq Nat

VARIABLES
    knobs,      (* the CallControls                                        *)
    position,   (* of the sliders                                          *)
    caption,       (* beside the sliders: the knob's value                    *)
    radio,      (* the radio buttons                                       *)
    burstOn,    (* the burst length's slider can be used                   *)
    turns,
    samples,  (* rows and events, with the settings last seen            *)
    lives,
    export,     (* where the export thread is, with its copy               *)
    written     (* what the files of the last export hold                  *)

widgets == <<position, caption, radio, burstOn>>
files   == <<export, written>>
panelVars == <<knobs, widgets, turns, samples, lives, files>>

-----------------------------------------------------------------------------
(* gui_logic *)

Defaults == [loss_pct |-> 0, loss_model |-> "random", burst_len |-> 3,
             bitrate |-> 0, repair |-> "fec"]
NetworkKnobs == {"loss_pct", "loss_model", "burst_len"}
Sliders == {"loss_pct", "burst_len", "bitrate"}
Radios  == {"loss_model", "repair"}

(* What a preset changes of the network defaults. *)
Presets == [Clean     |-> [k \in {} |-> 0],
            BadWiFi   |-> [loss_pct |-> 5],
            BurstLoss |-> [loss_pct |-> 10, loss_model |-> "burst", burst_len |-> 4]]

(* The settings v with those of `by` in their place. *)
Updated(v, by) ==
    [k \in DOMAIN v \cup DOMAIN by |-> IF k \in DOMAIN by THEN by[k] ELSE v[k]]

PresetValues(name) ==
    Updated([k \in NetworkKnobs |-> Defaults[k]], Presets[name])

Rounded(p) == (p + 5) \div 10

ToKnob(k, p) ==
    IF k # "bitrate" THEN Rounded(p) ELSE IF p < 80 THEN 0 ELSE 1000 * Rounded(p)
ToSlider(k, v) ==
    IF k # "bitrate" THEN 10 * v ELSE IF v = 0 THEN 70 ELSE v \div 100

-----------------------------------------------------------------------------
(* The network panel. *)

PositionsOf(v) == [k \in Sliders |-> ToSlider(k, v[k])]
RadiosOf(v)   == [k \in Radios |-> v[k]]

(* refresh(): the controls, into every widget. *)
Refreshed(v) ==
    /\ position' = PositionsOf(v)
    /\ caption' = [k \in Sliders |-> v[k]]
    /\ radio' = RadiosOf(v)
    /\ burstOn' = (v.loss_model = "burst")

Turn == turns < MaxTurns /\ turns' = turns + 1
KeepSession == UNCHANGED <<samples, lives, files>>

(* on_move: the user drags a slider. *)
MoveSlider(k, p) ==
    /\ Turn
    /\ k = "burst_len" => burstOn
    /\ position' = [position EXCEPT ![k] = p]
    /\ knobs' = [knobs EXCEPT ![k] = ToKnob(k, p)]
    /\ caption' = [caption EXCEPT ![k] = ToKnob(k, p)]
    /\ KeepSession /\ UNCHANGED <<radio, burstOn>>

OnRepair(mode) ==
    /\ Turn
    /\ radio' = [radio EXCEPT !.repair = mode]
    /\ knobs' = [knobs EXCEPT !.repair = mode]
    /\ KeepSession /\ UNCHANGED <<position, caption, burstOn>>

(* Mutant: nothing is refreshed. *)
OnModelAlone(m) ==
    /\ Turn
    /\ radio' = [radio EXCEPT !.loss_model = m]
    /\ knobs' = [knobs EXCEPT !.loss_model = m]
    /\ KeepSession /\ UNCHANGED <<position, caption, burstOn>>

OnModel(m) ==
    /\ Turn
    /\ knobs' = [knobs EXCEPT !.loss_model = m]
    /\ Refreshed(knobs')
    /\ KeepSession

ApplyPreset(name) ==
    /\ Turn
    /\ knobs' = Updated(knobs, PresetValues(name))
    /\ Refreshed(knobs')
    /\ KeepSession

-----------------------------------------------------------------------------
(* The telemetry. *)

NoSamples == [on |-> FALSE, start |-> Defaults, last |-> Defaults,
                rows |-> <<>>, events |-> <<>>]

(* _go_live: a new call has new rows, from the settings it begins with.      *)
BeginSampling ==
    /\ ~samples.on /\ lives < MaxLives /\ lives' = lives + 1
    /\ samples' = [on |-> TRUE, start |-> knobs, last |-> knobs,
                     rows |-> <<>>, events |-> <<>>]
    /\ UNCHANGED <<knobs, widgets, turns, files>>

(* _diff_events: what changed since the last sample, knob by knob.           *)
Change(old, new, k) ==
    IF old[k] = new[k] THEN <<>> ELSE <<[knob |-> k, old |-> old[k], new |-> new[k]]>>

Differences(old, new) ==
    Change(old, new, "loss_pct") \o Change(old, new, "loss_model")
        \o Change(old, new, "burst_len") \o Change(old, new, "repair")
        \o Change(old, new, "bitrate")

(* Mutant: the settings last seen are not kept up. *)
SeenAtStart(t) == t.start

Seen(t) == knobs

Sampled(on) ==
    LET row == Len(samples.rows) + 1
        new == Differences(samples.last, knobs)
    IN  samples' = [samples EXCEPT
           !.on = on,
           !.rows = Append(@, knobs),
           !.events = @ \o [i \in DOMAIN new |-> [row |-> row, change |-> new[i]]],
           !.last = Seen(samples)]

Sample ==
    /\ samples.on /\ Len(samples.rows) < MaxRows
    /\ Sampled(TRUE)
    /\ UNCHANGED <<knobs, widgets, turns, lives, files>>

(* "done" is drained: the last, partial interval is sampled too.             *)
FinishSampling ==
    /\ samples.on
    /\ Sampled(FALSE)
    /\ UNCHANGED <<knobs, widgets, turns, lives, files>>

(* segments(): runs of rows with the same settings. *)
Extended(segs, row) ==
    IF segs # <<>> /\ Head(Last(segs)) = row
    THEN [segs EXCEPT ![Len(segs)] = Append(@, row)]
    ELSE Append(segs, <<row>>)

Segments(rows) ==
    LET upTo[n \in 0..Len(rows)] ==
            IF n = 0 THEN <<>> ELSE Extended(upTo[n - 1], rows[n])
    IN  upTo[Len(rows)]

-----------------------------------------------------------------------------
(* The export. *)

NoExport == [at |-> "idle", rows |-> <<>>, events |-> <<>>]
Nothing == [timeline |-> <<>>, segments |-> <<>>, events |-> <<>>, charts |-> <<>>]

KeepWindow == UNCHANGED <<knobs, widgets, turns, samples, lives>>

(* _export: something was sampled, and the user is asked for a folder while  *)
(* the Tk loop goes on.                                                      *)
BeginExport ==
    /\ export.at = "idle" /\ samples.rows # <<>>
    /\ export' = [export EXCEPT !.at = "choosing"]
    /\ KeepWindow /\ UNCHANGED written

CancelExport ==
    /\ export.at = "choosing"
    /\ export' = NoExport
    /\ KeepWindow /\ UNCHANGED written

(* Rows and events are copied on the Tk thread before the other starts.      *)
CopySession ==
    /\ export.at = "choosing"
    /\ export' = [at |-> "timeline", rows |-> samples.rows, events |-> samples.events]
    /\ KeepWindow /\ UNCHANGED written

(* Mutant: the thread reads the telemetry that the Tk thread goes on with.   *)
ExportedIsShared(field) == samples[field]

Exported(field) == export[field]

Writes(from, to) == export.at = from /\ export' = [export EXCEPT !.at = to] /\ KeepWindow

WriteTimeline ==
    /\ Writes("timeline", "summary")
    /\ written' = [Nothing EXCEPT !.timeline = Exported("rows")]

WriteSummary ==
    /\ Writes("summary", "charts")
    /\ written' = [written EXCEPT !.segments = Segments(Exported("rows")),
                                  !.events = Exported("events")]

WriteCharts ==
    /\ Writes("charts", "reporting")
    /\ written' = [written EXCEPT !.charts = Exported("rows")]

(* No folder, no space, no matplotlib: what was written stays. *)
ExportFails ==
    /\ \E from \in {"timeline", "summary", "charts"} : Writes(from, "reporting")
    /\ UNCHANGED written

(* "exported" or "export_failed" is drained: the button can be used again.   *)
ExportReported ==
    /\ export.at = "reporting"
    /\ export' = NoExport
    /\ KeepWindow /\ UNCHANGED written

-----------------------------------------------------------------------------
PanelInit ==
    /\ knobs = Defaults
    /\ position = PositionsOf(Defaults) /\ caption = [k \in Sliders |-> Defaults[k]]
    /\ radio = RadiosOf(Defaults) /\ burstOn = FALSE
    /\ turns = 0 /\ samples = NoSamples /\ lives = 0
    /\ export = NoExport /\ written = Nothing

Turns ==
    \/ \E p \in LossPositions : MoveSlider("loss_pct", p)
    \/ \E p \in LossPositions \ {0} : MoveSlider("burst_len", p)
    \/ \E p \in RatePositions : MoveSlider("bitrate", p)
    \/ \E r \in {"plc", "fec"} : OnRepair(r)
    \/ \E m \in {"random", "burst"} : OnModel(m)
    \/ \E n \in DOMAIN Presets : ApplyPreset(n)

ExportThread == WriteTimeline \/ WriteSummary \/ WriteCharts \/ ExportFails

PanelNext ==
    \/ Turns \/ BeginSampling \/ Sample \/ FinishSampling
    \/ BeginExport \/ CancelExport \/ CopySession \/ ExportThread \/ ExportReported

PanelSpec == PanelInit /\ [][PanelNext]_panelVars

-----------------------------------------------------------------------------
PanelTypeOK ==
    /\ DOMAIN knobs = DOMAIN Defaults /\ burstOn \in BOOLEAN
    /\ DOMAIN position = Sliders /\ DOMAIN caption = Sliders /\ DOMAIN radio = Radios
    /\ turns \in 0..MaxTurns /\ lives \in 0..MaxLives
    /\ Len(samples.rows) <= MaxRows + 1
    /\ export.at \in {"idle", "choosing", "timeline", "summary", "charts", "reporting"}

(* However sliders, radio buttons and presets have been used, every widget   *)
(* shows the setting that the call uses: "controls are the single source of  *)
(* truth" (gui_network.py:3-5).                                              *)
PanelTellsTheTruth ==
    /\ caption = [k \in Sliders |-> knobs[k]]
    /\ \A k \in Sliders : ToKnob(k, position[k]) = knobs[k]
    /\ radio = [k \in Radios |-> knobs[k]]
    /\ burstOn = (knobs.loss_model = "burst")

(* The settings at the start, with the changes noted up to row n: each knob  *)
(* has the value of the last event about it.                                 *)
Noted(k, n) == {i \in DOMAIN samples.events :
                    samples.events[i].change.knob = k /\ samples.events[i].row <= n}

Replayed(n) ==
    [k \in DOMAIN samples.start |->
        IF Noted(k, n) = {} THEN samples.start[k]
        ELSE samples.events[Max(Noted(k, n))].change.new]

(* The events explain the rows: every change between two samples is noted    *)
(* once, with the value it replaced, so the exported settings of a row are   *)
(* those its events lead to (telemetry.py:101-110).                          *)
EventsExplainRows ==
    \A n \in DOMAIN samples.rows :
        /\ Replayed(n) = samples.rows[n]
        /\ \A i \in DOMAIN samples.events :
              LET e == samples.events[i]
              IN  e.row = n => Replayed(n - 1)[e.change.knob] = e.change.old

(* An export agrees with itself although sampling goes on and another call   *)
(* may begin while it is written: the summary's segments are the rows of the *)
(* timeline, none left out, each under one setting, with events of none but  *)
(* these rows, and the charts show the same rows (gui.py:443-444,            *)
(* gui_logic.py:276-284, telemetry.py:116-142).                              *)
ExportAgreesWithItself ==
    written.segments # <<>> =>
        /\ FlattenSeq(written.segments) = written.timeline
        /\ written.charts \in {<<>>, written.timeline}
        /\ \A i \in DOMAIN written.segments :
              /\ \A j \in DOMAIN written.segments[i] :
                    written.segments[i][j] = written.segments[i][1]
              /\ i > 1 => written.segments[i][1] # written.segments[i - 1][1]
        /\ \A i \in DOMAIN written.events :
              written.events[i].row <= Len(written.timeline)

=============================================================================
