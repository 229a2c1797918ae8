------------------------------- MODULE Window -------------------------------
(***************************************************************************)
(* The window of gui.py from its two sides: the life of calls (CallWindow) *)
(* and what is turned, sampled and exported meanwhile (LivePanel).  They   *)
(* meet in _go_live and in the drain of "done", which CallWindow's Connects*)
(* and CallDone and LivePanel's BeginSampling and FinishSampling each show *)
(* their half of; one side moves at a time.                                *)
(***************************************************************************)
EXTENDS CallWindow, LivePanel

VARIABLE side

OfCalls == side = "calls"
OfPanel == side = "panel"

WInit == side \in {"calls", "panel"} /\ Init /\ PanelInit

WNext ==
    \/ OfCalls /\ Next /\ UNCHANGED <<side, panelVars>>
    \/ OfPanel /\ PanelNext /\ UNCHANGED <<side, vars>>

(* The Tk loop runs, and no step of a worker waits without a bound.          *)
WFairness ==
    /\ WF_vars(OfCalls /\ TkThread)
    /\ WF_vars(OfCalls /\ WorkerThread)

WSpec == WInit /\ [][WNext]_<<side, vars, panelVars>> /\ WFairness

=============================================================================
