------------------------------ MODULE VoicePath -----------------------------
(***************************************************************************)
(* A sender whose voice goes through the impairment proxy: VoiceSender and *)
(* ImpairmentProxy, composed over the network between them.                *)
(***************************************************************************)
EXTENDS VoiceSender, ImpairmentProxy

vars == <<svars, pvars>>

Init == SInit /\ PInit

Next ==
    \/ SNext /\ UNCHANGED pvars
    \/ PNext /\ UNCHANGED <<source, sender, seq, loss, sline, counters, stop, spilt>>

Spec == Init /\ [][Next]_vars /\ SFairness /\ PFairness

=============================================================================
