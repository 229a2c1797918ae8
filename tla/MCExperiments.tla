----------------------------- MODULE MCExperiments --------------------------
(* The sequence space ends after three frames, two copies fit in the proxy.  *)
EXTENDS Experiments
MCDatagrams == 0..MaxSeq
=============================================================================
