------------------------------- MODULE Pairing ------------------------------
(***************************************************************************)
(* A pairing in its two stages: the listener that lets one attempt in      *)
(* (Listener) and the exchange with the other device (PairingExchange).    *)
(* The listener's PairingSucceeds and PairingFails stand for the ends of   *)
(* the exchange; one stage is followed at a time.                          *)
(***************************************************************************)
EXTENDS Listener, PairingExchange

VARIABLE stage

AtListener == stage = "listener"
AtExchange == stage = "exchange"

PInit ==
    /\ stage \in {"listener", "exchange"}
    /\ Init /\ ExchangeInit
    /\ AtExchange => serving = "pair"

PNext ==
    \/ AtListener /\ Next /\ UNCHANGED <<stage, exchangeVars>>
    \/ AtExchange /\ ExchangeNext /\ UNCHANGED <<stage, vars>>

(* As in Listener and PairingExchange: threads are scheduled and the clocks  *)
(* run; no user has to answer.                                               *)
PFairness ==
    /\ WF_vars(AtListener /\ Main)
    /\ WF_vars(AtListener /\ Acceptor)
    /\ WF_vars(AtListener /\ TimeRunsOut)
    /\ \A c \in Conns : WF_vars(AtListener /\ Worker(c))
    /\ \A d \in Devices :
          /\ WF_exchangeVars(AtExchange /\ Run(d))
          /\ WF_exchangeVars(AtExchange /\ DeadlinePasses(d))

PSpec == PInit /\ [][PNext]_<<stage, vars, exchangeVars>> /\ PFairness

-----------------------------------------------------------------------------
(* allow_pairing returns: after success, a mismatch, or when time runs out,  *)
(* whatever the workers are doing (pairflow.py:104).                         *)
AllowPairingReturns == AtListener /\ serving = "pair" ~> main = "left"

(* Every run ends, whoever of the two users never answers: each step and the *)
(* decision have deadlines (pairing.py:132, 172).                            *)
RunsEnd == \A d \in Devices : AtExchange ~> Gone(d)

=============================================================================
