------------------------------- MODULE MCCalls -------------------------------
(* Two devices besides this one, two addresses, a table of one place.  A     *)
(* unit of time is one poll of the announcing loop (0.5 s); the code's       *)
(* values are AnnounceEvery 4, ExpireAfter 12, MaxPeers 64 and ScanTime 8.   *)
EXTENDS Calls
CONSTANTS me, a2
(* The two addresses are interchangeable: this device is never at the second *)
(* one to begin with.                                                        *)
MCInit == CInit /\ addr[me] # a2
MCSpec == MCInit /\ [][CNext]_<<way, friendVars, setUpVars>> /\ CFairness
=============================================================================
