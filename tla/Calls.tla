-------------------------------- MODULE Calls --------------------------------
(***************************************************************************)
(* The two ways to a call.  By name, a scan finds the friend               *)
(* (FriendCalls); at an address that was given, the LAN plays no part.     *)
(* Once somebody is reached, setting the call up (CallSetup) is the same   *)
(* code for both and does not depend on the way, so it is composed with    *)
(* the second way only.                                                    *)
(***************************************************************************)
EXTENDS FriendCalls, CallSetup

VARIABLE way

ByName    == way = "name"
AtAddress == way = "address"

CInit ==
    /\ way \in {"name", "address"}
    /\ FriendInit /\ SetUpInit
    /\ AtAddress => On = {}
    /\ ByName => ~asks

CNext ==
    \/ ByName /\ FriendNext /\ UNCHANGED <<way, setUpVars>>
    \/ AtAddress /\ CallAddress /\ UNCHANGED <<way, lanVars, setUpVars>>
    \/ AtAddress /\ reached # {} /\ SetUpNext /\ UNCHANGED <<way, friendVars>>

(* SetUpFairness, once the set-up has begun. *)
CFairness ==
    /\ WF_setUpVars(AtAddress /\ reached # {} /\ CallerGoesOn)
    /\ WF_setUpVars(AtAddress /\ reached # {} /\ ListenerGoesOn)

CSpec == CInit /\ [][CNext]_<<way, friendVars, setUpVars>> /\ CFairness

=============================================================================
