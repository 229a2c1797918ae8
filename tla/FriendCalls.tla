----------------------------- MODULE FriendCalls -----------------------------
(***************************************************************************)
(* Calling a friend by name (demo.call_friend): the friends are read from  *)
(* the trust store (TrustStore), the friend's address is looked up with a  *)
(* scan of the LAN, and whoever answers there must hold the key that was   *)
(* read (SecureChannel).                                                   *)
(***************************************************************************)
EXTENDS LanDiscovery

CONSTANTS ScanTime,         (* how long a scan listens                     *)
          Target            (* the friend the user names                   *)

ASSUME ScanAssumption == ScanTime \in Nat /\ Target \in Devices \ {Me}

VARIABLES
    caller,     (* where call_friend is                                    *)
    friends,    (* whom the store held when it was read                    *)
    pins,       (* the keys the call accepts                               *)
    found,      (* the address of the target, as heard                     *)
    reached     (* the device whose handshake passed                       *)

callVars   == <<caller, friends, pins, found, reached>>
friendVars == <<lanVars, callVars>>

Given == "given by the user"

FriendInit ==
    /\ LanInit
    /\ friends \in SUBSET (Devices \ {Me})
    /\ caller = "idle" /\ pins = {} /\ found = Nowhere /\ reached = {}

-----------------------------------------------------------------------------
(* Mutant: any friend may answer. *)
PinsAnyFriend(f) == friends

(* Called by name, only the named friend may answer. *)
PinsOf(f) == {f}

(* _friend_store_or_exit and find(): an unknown name ends the program.       *)
FindFriend ==
    /\ caller = "idle"
    /\ IF Target \in friends
       THEN caller' = "scanning" /\ pins' = PinsOf(Target)
       ELSE caller' = "done" /\ UNCHANGED pins
    /\ UNCHANGED <<friends, found, reached>>

Hits == {k \in NearbyPeers : k.hint = Target}

(* resolve(): the scan is over; exactly one device matches, or none is       *)
(* called.                                                                   *)
Resolve ==
    /\ caller = "scanning" /\ now >= ScanTime
    /\ IF Cardinality(Hits) = 1
       THEN caller' = "connecting" /\ \E k \in Hits : found' = k.address
       ELSE caller' = "done" /\ UNCHANGED found
    /\ UNCHANGED <<friends, pins, reached>>

(* Whoever is at that address now answers, or nobody; its key must be among  *)
(* the pins, and it must trust this device.                                  *)
ConnectToFriend ==
    /\ caller = "connecting"
    /\ caller' = "done"
    /\ \/ UNCHANGED reached
       \/ \E d \in pins : addr[d] = found /\ reached' = {d}
    /\ UNCHANGED <<friends, pins, found>>

(* HOST:PORT was given: any friend may answer there, if there is one.        *)
CallAddress ==
    /\ caller = "idle"
    /\ caller' = "done" /\ pins' = friends /\ found' = Given
    /\ reached' = {} \/ \E d \in pins' : reached' = {d}
    /\ UNCHANGED friends

(* The LAN goes on while the caller scans and connects; the scan begins with *)
(* an empty table when the store has been read.                              *)
FriendNext ==
    \/ caller \in {"scanning", "connecting"} /\ LanNext /\ UNCHANGED callVars
    \/ (FindFriend \/ Resolve \/ ConnectToFriend) /\ UNCHANGED lanVars

-----------------------------------------------------------------------------
FriendTypeOK ==
    /\ caller \in {"idle", "scanning", "connecting", "done"}
    /\ friends \subseteq Devices \ {Me} /\ pins \subseteq friends
    /\ found \in Addresses \cup {Nowhere, Given} /\ reached \subseteq Devices

(* A call by name reaches that friend and nobody else, although the address  *)
(* it heard may by now be another friend's: discovery is "a phonebook, never *)
(* a trust signal" (discovery.py:1, demo.py:796).  At an address any friend  *)
(* may answer, and nobody else.                                              *)
NameMeansFriend ==
    /\ reached \subseteq friends
    /\ found # Given => reached \subseteq {Target}

(* A device that is on, and whose announcements arrive, has been heard when  *)
(* the scan is over: the scan outlasts the longest gap between two of its    *)
(* announcements (discovery.py:15, 111-117, pairflow.py:11).                 *)
ScanHearsWhoIsThere ==
    caller = "scanning" /\ now >= ScanTime =>
        \A d \in steady \ {Me} : KeyOf(d) \in NearbyPeers

=============================================================================
