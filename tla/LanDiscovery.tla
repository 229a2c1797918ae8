---------------------------- MODULE LanDiscovery -----------------------------
(***************************************************************************)
(* LAN discovery (discovery.py): devices broadcast who and where they are; *)
(* one Discovery object listens and keeps the table that peers() reads.    *)
(* The time unit is the poll of the announcing loop (0.5 s).  A datagram   *)
(* arrives within MaxDelay units, once, several times or never.            *)
(***************************************************************************)
EXTENDS Integers, FiniteSets, Functions

CONSTANTS Devices, Me,      (* Me: the device that listens                 *)
          Addresses,
          AnnounceEvery, ExpireAfter, MaxPeers,
          MaxDelay,         (* of the network                              *)
          MaxMoves,         (* bound: changes of address                   *)
          MaxLost,          (* bound: datagrams lost                       *)
          MaxTime           (* bound on the clock                          *)

ASSUME LanAssumption ==
    /\ Me \in Devices
    /\ {AnnounceEvery, ExpireAfter, MaxPeers, MaxDelay, MaxMoves, MaxLost, MaxTime} \subseteq Nat
    /\ AnnounceEvery > 0

VARIABLES
    now,
    addr,       (* addr[d]: where d is reachable and announcing, or nowhere *)
    due,        (* due[d]: when d announces next                            *)
    air,        (* datagrams under way                                      *)
    seen,       (* the table: key -> when it was last heard                *)
    moves, lost,
    steady      (* history: devices that stayed on, at one address, and     *)
                (* reached the table every time, since it was started       *)

lanVars == <<now, addr, due, air, seen, moves, lost, steady>>

Nowhere == "nowhere"

(* An entry is identified by fingerprint hint, address and port.             *)
KeyOf(d) == [hint |-> d, address |-> addr[d]]
On == {d \in Devices : addr[d] # Nowhere}

LanInit ==
    /\ now = 0
    /\ addr \in [Devices -> Addresses \cup {Nowhere}]
    /\ \A d, e \in On : addr[d] = addr[e] => d = e
    /\ due \in [Devices -> 0..AnnounceEvery]
    /\ \A d \in Devices \ On : due[d] = 0
    /\ air = {} /\ seen = [k \in {} |-> 0]
    /\ moves = 0 /\ lost = 0
    /\ steady = On

-----------------------------------------------------------------------------
(* The announcing loop of _run: it looks at the clock once per unit, so an   *)
(* announcement is at most a unit late.                                      *)

(* Mutant: the next announcement comes when the last one expires. *)
NextAnnounceSeldom == now + ExpireAfter

NextAnnounce == now + AnnounceEvery

Announce(d) ==
    /\ d \in On /\ due[d] <= now
    /\ due' = [due EXCEPT ![d] = NextAnnounce]
    /\ air' = air \cup {[key |-> KeyOf(d), sent |-> now]}
    /\ UNCHANGED <<now, addr, seen, moves, lost, steady>>

LanTick ==
    /\ now < MaxTime
    /\ \A d \in On : now <= due[d]
    /\ \A dg \in air : now < dg.sent + MaxDelay
    /\ now' = now + 1
    /\ UNCHANGED <<addr, due, air, seen, moves, lost, steady>>

(* Another program ends, or begins, or its device gets a new address, which  *)
(* may be the one that a device now off the network had.                     *)
Move(d) ==
    /\ moves < MaxMoves /\ moves' = moves + 1
    /\ \E a \in (Addresses \ {addr[d], addr[Me]}) \cup ({Nowhere} \ {addr[d]}) :
          addr' = [e \in Devices |-> IF e = d THEN a
                                     ELSE IF addr[e] = a THEN Nowhere ELSE addr[e]]
    /\ due' = [e \in Devices |-> IF addr'[e] = addr[e] THEN due[e] ELSE now]
    /\ steady' = {e \in steady : addr'[e] = addr[e]}
    /\ UNCHANGED <<now, air, seen, lost>>

-----------------------------------------------------------------------------
(* The table. *)

Live(table, t) == {k \in DOMAIN table : t - table[k] < ExpireAfter}

(* observe(): expired entries go, a new one finds room or is not kept, a     *)
(* known one is refreshed.                                                   *)
Enter(k) ==
    LET kept == Restrict(seen, Live(seen, now))
    IN  IF k \notin DOMAIN kept /\ Cardinality(DOMAIN kept) >= MaxPeers
        THEN kept
        ELSE [x \in DOMAIN kept \cup {k} |-> IF x = k THEN now ELSE kept[x]]

(* The datagram may arrive again while it is under way. *)
Observe(dg, again) ==
    /\ dg \in air
    /\ air' = IF again THEN air ELSE air \ {dg}
    /\ IF dg.key.hint = Me
       THEN UNCHANGED <<seen, steady>>
       ELSE /\ seen' = Enter(dg.key)
            /\ steady' = IF dg.key \in DOMAIN Enter(dg.key) THEN steady
                         ELSE steady \ {dg.key.hint}
    /\ UNCHANGED <<now, addr, due, moves, lost>>

Lose(dg) ==
    /\ dg \in air /\ lost < MaxLost
    /\ air' = air \ {dg}
    /\ lost' = lost + 1
    /\ steady' = steady \ {dg.key.hint}
    /\ UNCHANGED <<now, addr, due, seen, moves>>

(* peers() *)
NearbyPeers == Live(seen, now)

LanNext ==
    \/ LanTick
    \/ \E d \in Devices : Announce(d)
    \/ \E d \in Devices \ {Me} : Move(d)
    \/ \E dg \in air : Lose(dg) \/ \E again \in BOOLEAN : Observe(dg, again)

=============================================================================
