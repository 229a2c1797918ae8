---------------------------- MODULE Calls_proof -----------------------------
(***************************************************************************)
(* Reaching a friend, setting the call up and controlling it.              *)
(*                                                                         *)
(* For any devices, addresses, times and table sizes, any number of frames *)
(* and any drain that takes them: who can answer a call by name, when the  *)
(* caller's window may say that the call is live, and what the listener    *)
(* never plays.                                                            *)
(*                                                                         *)
(* For any number of rotations, any delay of the control channel and any   *)
(* of the faults: honest peers never meet a protocol error, and a working  *)
(* channel brings both rings to the same generation.                       *)
(***************************************************************************)
EXTENDS CallControl, Calls, FiniteSetTheorems, TLAPS

(* The way to the call: the pins are those of the name, from the look-up in  *)
(* the store to the connection, and nobody is reached before the end.        *)
WayInv ==
    /\ caller \in {"idle", "scanning", "connecting"} => reached = {}
    /\ caller \in {"scanning", "connecting"} => Target \in friends /\ pins = {Target}
    /\ NameMeansFriend

LEMMA WayInvInit == FriendInit => WayInv
BY DEF FriendInit, WayInv, NameMeansFriend

LEMMA WayInvStep ==
    ASSUME WayInv, [FriendNext \/ CallAddress]_friendVars
    PROVE  WayInv'
<1> USE DEF WayInv, NameMeansFriend
<1>1. CASE UNCHANGED callVars
      BY <1>1 DEF callVars
<1>2. CASE FindFriend
  <2>1. CASE Target \in friends
        BY <1>2, <2>1 DEF FindFriend, PinsOf
  <2>2. CASE Target \notin friends
        BY <1>2, <2>2 DEF FindFriend
  <2>3. QED BY <2>1, <2>2
<1>3. CASE Resolve
      BY <1>3 DEF Resolve
<1>4. CASE ConnectToFriend
  <2>1. reached' = {} \/ reached' \subseteq {Target}
        BY <1>4 DEF ConnectToFriend
  <2>2. Target \in friends' /\ caller' = "done"
        BY <1>4 DEF ConnectToFriend
  <2>3. QED BY <2>1, <2>2
<1>5. CASE CallAddress
      BY <1>5 DEF CallAddress
<1>6. QED BY <1>1, <1>2, <1>3, <1>4, <1>5 DEF FriendNext, friendVars

(* A call by name reaches the named friend and nobody else, wherever its     *)
(* address has gone since it was heard; a call to an address reaches a       *)
(* friend (demo.py:790-796, discovery.py:1).                                 *)
THEOREM ByNameOnlyTheFriend == CSpec => []NameMeansFriend
<1>1. CInit => WayInv
      BY WayInvInit DEF CInit
<1>2. WayInv /\ [CNext]_<<way, friendVars, setUpVars>> => WayInv'
      BY WayInvStep DEF CNext
<1>3. WayInv => NameMeansFriend
      BY DEF WayInv
<1>4. QED BY <1>1, <1>2, <1>3, PTL DEF CSpec

-----------------------------------------------------------------------------
(* The scan. *)

(* It listens, and an entry lasts, longer than the longest gap between two   *)
(* announcements and the way of the second one take.                         *)
ScanOutlastsAGap ==
    /\ AnnounceEvery + MaxDelay + 2 <= ScanTime
    /\ AnnounceEvery + MaxDelay + 2 < ExpireAfter

HeardSince(d, t) == KeyOf(d) \in DOMAIN seen /\ seen[KeyOf(d)] >= t

UnderWay(d, from, to) ==
    \E dg \in air : dg.key = KeyOf(d) /\ from <= dg.sent /\ dg.sent <= to

Keys == [hint : Devices, address : Addresses]

LanTypes ==
    /\ now \in Nat /\ due \in [Devices -> Nat]
    /\ addr \in [Devices -> Addresses \cup {Nowhere}]
    /\ \A d \in On : now <= due[d] + 1
    /\ \A dg \in air : dg.sent \in 0..now /\ now <= dg.sent + MaxDelay /\ dg.key \in Keys
    /\ \A k \in DOMAIN seen : seen[k] \in 0..now /\ k \in Keys
    /\ steady \subseteq On

(* The last announcement of d, if it made one, is under way or was heard...  *)
LastKnown(d) ==
    \/ due[d] <= AnnounceEvery
    \/ UnderWay(d, due[d] - AnnounceEvery, now)
    \/ HeardSince(d, due[d] - AnnounceEvery)

(* ...and so is one of any past span as long as the gap. *)
NoGap(d) ==
    \A t \in Nat : t + AnnounceEvery + 1 < now =>
        HeardSince(d, t) \/ UnderWay(d, t, t + AnnounceEvery + 1)

ScanInv == LanTypes /\ \A d \in steady \ {Me} : LastKnown(d) /\ NoGap(d)

LEMMA LanNumbers ==
    /\ AnnounceEvery \in Nat /\ AnnounceEvery > 0 /\ ExpireAfter \in Nat
    /\ MaxDelay \in Nat /\ ScanTime \in Nat
BY LanAssumption, ScanAssumption

LEMMA ScanInvInit == LanInit => ScanInv
<1> SUFFICES ASSUME LanInit PROVE ScanInv
    OBVIOUS
<1>1. /\ now = 0 /\ air = {} /\ DOMAIN seen = {} /\ steady = On
      /\ addr \in [Devices -> Addresses \cup {Nowhere}] /\ due \in [Devices -> 0..AnnounceEvery]
      BY DEF LanInit
<1>2. LanTypes
  <2>1. due \in [Devices -> Nat]
        BY <1>1, LanNumbers
  <2>2. QED BY <1>1, <2>1, LanNumbers DEF LanTypes, On
<1>3. ASSUME NEW d \in steady
      PROVE  LastKnown(d) /\ NoGap(d)
  <2>1. d \in Devices /\ due[d] \in 0..AnnounceEvery
        BY <1>1, <1>3 DEF On
  <2>2. QED BY <1>1, <2>1, LanNumbers DEF LastKnown, NoGap
<1>4. QED BY <1>2, <1>3 DEF ScanInv

(* What was heard of a steady device has not expired. *)
LEMMA HeardIsLive ==
    ASSUME ScanOutlastsAGap, LanTypes, NEW d \in steady \ {Me}, NoGap(d),
           KeyOf(d) \in DOMAIN seen
    PROVE  KeyOf(d) \in Live(seen, now)
<1> DEFINE K == KeyOf(d)
           late == AnnounceEvery + MaxDelay + 2
<1>1. /\ now \in Nat /\ seen[K] \in 0..now /\ late \in Nat /\ late < ExpireAfter
      BY LanNumbers DEF LanTypes, ScanOutlastsAGap
<1>2. CASE now < late
      BY <1>1, <1>2, LanNumbers DEF Live
<1>3. CASE now >= late
  <2> DEFINE t == now - late
  <2>1. t \in Nat /\ t + AnnounceEvery + 1 < now
        BY <1>1, <1>3, LanNumbers
  <2>2. HeardSince(d, t) \/ UnderWay(d, t, t + AnnounceEvery + 1)
        BY <2>1 DEF NoGap
  <2>3. ~UnderWay(d, t, t + AnnounceEvery + 1)
    <3> SUFFICES ASSUME NEW dg \in air, dg.sent <= t + AnnounceEvery + 1
                 PROVE  FALSE
        BY DEF UnderWay
    <3>1. dg.sent \in Nat /\ now <= dg.sent + MaxDelay
          BY DEF LanTypes
    <3>2. QED BY <1>1, <2>1, <3>1, LanNumbers
  <2>4. seen[K] >= t
        BY <2>2, <2>3 DEF HeardSince
  <2>5. now - seen[K] < ExpireAfter
        BY <1>1, <2>1, <2>4, LanNumbers
  <2>6. QED BY <2>5 DEF Live
<1>4. QED BY <1>1, <1>2, <1>3

LEMMA EnterIs ==
    ASSUME NEW k
    PROVE  /\ DOMAIN Enter(k) \subseteq Live(seen, now) \cup {k}
           /\ Live(seen, now) \subseteq DOMAIN Enter(k)
           /\ k \in DOMAIN Enter(k) => Enter(k)[k] = now
           /\ \A x \in Live(seen, now) : x # k => Enter(k)[x] = seen[x]
<1> DEFINE L == Live(seen, now)
           kept == Restrict(seen, L)
           more == [x \in DOMAIN kept \cup {k} |-> IF x = k THEN now ELSE kept[x]]
<1>1. DOMAIN kept = L /\ \A x \in L : kept[x] = seen[x]
      BY DEF Restrict
<1>2. /\ DOMAIN more = L \cup {k} /\ more[k] = now
      /\ \A x \in L : x # k => more[x] = seen[x]
      BY <1>1
<1>3. (k \notin L /\ Enter(k) = kept) \/ Enter(k) = more
      BY <1>1 DEF Enter
<1> HIDE DEF kept, more, L
<1>4. QED BY <1>1, <1>2, <1>3 DEF L

LEMMA TickKeepsScan ==
    ASSUME ScanInv, LanTick
    PROVE  ScanInv'
<1>1. /\ now' = now + 1 /\ UNCHANGED <<addr, due, air, seen, steady>>
      /\ \A d \in On : now <= due[d]
      /\ \A dg \in air : now < dg.sent + MaxDelay
      BY DEF LanTick
<1>2. LanTypes
      BY DEF ScanInv
<1>3. LanTypes'
      BY <1>1, <1>2, LanNumbers DEF LanTypes, On
<1>4. ASSUME NEW d \in steady' \ {Me}
      PROVE  LastKnown(d)' /\ NoGap(d)'
  <2>1. /\ d \in steady \ {Me} /\ d \in On /\ d \in Devices /\ LastKnown(d) /\ NoGap(d)
        /\ due[d] \in Nat /\ now \in Nat /\ now <= due[d]
        BY <1>1, <1>2 DEF ScanInv, LanTypes, On
  <2>2. KeyOf(d)' = KeyOf(d)
        BY <1>1 DEF KeyOf
  <2>3. \A t : HeardSince(d, t) => HeardSince(d, t)'
        BY <1>1, <2>2 DEF HeardSince
  <2>4. ASSUME NEW t, NEW u
        PROVE  UnderWay(d, t, u) => UnderWay(d, t, u)'
        BY <1>1, <2>2 DEF UnderWay
  <2>5. LastKnown(d)'
    <3>2. UnderWay(d, due[d] - AnnounceEvery, now) => UnderWay(d, due[d] - AnnounceEvery, now)'
          BY <1>1, <1>2, <2>1, <2>2 DEF UnderWay, LanTypes
    <3>3. HeardSince(d, due[d] - AnnounceEvery) => HeardSince(d, due[d] - AnnounceEvery)'
          BY <1>1, <2>2 DEF HeardSince
    <3>4. QED BY <1>1, <2>1, <3>2, <3>3 DEF LastKnown
  <2>6. ASSUME NEW t \in Nat, t + AnnounceEvery + 1 < now + 1
        PROVE  HeardSince(d, t)' \/ UnderWay(d, t, t + AnnounceEvery + 1)'
    <3>1. CASE t + AnnounceEvery + 1 < now
          BY <2>1, <2>3, <2>4, <3>1 DEF NoGap
    <3>2. CASE t + AnnounceEvery + 1 = now
      <4>1. due[d] > AnnounceEvery /\ due[d] - AnnounceEvery >= t
            BY <2>1, <3>2, LanNumbers
      <4>2. CASE UnderWay(d, due[d] - AnnounceEvery, now)
        <5>1. PICK dg \in air : /\ dg.key = KeyOf(d)
                                /\ due[d] - AnnounceEvery <= dg.sent /\ dg.sent <= now
              BY <4>2 DEF UnderWay
        <5>2. dg.sent \in Nat
              BY <1>2 DEF LanTypes
        <5>3. t <= dg.sent /\ dg.sent <= t + AnnounceEvery + 1
              BY <2>1, <3>2, <4>1, <5>1, <5>2, LanNumbers
        <5>4. UnderWay(d, t, t + AnnounceEvery + 1)
              BY <5>1, <5>3 DEF UnderWay
        <5>5. QED BY <2>4, <5>4
      <4>3. CASE HeardSince(d, due[d] - AnnounceEvery)
        <5>1. KeyOf(d) \in DOMAIN seen /\ seen[KeyOf(d)] \in Nat
              BY <1>2, <4>3 DEF HeardSince, LanTypes
        <5>2. HeardSince(d, t)
              BY <2>1, <4>1, <4>3, <5>1, LanNumbers DEF HeardSince
        <5>3. QED BY <2>3, <5>2
      <4>4. QED BY <2>1, <4>1, <4>2, <4>3, LanNumbers DEF LastKnown
    <3>3. QED BY <2>1, <2>6, <3>1, <3>2, LanNumbers
  <2>7. NoGap(d)'
        BY <1>1, <2>6 DEF NoGap
  <2>8. QED BY <2>5, <2>7
<1>5. QED BY <1>3, <1>4 DEF ScanInv

LEMMA AnnounceKeepsScan ==
    ASSUME ScanInv, NEW e \in Devices, Announce(e)
    PROVE  ScanInv'
<1> DEFINE new == [key |-> KeyOf(e), sent |-> now]
<1>1. /\ e \in On /\ due' = [due EXCEPT ![e] = now + AnnounceEvery] /\ air' = air \cup {new}
      /\ UNCHANGED <<now, addr, seen, steady>>
      BY DEF Announce, NextAnnounce
<1>2. LanTypes
      BY DEF ScanInv
<1>3. new.sent = now /\ new.key = KeyOf(e) /\ KeyOf(e) \in Keys
  <2>1. addr[e] \in Addresses
        BY <1>1, <1>2 DEF LanTypes, On
  <2>2. QED BY <2>1 DEF KeyOf, Keys
<1> HIDE DEF new
<1>4. LanTypes'
  <2>1. \A dg \in air' : dg.sent \in 0..now' /\ now' <= dg.sent + MaxDelay /\ dg.key \in Keys
        BY <1>1, <1>2, <1>3, LanNumbers DEF LanTypes
  <2>2. due' \in [Devices -> Nat] /\ \A d \in On : now <= due'[d] + 1
        BY <1>1, <1>2, LanNumbers DEF LanTypes, On
  <2>3. On' = On
        BY <1>1 DEF On
  <2>4. QED BY <1>1, <1>2, <2>1, <2>2, <2>3 DEF LanTypes
<1>5. ASSUME NEW d \in steady' \ {Me}
      PROVE  LastKnown(d)' /\ NoGap(d)'
  <2>1. /\ d \in steady \ {Me} /\ d \in Devices /\ LastKnown(d) /\ NoGap(d)
        /\ due[d] \in Nat /\ now \in Nat
        BY <1>1, <1>2 DEF ScanInv, LanTypes, On
  <2>2. KeyOf(d)' = KeyOf(d)
        BY <1>1 DEF KeyOf
  <2>3. ASSUME NEW t
        PROVE  HeardSince(d, t) => HeardSince(d, t)'
        BY <1>1, <2>2 DEF HeardSince
  <2>4. ASSUME NEW t, NEW u
        PROVE  UnderWay(d, t, u) => UnderWay(d, t, u)'
        BY <1>1, <2>2 DEF UnderWay
  <2>5. NoGap(d)'
        BY <1>1, <2>1, <2>3, <2>4 DEF NoGap
  <2>6. CASE d = e
    <3>1. due'[d] - AnnounceEvery = now
          BY <1>1, <1>2, <2>1, <2>6, LanNumbers DEF LanTypes
    <3>2. UnderWay(d, now, now)'
          BY <1>1, <1>3, <2>1, <2>2, <2>6 DEF UnderWay
    <3>3. UnderWay(d, due[d] - AnnounceEvery, now)'
          BY <1>1, <3>1, <3>2
    <3>4. QED BY <2>5, <3>3 DEF LastKnown
  <2>7. CASE d # e
    <3>1. due'[d] = due[d]
          BY <1>1, <1>2, <2>1, <2>7 DEF LanTypes
    <3>2. UnderWay(d, due[d] - AnnounceEvery, now) => UnderWay(d, due[d] - AnnounceEvery, now)'
          BY <1>1, <2>2, <3>1 DEF UnderWay
    <3>3. HeardSince(d, due[d] - AnnounceEvery) => HeardSince(d, due[d] - AnnounceEvery)'
          BY <1>1, <2>2, <3>1 DEF HeardSince
    <3>4. QED BY <2>1, <2>5, <3>1, <3>2, <3>3 DEF LastKnown
  <2>8. QED BY <2>6, <2>7
<1>6. QED BY <1>4, <1>5 DEF ScanInv

LEMMA MoveKeepsScan ==
    ASSUME ScanInv, NEW e \in Devices \ {Me}, Move(e)
    PROVE  ScanInv'
<1>1. /\ UNCHANGED <<now, air, seen>> /\ steady' = {x \in steady : addr'[x] = addr[x]}
      /\ due' = [x \in Devices |-> IF addr'[x] = addr[x] THEN due[x] ELSE now]
      BY DEF Move
<1>2. LanTypes
      BY DEF ScanInv
<1>3. addr' \in [Devices -> Addresses \cup {Nowhere}]
  <2>1. PICK a \in Addresses \cup {Nowhere} :
           addr' = [x \in Devices |-> IF x = e THEN a ELSE IF addr[x] = a THEN Nowhere ELSE addr[x]]
        BY DEF Move
  <2>2. QED BY <1>2, <2>1 DEF LanTypes
<1>4. LanTypes'
  <2>1. due' \in [Devices -> Nat]
        BY <1>1, <1>2 DEF LanTypes
  <2>2. \A d \in On' : now' <= due'[d] + 1
        BY <1>1, <1>2 DEF LanTypes, On
  <2>3. steady' \subseteq On'
        BY <1>1, <1>2 DEF LanTypes, On
  <2>4. QED BY <1>1, <1>2, <1>3, <2>1, <2>2, <2>3 DEF LanTypes
<1>5. ASSUME NEW d \in steady' \ {Me}
      PROVE  LastKnown(d)' /\ NoGap(d)'
  <2>1. /\ d \in steady \ {Me} /\ d \in Devices /\ LastKnown(d) /\ NoGap(d)
        /\ addr'[d] = addr[d] /\ due'[d] = due[d]
        BY <1>1, <1>2 DEF ScanInv, LanTypes, On
  <2>2. KeyOf(d)' = KeyOf(d)
        BY <2>1 DEF KeyOf
  <2>3. ASSUME NEW t
        PROVE  HeardSince(d, t) => HeardSince(d, t)'
        BY <1>1, <2>2 DEF HeardSince
  <2>4. ASSUME NEW t, NEW u
        PROVE  UnderWay(d, t, u) => UnderWay(d, t, u)'
        BY <1>1, <2>2 DEF UnderWay
  <2>5. NoGap(d)'
        BY <1>1, <2>1, <2>3, <2>4 DEF NoGap
  <2>6. UnderWay(d, due[d] - AnnounceEvery, now) => UnderWay(d, due[d] - AnnounceEvery, now)'
        BY <1>1, <2>1, <2>2 DEF UnderWay
  <2>7. HeardSince(d, due[d] - AnnounceEvery) => HeardSince(d, due[d] - AnnounceEvery)'
        BY <1>1, <2>1, <2>2 DEF HeardSince
  <2>8. QED BY <2>1, <2>5, <2>6, <2>7 DEF LastKnown
<1>6. QED BY <1>4, <1>5 DEF ScanInv

LEMMA LoseKeepsScan ==
    ASSUME ScanInv, NEW lostOne \in air, Lose(lostOne)
    PROVE  ScanInv'
<1>1. /\ air' = air \ {lostOne} /\ steady' = steady \ {lostOne.key.hint}
      /\ UNCHANGED <<now, addr, due, seen>>
      BY DEF Lose
<1>2. LanTypes
      BY DEF ScanInv
<1>3. LanTypes'
      BY <1>1, <1>2 DEF LanTypes, On
<1>4. ASSUME NEW d \in steady' \ {Me}
      PROVE  LastKnown(d)' /\ NoGap(d)'
  <2>1. d \in steady \ {Me} /\ d # lostOne.key.hint /\ LastKnown(d) /\ NoGap(d)
        BY <1>1 DEF ScanInv
  <2>2. KeyOf(d)' = KeyOf(d) /\ lostOne.key # KeyOf(d)
        BY <1>1, <2>1 DEF KeyOf
  <2>3. ASSUME NEW t
        PROVE  HeardSince(d, t) => HeardSince(d, t)'
        BY <1>1, <2>2 DEF HeardSince
  <2>4. ASSUME NEW t, NEW u
        PROVE  UnderWay(d, t, u) => UnderWay(d, t, u)'
        BY <1>1, <2>2 DEF UnderWay
  <2>5. NoGap(d)'
        BY <1>1, <2>1, <2>3, <2>4 DEF NoGap
  <2>6. UnderWay(d, due[d] - AnnounceEvery, now) => UnderWay(d, due[d] - AnnounceEvery, now)'
        BY <1>1, <2>2 DEF UnderWay
  <2>7. HeardSince(d, due[d] - AnnounceEvery) => HeardSince(d, due[d] - AnnounceEvery)'
        BY <1>1, <2>2 DEF HeardSince
  <2>8. QED BY <1>1, <2>1, <2>5, <2>6, <2>7 DEF LastKnown
<1>5. QED BY <1>3, <1>4 DEF ScanInv

LEMMA ObserveKeepsScan ==
    ASSUME ScanOutlastsAGap, ScanInv, NEW got \in air, NEW again \in BOOLEAN, Observe(got, again)
    PROVE  ScanInv'
<1>1. /\ air \ {got} \subseteq air' /\ air' \subseteq air
      /\ UNCHANGED <<now, addr, due>> /\ steady' \subseteq steady
      BY DEF Observe
<1>2. LanTypes /\ got.key \in Keys /\ now \in Nat
      BY DEF ScanInv, LanTypes
<1> DEFINE k == got.key
<1>3. CASE k.hint = Me
  <2>1. UNCHANGED <<seen, steady>>
        BY <1>3 DEF Observe
  <2>2. LanTypes'
        BY <1>1, <1>2, <2>1 DEF LanTypes, On
  <2>3. ASSUME NEW d \in steady' \ {Me}
        PROVE  LastKnown(d)' /\ NoGap(d)'
    <3>1. d \in steady \ {Me} /\ LastKnown(d) /\ NoGap(d)
          BY <2>1 DEF ScanInv
    <3>2. KeyOf(d)' = KeyOf(d) /\ k # KeyOf(d)
          BY <1>1, <1>3, <3>1 DEF KeyOf
    <3>3. ASSUME NEW t
          PROVE  HeardSince(d, t) => HeardSince(d, t)'
          BY <2>1, <3>2 DEF HeardSince
    <3>4. ASSUME NEW t, NEW u
          PROVE  UnderWay(d, t, u) => UnderWay(d, t, u)'
          BY <1>1, <3>2 DEF UnderWay
    <3>5. NoGap(d)'
          BY <1>1, <3>1, <3>3, <3>4 DEF NoGap
    <3>6. UnderWay(d, due[d] - AnnounceEvery, now) => UnderWay(d, due[d] - AnnounceEvery, now)'
          BY <1>1, <3>2 DEF UnderWay
    <3>7. HeardSince(d, due[d] - AnnounceEvery) => HeardSince(d, due[d] - AnnounceEvery)'
          BY <1>1, <2>1, <3>2 DEF HeardSince
    <3>8. QED BY <1>1, <3>1, <3>5, <3>6, <3>7 DEF LastKnown
  <2>4. QED BY <2>2, <2>3 DEF ScanInv
<1>4. CASE k.hint # Me
  <2>1. /\ seen' = Enter(k)
        /\ steady' = IF k \in DOMAIN Enter(k) THEN steady ELSE steady \ {k.hint}
        BY <1>4 DEF Observe
  <2>2. /\ DOMAIN seen' \subseteq Live(seen, now) \cup {k}
        /\ Live(seen, now) \subseteq DOMAIN seen'
        /\ k \in DOMAIN seen' => seen'[k] = now
        /\ \A x \in Live(seen, now) : x # k => seen'[x] = seen[x]
        BY <2>1, EnterIs
  <2>3. Live(seen, now) \subseteq DOMAIN seen
        BY DEF Live
  <2>4. LanTypes'
    <3>1. \A x \in DOMAIN seen' : seen'[x] \in 0..now /\ x \in Keys
          BY <1>2, <2>2, <2>3 DEF LanTypes
    <3>2. QED BY <1>1, <1>2, <3>1 DEF LanTypes, On
  <2>5. ASSUME NEW d \in steady' \ {Me}
        PROVE  LastKnown(d)' /\ NoGap(d)'
    <3>1. d \in steady \ {Me} /\ LastKnown(d) /\ NoGap(d) /\ d \in Devices /\ due[d] \in Nat
          BY <1>1, <1>2 DEF ScanInv, LanTypes, On
    <3>2. KeyOf(d)' = KeyOf(d)
          BY <1>1 DEF KeyOf
    <3> DEFINE K == KeyOf(d)
    <3>3. CASE k = K
      <4>1. K \in DOMAIN seen' /\ seen'[K] = now
        <5>1. k.hint = d
              BY <3>3 DEF KeyOf
        <5>2. QED BY <2>1, <2>2, <3>3, <5>1
      <4>2. \A t : t <= now => HeardSince(d, t)'
            BY <1>1, <3>2, <4>1 DEF HeardSince
      <4>3. NoGap(d)'
            BY <1>1, <1>2, <4>2, LanNumbers DEF NoGap
      <4>4. due[d] <= AnnounceEvery \/ due[d] - AnnounceEvery <= now
        <5>1. UnderWay(d, due[d] - AnnounceEvery, now) => due[d] - AnnounceEvery <= now
              BY <1>2, <3>1, LanNumbers DEF UnderWay, LanTypes
        <5>2. HeardSince(d, due[d] - AnnounceEvery) => due[d] - AnnounceEvery <= now
              BY <1>2, <3>1, LanNumbers DEF HeardSince, LanTypes
        <5>3. QED BY <3>1, <5>1, <5>2 DEF LastKnown
      <4>5. LastKnown(d)'
            BY <1>1, <4>2, <4>4 DEF LastKnown
      <4>6. QED BY <4>3, <4>5
    <3>4. CASE k # K
      <4>1. K \in DOMAIN seen => K \in DOMAIN seen' /\ seen'[K] = seen[K]
        <5>1. K \in DOMAIN seen => K \in Live(seen, now)
              BY <1>2, <3>1, HeardIsLive
        <5>2. QED BY <2>2, <3>4, <5>1
      <4>2. ASSUME NEW t
            PROVE  HeardSince(d, t) => HeardSince(d, t)'
            BY <3>2, <4>1 DEF HeardSince
      <4>3. ASSUME NEW t, NEW u
            PROVE  UnderWay(d, t, u) => UnderWay(d, t, u)'
            BY <1>1, <3>2, <3>4 DEF UnderWay
      <4>4. NoGap(d)'
            BY <1>1, <3>1, <4>2, <4>3 DEF NoGap
      <4>5. UnderWay(d, due[d] - AnnounceEvery, now) => UnderWay(d, due[d] - AnnounceEvery, now)'
            BY <1>1, <3>2, <3>4 DEF UnderWay
      <4>6. HeardSince(d, due[d] - AnnounceEvery) => HeardSince(d, due[d] - AnnounceEvery)'
            BY <1>1, <3>2, <4>1 DEF HeardSince
      <4>7. QED BY <1>1, <3>1, <4>4, <4>5, <4>6 DEF LastKnown
    <3>5. QED BY <3>3, <3>4
  <2>6. QED BY <2>4, <2>5 DEF ScanInv
<1>5. QED BY <1>3, <1>4

LEMMA ScanInvUnchanged ==
    ASSUME ScanInv, UNCHANGED lanVars
    PROVE  ScanInv'
BY DEF ScanInv, LanTypes, LastKnown, NoGap, HeardSince, UnderWay, KeyOf, On, lanVars

LEMMA ScanInvStep ==
    ASSUME ScanOutlastsAGap, ScanInv, [CNext]_<<way, friendVars, setUpVars>>
    PROVE  ScanInv'
<1>1. CASE LanNext
      BY <1>1, TickKeepsScan, AnnounceKeepsScan, MoveKeepsScan, LoseKeepsScan, ObserveKeepsScan
         DEF LanNext
<1>2. CASE UNCHANGED lanVars
      BY <1>2, ScanInvUnchanged
<1>3. QED BY <1>1, <1>2 DEF CNext, FriendNext, friendVars

LEMMA ScanIsOver ==
    ASSUME ScanOutlastsAGap, ScanInv
    PROVE  ScanHearsWhoIsThere
<1> SUFFICES ASSUME now >= ScanTime, NEW d \in steady \ {Me}
             PROVE  KeyOf(d) \in NearbyPeers
    BY DEF ScanHearsWhoIsThere
<1> DEFINE t == now - (AnnounceEvery + MaxDelay + 2)
<1>1. LanTypes /\ NoGap(d) /\ now \in Nat
      BY DEF ScanInv, LanTypes
<1>2. t \in Nat /\ t + AnnounceEvery + 1 < now
      BY <1>1, LanNumbers DEF ScanOutlastsAGap
<1>3. HeardSince(d, t) \/ UnderWay(d, t, t + AnnounceEvery + 1)
      BY <1>1, <1>2 DEF NoGap
<1>4. ~UnderWay(d, t, t + AnnounceEvery + 1)
  <2> SUFFICES ASSUME NEW dg \in air, dg.sent <= t + AnnounceEvery + 1
               PROVE  FALSE
      BY DEF UnderWay
  <2>1. dg.sent \in Nat /\ now <= dg.sent + MaxDelay
        BY <1>1 DEF LanTypes
  <2>2. QED BY <1>1, <1>2, <2>1, LanNumbers
<1>5. KeyOf(d) \in DOMAIN seen
      BY <1>3, <1>4 DEF HeardSince
<1>6. QED BY <1>1, <1>5, HeardIsLive DEF NearbyPeers

(* A device that stays on, at one address, and whose announcements arrive    *)
(* has been heard when the scan is over, whatever else happens on the LAN,   *)
(* provided that a scan, and an entry of the table, outlast the longest gap  *)
(* between two announcements and the network's delay (discovery.py:15,       *)
(* 111-117, pairflow.py:11).                                                 *)
THEOREM ScanIsLongEnough ==
    ASSUME ScanOutlastsAGap
    PROVE  CSpec => []ScanHearsWhoIsThere
<1>1. CInit => ScanInv
      BY ScanInvInit DEF CInit, FriendInit
<1>2. ScanInv /\ [CNext]_<<way, friendVars, setUpVars>> => ScanInv'
      BY ScanInvStep
<1>3. ScanInv => ScanHearsWhoIsThere
      BY ScanIsOver
<1>4. QED BY <1>1, <1>2, <1>3, PTL DEF CSpec

-----------------------------------------------------------------------------
(* Setting up. *)

(* Beyond the prompt there is a yes, and everything that can reach the       *)
(* caller from the listener comes from beyond the prompt.                    *)
AnsweredInv ==
    asks => (lis \in {"awaiting", "talking"} \/ back \/ live => reply = "yes")

(* Every frame under way, in the socket or settled has been sent; a settled  *)
(* one cannot arrive any more.                                               *)
SocketInv ==
    /\ frames \in 0..MaxFrames
    /\ underWay \subseteq 1..frames /\ socket \subseteq 1..frames /\ settled \subseteq 1..frames
    /\ underWay \cap settled = {}
    /\ StaleAudioIsGone

SetUpInv == AnsweredInv /\ SocketInv

LEMMA SetUpInvInit == SetUpInit => SetUpInv
BY SetUpAssumption DEF SetUpInit, SetUpInv, AnsweredInv, SocketInv, StaleAudioIsGone

LEMMA AnsweredInvStep ==
    ASSUME AnsweredInv, SetUpNext
    PROVE  AnsweredInv'
<1> USE DEF AnsweredInv, KeepListener, KeepCaller, heard, Goes, audio, shown
<1>1. CASE CallerSteps
      BY <1>1 DEF CallerSteps, StartCall, CallerFails, CallerSends, CallerHears, CallerReads,
                  CallerHangsUp
<1>2. CASE Arrives \/ IsLost
      BY <1>2 DEF Arrives, IsLost
<1>3. CASE OpenPort \/ PortFails \/ UserAnswers \/ HangUpEarly
      BY <1>3 DEF OpenPort, PortFails, UserAnswers, HangUpEarly
<1>4. CASE TakeAnswer \/ NoAnswer \/ Decline
      BY <1>4 DEF TakeAnswer, NoAnswer, Decline
<1>5. CASE StartArrives \/ NotStarted \/ ListenerPlays \/ ListenerSends
      BY <1>5 DEF StartArrives, NotStarted, ListenerPlays, ListenerSends
<1>6. CASE ListenerReads \/ ListenerHangsUp
      BY <1>6 DEF ListenerReads, ListenerHangsUp
<1>7. QED BY <1>1, <1>2, <1>3, <1>4, <1>5, <1>6 DEF SetUpNext, ListenerSteps

(* The drain takes all there can be: its limit is not below the frames.      *)
LEMMA DrainTakesAll ==
    ASSUME frames \in 0..MaxFrames, socket \subseteq 1..frames,
           NEW rest, rest \subseteq socket, Cardinality(rest) = AfterDrain(Cardinality(socket))
    PROVE  rest = {}
<1>1. IsFiniteSet(1..frames) /\ Cardinality(1..frames) = frames
      BY SetUpAssumption, FS_Interval
<1>2. IsFiniteSet(socket) /\ Cardinality(socket) <= frames
      BY <1>1, FS_Subset
<1>3. Cardinality(socket) \in Nat
      BY <1>2, FS_CardinalityType
<1>4. Cardinality(rest) = 0
      BY <1>2, <1>3, SetUpAssumption DEF AfterDrain
<1>5. IsFiniteSet(rest)
      BY <1>2, FS_Subset
<1>6. QED BY <1>4, <1>5, FS_EmptySet

LEMMA SocketInvStep ==
    ASSUME SocketInv, SetUpNext
    PROVE  SocketInv'
<1> DEFINE Still == UNCHANGED <<asks, frames, underWay, socket, settled>>
                    /\ (lis' = "talking" => lis = "talking")
<1>0. ASSUME Still PROVE SocketInv'
      BY <1>0 DEF SocketInv, StaleAudioIsGone
<1> USE DEF KeepListener, KeepCaller, heard, Goes, audio, shown
<1>1. CASE StartCall \/ CallerFails \/ CallerHears \/ CallerReads \/ CallerHangsUp
  <2>1. Still
        BY <1>1 DEF StartCall, CallerFails, CallerHears, CallerReads, CallerHangsUp
  <2>2. QED BY <2>1, <1>0
<1>2. CASE CallerSends
  <2>1. frames' \in 0..MaxFrames /\ 1..frames \subseteq 1..frames'
        BY <1>2, SetUpAssumption DEF CallerSends, SocketInv
  <2>2. /\ underWay' = underWay \cup {frames + 1}
        /\ frames + 1 \in 1..frames' /\ frames + 1 \notin settled
        BY <1>2, SetUpAssumption DEF CallerSends, SocketInv
  <2>3. UNCHANGED <<lis, asks, socket, settled>>
        BY <1>2 DEF CallerSends
  <2>4. QED BY <2>1, <2>2, <2>3 DEF SocketInv, StaleAudioIsGone
<1>3. CASE Arrives
      BY <1>3 DEF Arrives, SocketInv, StaleAudioIsGone
<1>4. CASE IsLost
      BY <1>4 DEF IsLost, SocketInv, StaleAudioIsGone
<1>5. CASE OpenPort \/ PortFails \/ UserAnswers \/ HangUpEarly
  <2>1. Still
        BY <1>5 DEF OpenPort, PortFails, UserAnswers, HangUpEarly
  <2>2. QED BY <2>1, <1>0
<1>6. CASE TakeAnswer \/ NoAnswer \/ Decline \/ NotStarted
  <2>1. Still
        BY <1>6 DEF TakeAnswer, NoAnswer, Decline, NotStarted
  <2>2. QED BY <2>1, <1>0
<1>7. CASE StartArrives
  <2>1. settled' = (1..frames) \ underWay /\ UNCHANGED <<asks, frames, underWay>>
        BY <1>7 DEF StartArrives
  <2>2. socket' \subseteq socket
        BY <1>7 DEF StartArrives
  <2>3. ASSUME asks PROVE socket' = {}
        BY <1>7, <2>2, <2>3, DrainTakesAll DEF StartArrives, SocketInv
  <2>4. QED BY <2>1, <2>2, <2>3 DEF SocketInv, StaleAudioIsGone
<1>8. CASE ListenerPlays
      BY <1>8 DEF ListenerPlays, SocketInv, StaleAudioIsGone
<1>9. CASE ListenerSends \/ ListenerReads \/ ListenerHangsUp
  <2>1. Still
        BY <1>9 DEF ListenerSends, ListenerReads, ListenerHangsUp
  <2>2. QED BY <2>1, <1>0
<1>10. QED BY <1>1, <1>2, <1>3, <1>4, <1>5, <1>6, <1>7, <1>8, <1>9
           DEF SetUpNext, CallerSteps, ListenerSteps

LEMMA SetUpInvStep ==
    ASSUME SetUpInv, [CNext]_<<way, friendVars, setUpVars>>
    PROVE  SetUpInv'
<1>1. CASE SetUpNext
      BY <1>1, AnsweredInvStep, SocketInvStep DEF SetUpInv
<1>2. CASE UNCHANGED setUpVars
      BY <1>2 DEF SetUpInv, AnsweredInv, SocketInv, StaleAudioIsGone, setUpVars, audio, shown
<1>3. QED BY <1>1, <1>2 DEF CNext

LEMMA SetUpInvAlways == CSpec => []SetUpInv
<1>1. CInit => SetUpInv
      BY SetUpInvInit DEF CInit
<1>2. QED BY <1>1, SetUpInvStep, PTL DEF CSpec

(* The caller's window never says that the call is live unless the user at   *)
(* the other end accepted it (gui.py:389).                                   *)
THEOREM LiveMeansAccepted == CSpec => []AudioMeansAnswered
<1>1. SetUpInv => AudioMeansAnswered
      BY DEF SetUpInv, AnsweredInv, AudioMeansAnswered
<1>2. QED BY <1>1, SetUpInvAlways, PTL

(* What was said while it rang and had arrived when the call started is      *)
(* never played, however much it was, as long as the drain takes what a      *)
(* caller can send until then (gui.py:378, demo.py:626-642).                 *)
THEOREM RingingIsNotPlayed == CSpec => []StaleAudioIsGone
<1>1. SetUpInv => StaleAudioIsGone
      BY DEF SetUpInv, SocketInv
<1>2. QED BY <1>1, SetUpInvAlways, PTL

-----------------------------------------------------------------------------
(* Controlling the call. *)

-----------------------------------------------------------------------------
(* The two peers. *)

LEMMA OtherPeer ==
    ASSUME NEW p \in Peers
    PROVE  /\ Other(p) \in Peers /\ Other(p) # p /\ Other(Other(p)) = p
           /\ \A q \in Peers : q = p \/ q = Other(p)
<1>1. PICK a \in Peers, b \in Peers : a # b /\ Peers = {a, b}
      BY PeersAssumption
<1>2. \A r \in Peers : /\ Other(r) \in Peers /\ Other(r) # r
  <2> SUFFICES ASSUME NEW r \in Peers PROVE Other(r) \in Peers /\ Other(r) # r
      OBVIOUS
  <2>1. \E q \in Peers : q # r
        BY <1>1
  <2>2. QED BY <2>1 DEF Other
<1>3. QED BY <1>1, <1>2

-----------------------------------------------------------------------------
(* What the channel's operations do to the order of the rotations on a wire. *)

LEMMA AppendKeepsOrder ==
    ASSUME NEW s \in Seq(Messages), NEW m \in Messages, NEW g \in Nat,
           InSequence(s, g),
           IsRotation(m) => m.gen <= g + 1 \/ Carries(s, m.gen - 1)
    PROVE  InSequence(Append(s, m), g)
<1> DEFINE t == Append(s, m)
<1>1. /\ Len(t) = Len(s) + 1 /\ Len(s) \in Nat
      /\ \A i \in 1..Len(s) : t[i] = s[i]
      /\ t[Len(s) + 1] = m
      OBVIOUS
<1>2. ASSUME NEW i \in 1..Len(t), IsRotation(t[i])
      PROVE  \/ t[i].gen <= g + 1
             \/ \E j \in 1..(i - 1) : IsRotation(t[j]) /\ t[j].gen >= t[i].gen - 1
  <2>1. CASE i \in 1..Len(s)
    <3>1. IsRotation(s[i]) /\ t[i] = s[i]
          BY <1>1, <1>2, <2>1
    <3>2. CASE s[i].gen <= g + 1
          BY <3>1, <3>2
    <3>3. CASE \E j \in 1..(i - 1) : IsRotation(s[j]) /\ s[j].gen >= s[i].gen - 1
          BY <3>1, <3>3, <1>1, <2>1
    <3>4. QED BY <3>1, <3>2, <3>3, <2>1 DEF InSequence
  <2>2. CASE i = Len(s) + 1
    <3>1. t[i] = m /\ m.gen \in Nat
          BY <1>1, <2>2 DEF Messages
    <3>2. CASE m.gen <= g + 1
          BY <3>1, <3>2
    <3>3. CASE Carries(s, m.gen - 1)
      <4>1. PICK j \in 1..Len(s) : IsRotation(s[j]) /\ s[j].gen = m.gen - 1
            BY <3>3 DEF Carries
      <4>2. j \in 1..(i - 1) /\ t[j] = s[j] /\ s[j].gen >= m.gen - 1
            BY <4>1, <2>2, <1>1, <3>1
      <4>3. QED BY <4>1, <4>2, <3>1
    <3>4. QED BY <3>1, <3>2, <3>3, <1>2
  <2>3. QED BY <2>1, <2>2, <1>1
<1>3. QED BY <1>2 DEF InSequence

LEMMA TailKeepsOrder ==
    ASSUME NEW s \in Seq(Messages), s # <<>>, NEW g \in Nat, NEW h \in Nat,
           InSequence(s, g), h >= g,
           IsRotation(Head(s)) => h >= Head(s).gen
    PROVE  InSequence(Tail(s), h)
<1> DEFINE t == Tail(s)
<1>0. \A i \in 1..Len(s) : s[i].gen \in Nat
  <2>1. \A i \in 1..Len(s) : s[i] \in Messages
        OBVIOUS
  <2>2. QED BY <2>1 DEF Messages
<1>1. /\ Len(t) = Len(s) - 1 /\ Len(s) \in Nat /\ Len(s) >= 1
      /\ \A i \in 1..Len(t) : t[i] = s[i + 1]
      /\ Head(s) = s[1]
      BY <1>0
<1>2. ASSUME NEW i \in 1..Len(t), IsRotation(t[i])
      PROVE  \/ t[i].gen <= h + 1
             \/ \E j \in 1..(i - 1) : IsRotation(t[j]) /\ t[j].gen >= t[i].gen - 1
  <2>1. /\ i + 1 \in 1..Len(s) /\ t[i] = s[i + 1] /\ t[i].gen \in Nat
        BY <1>0, <1>1
  <2>2. CASE s[i + 1].gen <= g + 1
        BY <2>1, <2>2
  <2>3. ASSUME NEW j \in 1..i, IsRotation(s[j]), s[j].gen >= s[i + 1].gen - 1
        PROVE  \/ t[i].gen <= h + 1
               \/ \E k \in 1..(i - 1) : IsRotation(t[k]) /\ t[k].gen >= t[i].gen - 1
    <3>1. CASE j = 1
          BY <3>1, <2>3, <2>1, <1>0, <1>1
    <3>2. CASE j # 1
      <4>1. j - 1 \in 1..(i - 1) /\ j - 1 \in 1..Len(t) /\ t[j - 1] = s[j]
            BY <3>2, <1>1
      <4>2. QED BY <4>1, <2>3, <2>1
    <3>3. QED BY <3>1, <3>2
  <2>4. \/ s[i + 1].gen <= g + 1
        \/ \E j \in 1..i : IsRotation(s[j]) /\ s[j].gen >= s[i + 1].gen - 1
    <3>1. (i + 1) - 1 = i
          BY <1>1
    <3>2. QED BY <2>1, <1>2, <3>1 DEF InSequence
  <2>5. QED BY <2>2, <2>3, <2>4
<1>3. QED BY <1>2 DEF InSequence

LEMMA PrefixKeepsOrder ==
    ASSUME NEW s \in Seq(Messages), NEW n \in 0..Len(s), NEW g \in Nat, NEW k \in Nat,
           InSequence(s, g), NotAhead(s, k)
    PROVE  /\ Prefix(s, n) \in Seq(Messages)
           /\ InSequence(Prefix(s, n), g) /\ NotAhead(Prefix(s, n), k)
<1> DEFINE t == Prefix(s, n)
<1>1. /\ t \in Seq(Messages) /\ Len(t) = n
      /\ \A i \in 1..n : t[i] = s[i] /\ i \in 1..Len(s)
      BY DEF Prefix
<1>2. InSequence(t, g)
  <2> SUFFICES ASSUME NEW i \in 1..n, IsRotation(s[i])
               PROVE  \/ s[i].gen <= g + 1
                      \/ \E j \in 1..(i - 1) : IsRotation(t[j]) /\ t[j].gen >= s[i].gen - 1
      BY <1>1 DEF InSequence
  <2>1. CASE s[i].gen <= g + 1
        BY <2>1
  <2>2. ASSUME NEW j \in 1..(i - 1), IsRotation(s[j]), s[j].gen >= s[i].gen - 1
        PROVE  \E k2 \in 1..(i - 1) : IsRotation(t[k2]) /\ t[k2].gen >= s[i].gen - 1
        BY <1>1, <2>2
  <2>3. QED BY <2>1, <2>2, <1>1 DEF InSequence
<1>3. NotAhead(t, k)
      BY <1>1 DEF NotAhead
<1>4. QED BY <1>1, <1>2, <1>3

-----------------------------------------------------------------------------
(* Type correctness. *)

LEMMA MessageTypes ==
    /\ CallEnd \in Messages
    /\ \A g \in Nat : KeyRotate(g) \in Messages
BY DEF CallEnd, KeyRotate, Messages

LEMMA PeerTypes ==
    ASSUME TypeOK, NEW p \in Peers
    PROVE  /\ gen[p] \in Nat /\ gen[p] + 1 \in Nat
           /\ wire[p] \in Seq(Messages)
           /\ chan[p] \in {"open", "broken", "closed"}
<1>1. gen[p] \in Nat /\ wire[p] \in Seq(Messages) /\ chan[p] \in {"open", "broken", "closed"}
      BY DEF TypeOK
<1>2. QED BY <1>1

LEMMA FunctionTypes ==
    ASSUME IInv
    PROVE  /\ wire \in [Peers -> Seq(Messages)]
           /\ gen \in [Peers -> Nat]
           /\ chan \in [Peers -> {"open", "broken", "closed"}]
           /\ protocolError \in [Peers -> BOOLEAN]
BY DEF IInv, TypeOK

LEMMA PrefixType ==
    ASSUME NEW s \in Seq(Messages), NEW n \in 0..Len(s)
    PROVE  Prefix(s, n) \in Seq(Messages)
BY DEF Prefix

LEMMA SendType ==
    ASSUME TypeOK, NEW p \in Peers, NEW m \in Messages, Send(p, m)
    PROVE  /\ wire' \in [Peers -> Seq(Messages)]
           /\ chan' \in [Peers -> {"open", "broken", "closed"}]
           /\ link' = link
<1>1. Other(p) \in Peers /\ wire[Other(p)] \in Seq(Messages)
      BY OtherPeer DEF TypeOK
<1>2. Append(wire[Other(p)], m) \in Seq(Messages)
      BY <1>1
<1>3. CASE wire' = [wire EXCEPT ![Other(p)] = Append(@, m)] /\ UNCHANGED <<chan, link>>
      BY <1>1, <1>2, <1>3 DEF TypeOK
<1>4. CASE UNCHANGED net
      BY <1>4 DEF TypeOK, net
<1>5. CASE chan' = [chan EXCEPT ![p] = "broken"] /\ UNCHANGED <<wire, link>>
      BY <1>5 DEF TypeOK
<1>6. QED BY <1>3, <1>4, <1>5 DEF Send

LEMMA CloseType ==
    ASSUME TypeOK, NEW p \in Peers, NEW s \in Seq(Messages), CloseSocket(p, s)
    PROVE  /\ wire' \in [Peers -> Seq(Messages)]
           /\ chan' \in [Peers -> {"open", "broken", "closed"}]
           /\ link' = link
<1>1. Other(p) \in Peers
      BY OtherPeer
<1>2. \A n \in 0..Len(s) : Prefix(s, n) \in Seq(Messages)
      BY PrefixType
<1>3. chan' = [chan EXCEPT ![p] = "closed"] /\ link' = link
      BY DEF CloseSocket
<1>4. PICK t \in Seq(Messages) : wire' = [wire EXCEPT ![Other(p)] = t]
      BY <1>2 DEF CloseSocket
<1>5. QED BY <1>1, <1>3, <1>4 DEF TypeOK

LEMMA EndCallType ==
    ASSUME TypeOK, NEW p \in Peers, EndCall(p)
    PROVE  /\ wire' \in [Peers -> Seq(Messages)]
           /\ chan' \in [Peers -> {"open", "broken", "closed"}]
           /\ link' = link
           /\ endSent' \in [Peers -> BOOLEAN]
<1>1. CASE endSent[p] /\ UNCHANGED <<endSent, net>>
      BY <1>1 DEF TypeOK, net
<1>2. CASE endSent' = [endSent EXCEPT ![p] = TRUE] /\ Send(p, CallEnd)
      BY <1>2, SendType, MessageTypes DEF TypeOK
<1>3. QED BY <1>1, <1>2 DEF EndCall

LEMMA TypeInit == Init => TypeOK
BY DEF Init, TypeOK

LEMMA TypeStep == TypeOK /\ [Next]_vars => TypeOK'
<1> SUFFICES ASSUME TypeOK, [Next]_vars PROVE TypeOK'
    OBVIOUS
<1> USE DEF threads, endings, ring, net
<1>1. ASSUME NEW p \in Peers, MainThread(p) PROVE TypeOK'
  <2>1. CASE Start(p)
        BY <2>1 DEF Start, TypeOK
  <2>2. CASE StartReader(p)
        BY <2>2 DEF StartReader, TypeOK
  <2>3. CASE GiveUp(p)
    <3>0. wire[Other(p)] \in Seq(Messages)
          BY OtherPeer, PeerTypes
    <3>1. Append(wire[Other(p)], CallEnd) \in Seq(Messages)
          BY <3>0, MessageTypes
    <3>2. /\ wire' \in [Peers -> Seq(Messages)]
          /\ chan' \in [Peers -> {"open", "broken", "closed"}]
          /\ link' = link
          BY <2>3, <3>0, <3>1, CloseType DEF GiveUp
    <3>3. QED BY <2>3, <3>2 DEF GiveUp, TypeOK
  <2>4. CASE SenderStops(p)
        BY <2>4 DEF SenderStops, TypeOK
  <2>5. CASE Finish(p)
    <3>1. CASE UNCHANGED <<endSent, net>>
          BY <2>5, <3>1 DEF Finish, TypeOK
    <3>2. CASE EndCall(p)
          BY <2>5, <3>2, EndCallType DEF Finish, TypeOK
    <3>3. QED BY <2>5, <3>1, <3>2 DEF Finish
  <2>6. CASE Close(p)
    <3>1. wire[Other(p)] \in Seq(Messages)
          BY OtherPeer DEF TypeOK
    <3>2. QED BY <2>6, <3>1, CloseType DEF Close, TypeOK
  <2>7. QED BY <1>1, <2>1, <2>2, <2>3, <2>4, <2>5, <2>6 DEF MainThread
<1>2. ASSUME NEW p \in Peers, UiThread(p) PROVE TypeOK'
  <2>1. CASE HangUpNotes(p)
        BY <2>1 DEF HangUpNotes, TypeOK
  <2>2. CASE HangUpTellsPeer(p)
        BY <2>2, EndCallType DEF HangUpTellsPeer, TypeOK
  <2>3. CASE HangUpStops(p)
        BY <2>3 DEF HangUpStops, TypeOK
  <2>4. QED BY <1>2, <2>1, <2>2, <2>3 DEF UiThread
<1>3. ASSUME NEW p \in Peers, ReaderThread(p) PROVE TypeOK'
  <2>1. CASE ReaderPolls(p)
        BY <2>1 DEF ReaderPolls, TypeOK
  <2>2. CASE ReaderTimesOut(p)
        BY <2>2 DEF ReaderTimesOut, TypeOK
  <2>3. CASE ReaderLosesConnection(p)
        BY <2>3 DEF ReaderLosesConnection, TypeOK
  <2>4. CASE ReaderApplies(p)
    <3> DEFINE m == Head(wire[p])
    <3>1. wire[p] \in Seq(Messages) /\ wire[p] # <<>>
          BY <2>4 DEF ReaderApplies, TypeOK
    <3>2. m \in Messages /\ Tail(wire[p]) \in Seq(Messages)
          BY <3>1
    <3>3. m.gen \in Nat
          BY <3>2 DEF Messages
    <3>4. wire' \in [Peers -> Seq(Messages)]
          BY <2>4, <3>2 DEF ReaderApplies, TypeOK
    <3>5. CASE ApplyCallEnd(p)
          BY <2>4, <3>4, <3>5 DEF ReaderApplies, ApplyCallEnd, TypeOK
    <3>6. CASE ApplyKeyRotate(p, m.gen)
          BY <2>4, <3>3, <3>4, <3>6 DEF ReaderApplies, ApplyKeyRotate, TypeOK
    <3>7. QED BY <2>4, <3>5, <3>6 DEF ReaderApplies
  <2>5. CASE ReaderLeaves(p)
        BY <2>5 DEF ReaderLeaves, TypeOK
  <2>6. QED BY <1>3, <2>1, <2>2, <2>3, <2>4, <2>5 DEF ReaderThread
<1>4. ASSUME NEW p \in Peers, User(p) PROVE TypeOK'
  <2>1. CASE RotateKeys(p)
    <3>1. gen[p] + 1 \in Nat
          BY PeerTypes
    <3>2. QED BY <2>1, <3>1, SendType, MessageTypes DEF RotateKeys, TypeOK
  <2>2. CASE HangUp(p)
        BY <2>2 DEF HangUp, TypeOK
  <2>3. CASE SourceEnds(p)
        BY <2>3 DEF SourceEnds, TypeOK
  <2>4. QED BY <1>4, <2>1, <2>2, <2>3 DEF User
<1>5. ASSUME NEW p \in Peers, Environment(p) PROVE TypeOK'
  <2>1. CASE KeysRetire(p)
        BY <2>1 DEF KeysRetire, TypeOK
  <2>2. CASE Crash(p)
    <3>1. wire[Other(p)] \in Seq(Messages)
          BY OtherPeer DEF TypeOK
    <3>2. QED BY <2>2, <3>1, CloseType DEF Crash, TypeOK
  <2>3. CASE Reset(p)
    <3>1. Other(p) \in Peers /\ wire[p] \in Seq(Messages) /\ wire[Other(p)] \in Seq(Messages)
          BY OtherPeer DEF TypeOK
    <3>2. PICK n \in 0..Len(wire[p]), k \in 0..Len(wire[Other(p)]) :
             wire' = [wire EXCEPT ![p] = Prefix(@, n), ![Other(p)] = Prefix(@, k)]
          BY <2>3 DEF Reset
    <3>3. Prefix(wire[p], n) \in Seq(Messages) /\ Prefix(wire[Other(p)], k) \in Seq(Messages)
          BY <3>1, PrefixType
    <3>4. wire' \in [Peers -> Seq(Messages)]
          BY <3>1, <3>2, <3>3, OtherPeer DEF TypeOK
    <3>5. QED BY <2>3, <3>4 DEF Reset, TypeOK
  <2>4. QED BY <1>5, <2>1, <2>2, <2>3 DEF Environment
<1>6. CASE Partition
      BY <1>6 DEF Partition, TypeOK
<1>7. CASE AllOver \/ UNCHANGED vars
      BY <1>7 DEF AllOver, vars, TypeOK
<1>8. QED BY <1>1, <1>2, <1>3, <1>4, <1>5, <1>6, <1>7 DEF Next

(* Every variable keeps its type, for any bound and any set of faults.       *)
THEOREM TypeCorrect == Spec => []TypeOK
<1>1. QED BY TypeInit, TypeStep, PTL DEF Spec

-----------------------------------------------------------------------------
(* More about wires. *)

LEMMA OrderIsMonotone ==
    ASSUME NEW s \in Seq(Messages), NEW g \in Nat, NEW h \in Nat,
           InSequence(s, g), h >= g
    PROVE  InSequence(s, h)
<1>1. \A i \in 1..Len(s) : s[i] \in Messages
      OBVIOUS
<1>2. \A i \in 1..Len(s) : s[i].gen \in Nat
      BY <1>1 DEF Messages
<1>3. \A i \in 1..Len(s) : s[i].gen <= g + 1 => s[i].gen <= h + 1
      BY <1>2
<1>4. QED BY <1>3 DEF InSequence

LEMMA AppendNotAhead ==
    ASSUME NEW s \in Seq(Messages), NEW m \in Messages, NEW g \in Nat, NEW h \in Nat,
           NotAhead(s, g), h >= g, IsRotation(m) => m.gen <= h
    PROVE  NotAhead(Append(s, m), h)
<1> DEFINE t == Append(s, m)
<1>1. /\ Len(t) = Len(s) + 1 /\ Len(s) \in Nat
      /\ \A i \in 1..Len(s) : t[i] = s[i] /\ s[i] \in Messages
      /\ t[Len(s) + 1] = m
      OBVIOUS
<1>2. \A i \in 1..Len(s) : s[i].gen \in Nat
      BY <1>1 DEF Messages
<1>3. \A i \in 1..Len(t) : i \in 1..Len(s) \/ i = Len(s) + 1
      BY <1>1
<1>4. QED BY <1>1, <1>2, <1>3 DEF NotAhead

LEMMA AppendCarries ==
    ASSUME NEW s \in Seq(Messages), NEW m \in Messages
    PROVE  /\ \A g \in Nat : Carries(s, g) => Carries(Append(s, m), g)
           /\ IsRotation(m) => Carries(Append(s, m), m.gen)
<1> DEFINE t == Append(s, m)
<1>1. /\ Len(t) = Len(s) + 1 /\ Len(s) \in Nat
      /\ \A i \in 1..Len(s) : t[i] = s[i] /\ i \in 1..Len(t)
      /\ t[Len(s) + 1] = m /\ Len(s) + 1 \in 1..Len(t)
      OBVIOUS
<1>2. QED BY <1>1 DEF Carries

LEMMA TailFacts ==
    ASSUME NEW s \in Seq(Messages), s # <<>>, NEW g \in Nat
    PROVE  /\ NotAhead(s, g) => NotAhead(Tail(s), g)
           /\ Carries(s, g) => \/ IsRotation(Head(s)) /\ Head(s).gen = g
                               \/ Carries(Tail(s), g)
           /\ InSequence(s, g) /\ IsRotation(Head(s)) => Head(s).gen <= g + 1
           /\ NotAhead(s, g) /\ IsRotation(Head(s)) => Head(s).gen <= g
<1> DEFINE t == Tail(s)
<1>1. /\ Len(t) = Len(s) - 1 /\ Len(s) \in Nat /\ Len(s) >= 1
      /\ \A i \in 1..Len(t) : t[i] = s[i + 1]
      /\ Head(s) = s[1]
      OBVIOUS
<1>2. NotAhead(s, g) => NotAhead(t, g)
      BY <1>1 DEF NotAhead
<1>3. ASSUME Carries(s, g)
      PROVE  \/ IsRotation(Head(s)) /\ Head(s).gen = g
             \/ Carries(t, g)
  <2>1. PICK i \in 1..Len(s) : IsRotation(s[i]) /\ s[i].gen = g
        BY <1>3 DEF Carries
  <2>2. CASE i = 1
        BY <2>1, <2>2, <1>1
  <2>3. CASE i # 1
    <3>1. i - 1 \in 1..Len(t) /\ t[i - 1] = s[i]
          BY <2>3, <1>1
    <3>2. QED BY <3>1, <2>1 DEF Carries
  <2>4. QED BY <2>2, <2>3
<1>4. InSequence(s, g) /\ IsRotation(Head(s)) => Head(s).gen <= g + 1
  <2>1. 1 \in 1..Len(s) /\ 1..(1 - 1) = {}
        BY <1>1
  <2>2. QED BY <2>1, <1>1 DEF InSequence
<1>5. NotAhead(s, g) /\ IsRotation(Head(s)) => Head(s).gen <= g
  <2>1. 1 \in 1..Len(s)
        BY <1>1
  <2>2. QED BY <2>1, <1>1 DEF NotAhead
<1>6. QED BY <1>2, <1>3, <1>4, <1>5

-----------------------------------------------------------------------------
(* The inductive invariant. *)

LEMMA IInvInit == Init => IInv
<1> SUFFICES ASSUME Init PROVE IInv
    OBVIOUS
<1>1. TypeOK
      BY TypeInit
<1>2. \A p \in Peers : Other(p) \in Peers
      BY OtherPeer
<1>3. NoProtocolError /\ Convergence
      BY <1>2 DEF Init, NoProtocolError, Convergence
<1>4. WireInSequence
      BY <1>2 DEF Init, WireInSequence, InSequence, NotAhead
<1>5. QED BY <1>1, <1>3, <1>4 DEF IInv

(* Steps that touch neither rings nor channel. *)
LEMMA FrameKeeps ==
    ASSUME IInv, TypeOK', UNCHANGED <<gen, wire, chan, link, protocolError>>
    PROVE  IInv'
<1>1. NoProtocolError'
      BY DEF IInv, NoProtocolError
<1>2. Convergence'
      BY DEF IInv, Convergence, CanSend
<1>3. WireInSequence'
      BY DEF IInv, WireInSequence
<1>4. QED BY <1>1, <1>2, <1>3 DEF IInv

(* Steps that leave the messages alone and close nothing.                    *)
LEMMA BreakKeeps ==
    ASSUME IInv, TypeOK', UNCHANGED <<gen, wire, link, protocolError>>,
           \A p \in Peers : CanSend(p)' => CanSend(p)
    PROVE  IInv'
<1>1. NoProtocolError'
      BY DEF IInv, NoProtocolError
<1>2. Convergence'
      BY DEF IInv, Convergence
<1>3. WireInSequence'
      BY DEF IInv, WireInSequence
<1>4. QED BY <1>1, <1>2, <1>3 DEF IInv

(* Closing a socket, with or without a last CALL_END, possibly losing what   *)
(* was not read.                                                             *)
LEMMA CloseKeeps ==
    ASSUME IInv, TypeOK', NEW p \in Peers, UNCHANGED <<gen, protocolError>>,
           NEW s \in {wire[Other(p)], Append(wire[Other(p)], CallEnd)},
           CloseSocket(p, s)
    PROVE  IInv'
<1> DEFINE q == Other(p)
<1>1. q \in Peers /\ q # p /\ Other(q) = p /\ \A r \in Peers : r = p \/ r = q
      BY OtherPeer
<1>2. /\ gen[p] \in Nat /\ gen[q] \in Nat /\ wire[q] \in Seq(Messages)
      /\ CallEnd \in Messages /\ ~IsRotation(CallEnd)
      BY <1>1, PeerTypes, MessageTypes DEF IInv, CallEnd, IsRotation
<1>3. InSequence(wire[q], gen[q]) /\ NotAhead(wire[q], gen[p])
      BY <1>1 DEF IInv, WireInSequence
<1>4. s \in Seq(Messages) /\ InSequence(s, gen[q]) /\ NotAhead(s, gen[p])
  <2>1. CASE s = wire[q]
        BY <2>1, <1>2, <1>3
  <2>2. CASE s = Append(wire[q], CallEnd)
    <3>1. InSequence(s, gen[q])
          BY <2>2, <1>2, <1>3, AppendKeepsOrder
    <3>2. NotAhead(s, gen[p])
          BY <2>2, <1>2, <1>3, AppendNotAhead
    <3>3. QED BY <2>2, <1>2, <3>1, <3>2
  <2>3. QED BY <2>1, <2>2
<1>5. PICK t \in Seq(Messages) : /\ wire' = [wire EXCEPT ![q] = t]
                                 /\ InSequence(t, gen[q]) /\ NotAhead(t, gen[p])
  <2>1. CASE wire' = [wire EXCEPT ![q] = s]
        BY <2>1, <1>4
  <2>2. ASSUME NEW n \in 0..Len(s), wire' = [wire EXCEPT ![q] = Prefix(s, n)]
        PROVE  \E t \in Seq(Messages) : /\ wire' = [wire EXCEPT ![q] = t]
                                         /\ InSequence(t, gen[q]) /\ NotAhead(t, gen[p])
        BY <2>2, <1>2, <1>4, PrefixKeepsOrder
  <2>3. QED BY <2>1, <2>2 DEF CloseSocket
<1>6. chan'[p] = "closed"
      BY FunctionTypes DEF CloseSocket
<1>7. \A r \in Peers : ~CanSend(r)'
      BY <1>1, <1>6 DEF CanSend
<1>8. wire'[q] = t /\ wire'[p] = wire[p]
      BY <1>1, <1>5, FunctionTypes
<1>9. WireInSequence'
      BY <1>1, <1>5, <1>8 DEF IInv, WireInSequence
<1>10. Convergence'
      BY <1>7 DEF Convergence
<1>11. NoProtocolError'
      BY DEF IInv, NoProtocolError
<1>12. QED BY <1>9, <1>10, <1>11 DEF IInv

(* Sending a CALL_END, or the rotation just made. *)
LEMMA SendKeeps ==
    ASSUME IInv, TypeOK', NEW p \in Peers, NEW m \in Messages, Send(p, m),
           protocolError' = protocolError,
           \/ ~IsRotation(m) /\ gen' = gen
           \/ /\ IsRotation(m) /\ m.gen = gen[p] + 1
              /\ gen' = [gen EXCEPT ![p] = gen[p] + 1]
    PROVE  IInv'
<1> DEFINE q == Other(p)
<1>1. q \in Peers /\ q # p /\ Other(q) = p /\ \A r \in Peers : r = p \/ r = q
      BY OtherPeer
<1>2. /\ gen[p] \in Nat /\ gen[q] \in Nat
      /\ wire[p] \in Seq(Messages) /\ wire[q] \in Seq(Messages)
      BY <1>1, PeerTypes DEF IInv
<1>3. /\ gen'[p] \in Nat /\ gen'[p] >= gen[p] /\ gen'[q] = gen[q]
      /\ IsRotation(m) => m.gen = gen'[p] /\ m.gen - 1 = gen[p]
      /\ ~IsRotation(m) => gen'[p] = gen[p]
      BY <1>1, <1>2, FunctionTypes
<1>4. /\ InSequence(wire[p], gen[p]) /\ NotAhead(wire[p], gen[q])
      /\ InSequence(wire[q], gen[q]) /\ NotAhead(wire[q], gen[p])
      BY <1>1 DEF IInv, WireInSequence
<1>5. /\ gen[p] > gen[q] /\ CanSend(p) => Carries(wire[q], gen[p])
      /\ gen[q] > gen[p] /\ CanSend(q) => Carries(wire[p], gen[q])
      BY <1>1 DEF IInv, Convergence
<1>6. InSequence(wire[p], gen'[p])
      BY <1>2, <1>3, <1>4, OrderIsMonotone
<1>7. CASE CanSend(p) /\ wire' = [wire EXCEPT ![q] = Append(@, m)] /\ UNCHANGED <<chan, link>>
  <2>1. wire'[p] = wire[p] /\ wire'[q] = Append(wire[q], m)
        BY <1>1, <1>7, FunctionTypes
  <2>2. IsRotation(m) => m.gen <= gen[q] + 1 \/ Carries(wire[q], m.gen - 1)
        BY <1>2, <1>3, <1>5, <1>7
  <2>3. InSequence(wire'[q], gen'[q])
        BY <2>1, <2>2, <1>2, <1>3, <1>4, AppendKeepsOrder
  <2>4. NotAhead(wire'[q], gen'[p])
    <3>1. IsRotation(m) => m.gen <= gen'[p]
          BY <1>3
    <3>2. QED BY <3>1, <2>1, <1>2, <1>3, <1>4, AppendNotAhead
  <2>5. WireInSequence'
        BY <2>1, <2>3, <2>4, <1>1, <1>3, <1>4, <1>6 DEF WireInSequence
  <2>6. gen'[p] > gen'[q] /\ CanSend(p)' => Carries(wire'[q], gen'[p])
    <3>1. CASE IsRotation(m)
          BY <3>1, <2>1, <1>2, <1>3, AppendCarries
    <3>2. CASE ~IsRotation(m)
          BY <3>2, <2>1, <1>2, <1>3, <1>5, <1>7, AppendCarries
    <3>3. QED BY <3>1, <3>2
  <2>7. gen'[q] > gen'[p] /\ CanSend(q)' => Carries(wire'[p], gen'[q])
    <3>1. CanSend(q)' => CanSend(q)
          BY <1>7 DEF CanSend
    <3>2. QED BY <3>1, <2>1, <1>2, <1>3, <1>5
  <2>8. Convergence'
        BY <2>6, <2>7, <1>1 DEF Convergence
  <2>9. NoProtocolError'
        BY DEF IInv, NoProtocolError
  <2>10. QED BY <2>5, <2>8, <2>9 DEF IInv
<1>8. CASE /\ ~CanSend(p) /\ UNCHANGED <<wire, link>>
           /\ \/ chan' = chan
              \/ chan[p] = "open" /\ chan' = [chan EXCEPT ![p] = "broken"]
  <2>1. chan'[q] = chan[q]
        BY <1>1, <1>8, FunctionTypes
  <2>2. chan'[p] = chan[p] \/ (chan[p] = "open" /\ chan'[p] = "broken")
        BY <1>1, <1>8, FunctionTypes
  <2>3. ~CanSend(p)' /\ (CanSend(q)' => CanSend(q))
        BY <2>1, <2>2, <1>1, <1>8 DEF CanSend
  <2>4. NotAhead(wire[q], gen'[p])
    <3>1. \A i \in 1..Len(wire[q]) : wire[q][i] \in Messages
          BY <1>2
    <3>2. \A i \in 1..Len(wire[q]) : wire[q][i].gen \in Nat
          BY <3>1 DEF Messages
    <3>3. QED BY <3>2, <1>2, <1>3, <1>4 DEF NotAhead
  <2>5. WireInSequence'
        BY <2>4, <1>1, <1>3, <1>4, <1>6, <1>8 DEF WireInSequence
  <2>6. gen'[q] > gen'[p] /\ CanSend(q)' => Carries(wire'[p], gen'[q])
        BY <2>3, <1>2, <1>3, <1>5, <1>8
  <2>7. Convergence'
        BY <2>3, <2>6, <1>1 DEF Convergence
  <2>8. NoProtocolError'
        BY DEF IInv, NoProtocolError
  <2>9. QED BY <2>5, <2>7, <2>8 DEF IInv
<1>9. QED BY <1>7, <1>8 DEF Send, net

LEMMA EndCallKeeps ==
    ASSUME IInv, TypeOK', NEW p \in Peers, EndCall(p), UNCHANGED <<gen, protocolError>>
    PROVE  IInv'
<1>1. CASE UNCHANGED net
      BY <1>1, FrameKeeps DEF net
<1>2. CASE Send(p, CallEnd)
  <2>1. CallEnd \in Messages /\ ~IsRotation(CallEnd)
        BY MessageTypes DEF CallEnd, IsRotation
  <2>2. QED BY <1>2, <2>1, SendKeeps
<1>3. QED BY <1>1, <1>2 DEF EndCall

(* The reader takes one message off its wire. *)
LEMMA ApplyKeeps ==
    ASSUME IInv, TypeOK', NEW p \in Peers, ReaderApplies(p)
    PROVE  IInv'
<1> DEFINE q == Other(p)
           m == Head(wire[p])
<1>1. q \in Peers /\ q # p /\ Other(q) = p /\ \A r \in Peers : r = p \/ r = q
      BY OtherPeer
<1>2. /\ gen[p] \in Nat /\ gen[q] \in Nat
      /\ wire[p] \in Seq(Messages) /\ wire[p] # <<>> /\ m \in Messages
      BY <1>1, PeerTypes DEF IInv, ReaderApplies
<1>3. m.gen \in Nat /\ (m.type = "CALL_END" <=> ~IsRotation(m))
      BY <1>2 DEF Messages, IsRotation
<1>4. /\ InSequence(wire[p], gen[p]) /\ NotAhead(wire[p], gen[q])
      /\ InSequence(wire[q], gen[q]) /\ NotAhead(wire[q], gen[p])
      BY <1>1 DEF IInv, WireInSequence
<1>5. /\ gen[p] > gen[q] /\ CanSend(p) => Carries(wire[q], gen[p])
      /\ gen[q] > gen[p] /\ CanSend(q) => Carries(wire[p], gen[q])
      BY <1>1 DEF IInv, Convergence
<1>6. /\ IsRotation(m) => m.gen <= gen[p] + 1 /\ m.gen <= gen[q]
      /\ NotAhead(Tail(wire[p]), gen[q])
      /\ Carries(wire[p], gen[q]) => \/ IsRotation(m) /\ m.gen = gen[q]
                                     \/ Carries(Tail(wire[p]), gen[q])
      BY <1>2, <1>4, TailFacts
<1>7. wire'[p] = Tail(wire[p]) /\ wire'[q] = wire[q] /\ UNCHANGED <<chan, link>>
      BY <1>1, FunctionTypes DEF ReaderApplies
(* A rotation is never out of sequence: the reader follows it or has been    *)
(* there already.                                                            *)
<1>8. /\ protocolError' = protocolError
      /\ \/ ~IsRotation(m) /\ gen' = gen
         \/ IsRotation(m) /\ m.gen <= gen[p] /\ gen' = gen
         \/ IsRotation(m) /\ m.gen = gen[p] + 1 /\ gen' = [gen EXCEPT ![p] = m.gen]
  <2>1. CASE ~IsRotation(m)
        BY <2>1, <1>3 DEF ReaderApplies, ApplyCallEnd, ring
  <2>2. CASE IsRotation(m)
    <3>1. ApplyKeyRotate(p, m.gen)
          BY <2>2, <1>3 DEF ReaderApplies
    <3>2. ~(m.gen > gen[p] + 1)
          BY <2>2, <1>2, <1>3, <1>6
    <3>3. QED BY <2>2, <3>1, <3>2 DEF ApplyKeyRotate, endings, ring
  <2>3. QED BY <2>1, <2>2
<1>9. /\ gen'[q] = gen[q] /\ gen'[p] \in Nat /\ gen'[p] >= gen[p]
      /\ IsRotation(m) => gen'[p] >= m.gen
      /\ gen'[p] = gen[p] \/ gen'[p] <= gen[q]
  <2>0. CASE ~IsRotation(m) /\ gen' = gen
        BY <2>0, <1>2
  <2>1. CASE IsRotation(m) /\ m.gen <= gen[p] /\ gen' = gen
        BY <2>1, <1>2, <1>3
  <2>2. CASE IsRotation(m) /\ m.gen = gen[p] + 1 /\ gen' = [gen EXCEPT ![p] = m.gen]
        BY <2>2, <1>1, <1>2, <1>3, <1>6, FunctionTypes
  <2>3. QED BY <2>0, <2>1, <2>2, <1>8
<1>10. InSequence(wire'[p], gen'[p])
       BY <1>2, <1>4, <1>7, <1>9, TailKeepsOrder
<1>11. NotAhead(wire'[q], gen'[p])
  <2>1. wire[q] \in Seq(Messages)
        BY <1>1, PeerTypes DEF IInv
  <2>2. \A i \in 1..Len(wire[q]) : wire[q][i] \in Messages
        BY <2>1
  <2>3. \A i \in 1..Len(wire[q]) : wire[q][i].gen \in Nat
        BY <2>2 DEF Messages
  <2>4. QED BY <2>3, <1>2, <1>4, <1>7, <1>9 DEF NotAhead
<1>12. WireInSequence'
       BY <1>1, <1>4, <1>6, <1>7, <1>9, <1>10, <1>11 DEF WireInSequence
<1>13. gen'[p] > gen'[q] /\ CanSend(p)' => Carries(wire'[q], gen'[p])
  <2>1. CanSend(p)' => CanSend(p)
        BY <1>7 DEF CanSend
  <2>2. QED BY <2>1, <1>2, <1>5, <1>7, <1>9
<1>14. gen'[q] > gen'[p] /\ CanSend(q)' => Carries(wire'[p], gen'[q])
  <2>1. CanSend(q)' => CanSend(q)
        BY <1>7 DEF CanSend
  <2>2. QED BY <2>1, <1>2, <1>3, <1>5, <1>6, <1>7, <1>9
<1>15. Convergence'
       BY <1>13, <1>14, <1>1 DEF Convergence
<1>16. NoProtocolError'
       BY <1>8 DEF IInv, NoProtocolError
<1>17. QED BY <1>12, <1>15, <1>16 DEF IInv

LEMMA IInvStep == IInv /\ [Next]_vars => IInv'
<1> SUFFICES ASSUME IInv, [Next]_vars PROVE IInv'
    OBVIOUS
<1>0. TypeOK'
      BY TypeStep DEF IInv
<1> USE DEF endings, ring, net
<1>1. ASSUME NEW p \in Peers, MainThread(p) PROVE IInv'
  <2>1. CASE Start(p) \/ StartReader(p) \/ SenderStops(p)
        BY <2>1, <1>0, FrameKeeps DEF Start, StartReader, SenderStops
  <2>2. CASE GiveUp(p)
        BY <2>2, <1>0, CloseKeeps DEF GiveUp
  <2>3. CASE Finish(p)
    <3>1. CASE UNCHANGED <<endSent, net>>
          BY <2>3, <3>1, <1>0, FrameKeeps DEF Finish
    <3>2. CASE EndCall(p)
          BY <2>3, <3>2, <1>0, EndCallKeeps DEF Finish
    <3>3. QED BY <2>3, <3>1, <3>2 DEF Finish
  <2>4. CASE Close(p)
        BY <2>4, <1>0, CloseKeeps DEF Close
  <2>5. QED BY <1>1, <2>1, <2>2, <2>3, <2>4 DEF MainThread
<1>2. ASSUME NEW p \in Peers, UiThread(p) PROVE IInv'
  <2>1. CASE HangUpNotes(p) \/ HangUpStops(p)
        BY <2>1, <1>0, FrameKeeps DEF HangUpNotes, HangUpStops
  <2>2. CASE HangUpTellsPeer(p)
        BY <2>2, <1>0, EndCallKeeps DEF HangUpTellsPeer
  <2>3. QED BY <1>2, <2>1, <2>2 DEF UiThread
<1>3. ASSUME NEW p \in Peers, ReaderThread(p) PROVE IInv'
  <2>1. CASE ReaderPolls(p) \/ ReaderTimesOut(p) \/ ReaderLeaves(p)
        BY <2>1, <1>0, FrameKeeps DEF ReaderPolls, ReaderTimesOut, ReaderLeaves
  <2>2. CASE ReaderLosesConnection(p)
    <3>1. \A r \in Peers : chan'[r] = chan[r] \/ (chan[r] = "open" /\ chan'[r] = "broken")
          BY <2>2, FunctionTypes DEF ReaderLosesConnection
    <3>2. link' = link
          BY <2>2 DEF ReaderLosesConnection
    <3>3. \A r \in Peers : CanSend(r)' => CanSend(r)
          BY <3>1, <3>2, OtherPeer DEF CanSend
    <3>4. QED BY <2>2, <3>3, <1>0, BreakKeeps DEF ReaderLosesConnection
  <2>3. CASE ReaderApplies(p)
        BY <2>3, <1>0, ApplyKeeps
  <2>4. QED BY <1>3, <2>1, <2>2, <2>3 DEF ReaderThread
<1>4. ASSUME NEW p \in Peers, User(p) PROVE IInv'
  <2>1. CASE RotateKeys(p)
    <3> DEFINE m == KeyRotate(gen[p] + 1)
    <3>1. gen[p] + 1 \in Nat
          BY PeerTypes DEF IInv
    <3>2. m \in Messages /\ IsRotation(m) /\ m.gen = gen[p] + 1
          BY <3>1, MessageTypes DEF KeyRotate, IsRotation
    <3>3. Send(p, m) /\ gen' = [gen EXCEPT ![p] = gen[p] + 1] /\ protocolError' = protocolError
          BY <2>1 DEF RotateKeys
    <3>4. QED BY <3>2, <3>3, <1>0, SendKeeps
  <2>2. CASE HangUp(p) \/ SourceEnds(p)
        BY <2>2, <1>0, FrameKeeps DEF HangUp, SourceEnds
  <2>3. QED BY <1>4, <2>1, <2>2 DEF User
<1>5. ASSUME NEW p \in Peers, Environment(p) PROVE IInv'
  <2>1. CASE KeysRetire(p)
        BY <2>1, <1>0, FrameKeeps DEF KeysRetire
  <2>2. CASE Crash(p)
        BY <2>2, <1>0, CloseKeeps DEF Crash
  <2>3. CASE Reset(p)
    <3> DEFINE q == Other(p)
    <3>1. q \in Peers /\ q # p /\ Other(q) = p /\ \A r \in Peers : r = p \/ r = q
          BY OtherPeer
    <3>2. /\ gen[p] \in Nat /\ gen[q] \in Nat
          /\ wire[p] \in Seq(Messages) /\ wire[q] \in Seq(Messages)
          BY <3>1, PeerTypes DEF IInv
    <3>3. PICK n \in 0..Len(wire[p]), k \in 0..Len(wire[q]) :
             wire' = [wire EXCEPT ![p] = Prefix(@, n), ![q] = Prefix(@, k)]
          BY <2>3 DEF Reset
    <3>4. wire'[p] = Prefix(wire[p], n) /\ wire'[q] = Prefix(wire[q], k)
          BY <3>1, <3>3, FunctionTypes
    <3>5. /\ InSequence(wire[p], gen[p]) /\ NotAhead(wire[p], gen[q])
          /\ InSequence(wire[q], gen[q]) /\ NotAhead(wire[q], gen[p])
          BY <3>1 DEF IInv, WireInSequence
    <3>6. /\ InSequence(wire'[p], gen[p]) /\ NotAhead(wire'[p], gen[q])
          /\ InSequence(wire'[q], gen[q]) /\ NotAhead(wire'[q], gen[p])
          BY <3>2, <3>4, <3>5, PrefixKeepsOrder
    <3>7. WireInSequence'
          BY <2>3, <3>1, <3>6 DEF WireInSequence, Reset
    <3>8. Convergence'
          BY <2>3 DEF Reset, Convergence, CanSend
    <3>9. NoProtocolError'
          BY <2>3 DEF Reset, IInv, NoProtocolError
    <3>10. QED BY <1>0, <3>7, <3>8, <3>9 DEF IInv
  <2>4. QED BY <1>5, <2>1, <2>2, <2>3 DEF Environment
<1>6. CASE Partition
  <2>1. link' = "partitioned" /\ UNCHANGED <<gen, wire, chan, protocolError>>
        BY <1>6 DEF Partition
  <2>2. Convergence'
        BY <2>1 DEF Convergence, CanSend
  <2>3. NoProtocolError' /\ WireInSequence'
        BY <2>1 DEF IInv, NoProtocolError, WireInSequence
  <2>4. QED BY <1>0, <2>2, <2>3 DEF IInv
<1>7. CASE AllOver \/ UNCHANGED vars
      BY <1>7, <1>0, FrameKeeps DEF AllOver, vars
<1>8. QED BY <1>1, <1>2, <1>3, <1>4, <1>5, <1>6, <1>7 DEF Next

(* However rotations cross and however long the channel delays them, an      *)
(* honest peer's KEY_ROTATE is in sequence: callctl.py:129 never ends a call *)
(* between honest peers.                                                     *)
THEOREM HonestPeersStayInSequence == Spec => []NoProtocolError
<1>1. IInv => NoProtocolError
      BY DEF IInv
<1>2. QED BY <1>1, IInvInit, IInvStep, PTL DEF Spec

(* While the channel works, the rotation that brings the peer that is behind *)
(* to the other's generation is on its way.                                  *)
THEOREM RingsConverge == Spec => []Convergence
<1>1. IInv => Convergence
      BY DEF IInv
<1>2. QED BY <1>1, IInvInit, IInvStep, PTL DEF Spec

-----------------------------------------------------------------------------
(* Every step but a press and a message read leaves the generations alone.   *)
LEMMA AgreementStep == IInv /\ [Next]_vars => [Promise!Next]_<<gen, announced>>
<1> SUFFICES ASSUME IInv, [Next]_vars PROVE [Promise!Next]_<<gen, announced>>
    OBVIOUS
<1> USE DEF endings, ring, net, threads
<1>1. ASSUME NEW p \in Peers, MainThread(p) PROVE UNCHANGED <<gen, announced>>
      BY <1>1 DEF MainThread, Start, StartReader, GiveUp, SenderStops, Finish, Close
<1>2. ASSUME NEW p \in Peers, UiThread(p) PROVE UNCHANGED <<gen, announced>>
      BY <1>2 DEF UiThread, HangUpNotes, HangUpTellsPeer, HangUpStops
<1>3. ASSUME NEW p \in Peers, ReaderApplies(p) PROVE [Promise!Next]_<<gen, announced>>
  <2> DEFINE q == Other(p)
             m == Head(wire[p])
  <2>1. q \in Peers /\ q # p
        BY OtherPeer
  <2>2. /\ gen[p] \in Nat /\ gen[q] \in Nat
        /\ wire[p] \in Seq(Messages) /\ wire[p] # <<>> /\ m \in Messages
        BY <1>3, <2>1, PeerTypes DEF IInv, ReaderApplies
  <2>3. m.gen \in Nat /\ (m.type = "CALL_END" <=> ~IsRotation(m))
        BY <2>2 DEF Messages, IsRotation
  <2>4. IsRotation(m) => m.gen <= gen[q]
        BY <2>1, <2>2, TailFacts DEF IInv, WireInSequence
  <2>5. announced' = announced
        BY <1>3 DEF ReaderApplies
  <2>6. CASE ~IsRotation(m)
        BY <1>3, <2>3, <2>5, <2>6 DEF ReaderApplies, ApplyCallEnd
  <2>7. CASE IsRotation(m)
    <3>1. ApplyKeyRotate(p, m.gen)
          BY <1>3, <2>3, <2>7 DEF ReaderApplies
    <3>2. CASE m.gen = gen[p] + 1 /\ gen' = [gen EXCEPT ![p] = m.gen]
      <4>0. gen' = [gen EXCEPT ![p] = gen[p] + 1]
            BY <3>2, Zenon
      <4>1. gen[q] > gen[p]
            BY <3>2, <2>2, <2>3, <2>4, <2>7
      <4>2. Promise!Follow(p)
            BY <4>0, <4>1, <2>1, <2>5 DEF Promise!Follow
      <4>3. QED BY <4>2 DEF Promise!Next
    <3>3. CASE gen' = gen
          BY <3>3, <2>5
    <3>4. QED BY <3>1, <3>2, <3>3 DEF ApplyKeyRotate
  <2>8. QED BY <2>6, <2>7
<1>4. ASSUME NEW p \in Peers, ReaderThread(p) PROVE [Promise!Next]_<<gen, announced>>
  <2>1. CASE ReaderApplies(p)
        BY <1>3, <2>1
  <2>2. CASE ReaderPolls(p) \/ ReaderTimesOut(p) \/ ReaderLosesConnection(p) \/ ReaderLeaves(p)
        BY <2>2 DEF ReaderPolls, ReaderTimesOut, ReaderLosesConnection, ReaderLeaves
  <2>3. QED BY <1>4, <2>1, <2>2 DEF ReaderThread
<1>5. ASSUME NEW p \in Peers, User(p) PROVE [Promise!Next]_<<gen, announced>>
  <2>1. CASE RotateKeys(p)
        BY <2>1 DEF RotateKeys, Promise!Next, Promise!Press
  <2>2. CASE HangUp(p) \/ SourceEnds(p)
        BY <2>2 DEF HangUp, SourceEnds
  <2>3. QED BY <1>5, <2>1, <2>2 DEF User
<1>6. ASSUME NEW p \in Peers, Environment(p) PROVE UNCHANGED <<gen, announced>>
      BY <1>6 DEF Environment, KeysRetire, Crash, Reset
<1>7. CASE Partition \/ AllOver \/ UNCHANGED vars
      BY <1>7 DEF Partition, AllOver, vars
<1>8. QED BY <1>1, <1>2, <1>4, <1>5, <1>6, <1>7 DEF Next

(* The threads, messages and failures of the call implement the rotation     *)
(* that ADR 0004 promises.                                                   *)
THEOREM CallImplementsAgreement == Spec => RotationsAgree
<1>1. Init => Promise!Init
      BY DEF Init, Promise!Init
<1>2. QED BY <1>1, IInvInit, IInvStep, AgreementStep, PTL DEF Spec, RotationsAgree, Promise!Spec

=============================================================================
