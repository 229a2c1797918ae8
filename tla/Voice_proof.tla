----------------------------- MODULE Voice_proof ----------------------------
(***************************************************************************)
(* Voice from key ring to loudspeaker: which datagrams their receiver can  *)
(* open, for any number of rotations, talkers and frames; and where each   *)
(* datagram ends, for any stream, loss, reordering and turn of the knobs.  *)
(***************************************************************************)
EXTENDS Voice, Keyring_proof, SequenceTheorems

-----------------------------------------------------------------------------
(* The two rings.  Keys live long enough for what is under way, and the      *)
(* window is wide enough.  The code makes RETIRE_AFTER the largest delay and *)
(* jitter, 3 s, and one more second for a rotation (keyring.py:20-22); its   *)
(* window has 256 frames of 20 ms, 5 s (replay.py:11).                       *)
Timely == MaxDelay + CtlDelay < RetireAfter /\ MaxDelay < WindowSize

(* What a peer's own ring says at time t; above all, that the key whose tag  *)
(* the next generation takes has expired.                                    *)
RingInTime(r, t) ==
    /\ GoodRing(r) /\ r.gen <= MaxGen
    /\ r.lastSent <= t
    /\ \A g \in DOMAIN r.expires :
          /\ r.expires[g] <= t + RetireAfter
          /\ g <= r.gen - 3 => r.expires[g] <= t

(* The rotations on their way from a peer in generation gen. *)
WireInTime(w, gen, t) ==
    /\ w \in Seq([gen : 0..MaxGen, by : Nat])
    /\ \A i \in 1..Len(w) : w[i].gen <= gen /\ t <= w[i].by /\ w[i].by <= t + CtlDelay
    /\ \A i, j \in 1..Len(w) : i <= j => w[i].by <= w[j].by

(* s is one generation ahead of r: the rotation is still under way, and s    *)
(* will keep the previous key until after it has arrived.                    *)
Announced(w, r, s) ==
    /\ r.gen \in DOMAIN s.expires
    /\ \E i \in 1..Len(w) :
          w[i].gen = s.gen /\ w[i].by + RetireAfter <= s.expires[r.gen] + CtlDelay

(* r against the other ring s, with the rotations w on their way from s to r.*)
(* s is at most one ahead; and each entered the generation before last no    *)
(* later than the other entered the last one.                                *)
Follows(r, s, w, t) ==
    /\ s.gen <= r.gen + 1
    /\ s.gen = r.gen + 1 =>
          /\ Announced(w, r, s)
          /\ r.gen - 1 \in DOMAIN r.expires => r.expires[r.gen - 1] <= s.expires[r.gen]
          /\ r.gen - 2 \in DOMAIN r.expires => r.expires[r.gen - 2] <= t
    /\ s.gen = r.gen /\ r.gen - 2 \in DOMAIN r.expires =>
          \/ r.expires[r.gen - 2] <= t
          \/ r.gen - 1 \in DOMAIN s.expires /\ r.expires[r.gen - 2] <= s.expires[r.gen - 1]

(* A datagram on its way from s to r: if r has left its generation, it will  *)
(* arrive before r gives up the key.                                         *)
InFlight(dg, r, s, t) ==
    /\ dg.ours = TRUE /\ dg.seq \in Seqs /\ dg.key \in Nat /\ dg.tag = Tag(dg.key)
    /\ dg.key <= s.gen /\ dg.seq <= s.lastSent /\ t <= dg.seq + MaxDelay
    /\ dg.key < r.gen => dg.key \in DOMAIN r.expires /\ dg.seq + MaxDelay < r.expires[dg.key]

(* The datagrams A on their way from s to r, of which r has accepted H.      *)
AirInTime(A, H, r, s, t) ==
    /\ H \subseteq A
    /\ \A dg \in A : InFlight(dg, r, s, t)
    /\ \A a, b \in A : a.seq = b.seq => a = b
    /\ r.window.top <= s.lastSent
    /\ \A dg \in A : dg \in H <=> Seen(r.window, dg.seq)

PeerInTime(p, r, s) ==
    /\ RingInTime(r, now)
    /\ WireInTime(wire[p], s.gen, now)
    /\ Follows(r, s, wire[p], now)
    /\ AirInTime(air[p], heard[p], r, s, now)

RInv ==
    /\ DOMAIN ring = Peers /\ DOMAIN air = Peers /\ DOMAIN heard = Peers
    /\ DOMAIN wire = Peers /\ now \in Seqs
    /\ \A p \in Peers : PeerInTime(p, ring[p], ring[Other(p)])

LEMMA OtherPeer ==
    ASSUME NEW p \in Peers
    PROVE  /\ Other(p) \in Peers /\ Other(p) # p /\ Other(Other(p)) = p
           /\ Peers = {p, Other(p)}
<1>1. PICK a \in Peers, b \in Peers : a # b /\ Peers = {a, b}
      BY CallAssumption
<1>2. \A x \in Peers : Other(x) \in Peers /\ Other(x) # x
      BY <1>1 DEF Other
<1>3. QED BY <1>1, <1>2

LEMMA WireTypes ==
    ASSUME NEW w, NEW gen, NEW t, WireInTime(w, gen, t)
    PROVE  /\ Len(w) \in Nat
           /\ \A i \in 1..Len(w) : /\ w[i].gen \in Nat /\ w[i].gen <= MaxGen /\ w[i].by \in Nat
                                    /\ w[i].gen <= gen /\ t <= w[i].by
                                    /\ w[i].by <= t + CtlDelay
<1>1. w \in Seq([gen : 0..MaxGen, by : Nat])
      BY DEF WireInTime
<1>2. \A i \in 1..Len(w) : w[i] \in [gen : 0..MaxGen, by : Nat]
      BY <1>1, ElementOfSeq
<1>3. \A i \in 1..Len(w) : w[i].gen \in Nat /\ w[i].gen <= MaxGen /\ w[i].by \in Nat
      BY <1>2, CallAssumption
<1>4. QED BY <1>1, <1>3 DEF WireInTime

(* What purging does to a ring in time, and what it leaves alone.            *)
LEMMA PurgeInTime ==
    ASSUME NEW r, NEW t \in Nat, RingInTime(r, t)
    PROVE  RingInTime(Purge(r, t), t)
BY PurgeKeeps DEF RingInTime

LEMMA PurgeFollows ==
    ASSUME NEW r, NEW s, NEW w, NEW v, NEW t \in Nat, Timely,
           RingInTime(r, t), RingInTime(s, t), WireInTime(v, r.gen, t),
           Follows(r, s, w, t), Follows(s, r, v, t)
    PROVE  Follows(Purge(r, t), s, w, t) /\ Follows(s, Purge(r, t), v, t)
<1> DEFINE u == Purge(r, t)
<1> USE RetireAssumption, CallAssumption
<1>0. /\ u.gen = r.gen /\ r.gen \in Nat /\ s.gen \in Nat
      /\ DOMAIN u.expires = {g \in DOMAIN r.expires : t < r.expires[g]}
      /\ \A g \in DOMAIN u.expires : u.expires[g] = r.expires[g]
      /\ \A g \in DOMAIN r.expires : g \in Nat /\ r.expires[g] \in Nat
      /\ \A g \in DOMAIN s.expires : g \in Nat /\ s.expires[g] \in Nat
  <2>1. GoodRing(r) /\ GoodRing(s)
        BY DEF RingInTime
  <2>2. /\ u.gen = r.gen
        /\ DOMAIN u.expires = {g \in DOMAIN r.expires : t < r.expires[g]}
        /\ \A g \in DOMAIN u.expires : u.expires[g] = r.expires[g]
        BY <2>1, PurgeKeeps
  <2>3. QED BY <2>1, <2>2 DEF GoodRing, IsRing
<1>1. Follows(u, s, w, t)
      BY <1>0 DEF Follows, Announced
<1>2. Follows(s, u, v, t)
  <2>1. CASE r.gen = s.gen + 1
    <3>1. PICK i \in 1..Len(v) :
             v[i].gen = r.gen /\ v[i].by + RetireAfter <= r.expires[s.gen] + CtlDelay
          BY <2>1 DEF Follows, Announced
    <3>2. v[i].by \in Nat /\ t <= v[i].by
          BY <3>1, WireTypes
    <3>3. s.gen \in DOMAIN r.expires /\ r.expires[s.gen] \in Nat
          BY <2>1, <1>0 DEF Follows, Announced
    <3>4. s.gen \in DOMAIN u.expires /\ u.expires[s.gen] = r.expires[s.gen]
          BY <3>1, <3>2, <3>3, <1>0, SMTT(60) DEF Timely
    <3>5. Announced(v, s, u)
          BY <3>1, <3>4, <1>0 DEF Announced
    <3>6. QED BY <2>1, <3>4, <3>5, <1>0 DEF Follows
  <2>2. CASE r.gen # s.gen + 1
        BY <2>2, <1>0 DEF Follows
  <2>3. QED BY <2>1, <2>2
<1>3. QED BY <1>1, <1>2

(* A peer that announces: both were in the same generation, or the other is  *)
(* one ahead.                                                                *)
LEMMA AnnounceInTime ==
    ASSUME NEW r, NEW s, NEW w, NEW v, NEW t \in Nat,
           RingInTime(r, t), RingInTime(s, t), WireInTime(v, r.gen, t),
           Follows(r, s, w, t), Follows(s, r, v, t),
           DOMAIN r.expires = {}, r.gen < MaxGen
    PROVE  LET u == Advance(r, t)
               x == Append(v, [gen |-> u.gen, by |-> t + CtlDelay])
           IN  /\ RingInTime(u, t)
               /\ WireInTime(x, u.gen, t)
               /\ Follows(u, s, w, t) /\ Follows(s, u, x, t)
<1> DEFINE u == Advance(r, t)
           m == [gen |-> u.gen, by |-> t + CtlDelay]
           x == Append(v, m)
<1> USE RetireAssumption, CallAssumption
<1>0. /\ GoodRing(u) /\ u.gen = r.gen + 1 /\ u.lastSent = r.lastSent
      /\ r.gen \in Nat /\ s.gen \in Nat
      /\ DOMAIN u.expires = {r.gen} /\ u.expires[r.gen] = t + RetireAfter
      /\ \A g \in DOMAIN s.expires : g \in Nat /\ s.expires[g] \in Nat
                                     /\ s.expires[g] <= t + RetireAfter
  <2>1. r.gen \in Nat /\ s.gen \in Nat
        BY DEF RingInTime, GoodRing, IsRing
  <2>2. r.gen # r.gen - 3
        BY <2>1
  <2>3. GoodRing(r) /\ GoodRing(s)
        BY DEF RingInTime
  <2>4. /\ GoodRing(u) /\ u.gen = r.gen + 1 /\ u.lastSent = r.lastSent
        /\ DOMAIN u.expires = (DOMAIN r.expires \cup {r.gen}) \ {r.gen - 3}
        /\ \A g \in DOMAIN u.expires :
              u.expires[g] = IF g = r.gen THEN t + RetireAfter ELSE r.expires[g]
        BY <2>3, AdvanceKeeps
  <2>5. DOMAIN u.expires = {r.gen}
        BY <2>2, <2>4
  <2>6. u.expires[r.gen] = t + RetireAfter
        BY <2>4, <2>5
  <2>7. \A g \in DOMAIN s.expires : g \in Nat /\ s.expires[g] \in Nat
        BY <2>3 DEF GoodRing, IsRing
  <2>8. QED BY <2>1, <2>4, <2>5, <2>6, <2>7 DEF RingInTime
<1>1. RingInTime(u, t)
      BY <1>0 DEF RingInTime
<1>2. /\ v \in Seq([gen : 0..MaxGen, by : Nat]) /\ m \in [gen : 0..MaxGen, by : Nat]
      /\ m.gen = u.gen /\ m.by = t + CtlDelay /\ m.by \in Nat
      BY <1>0, SMTT(60) DEF WireInTime
<1>3. /\ x \in Seq([gen : 0..MaxGen, by : Nat]) /\ Len(x) = Len(v) + 1 /\ Len(v) \in Nat
      /\ x[Len(v) + 1] = m /\ \A i \in 1..Len(v) : x[i] = v[i]
      BY <1>2
<1>4. WireInTime(x, u.gen, t)
  <2>1. \A i \in 1..Len(v) : /\ v[i].gen \in Nat /\ v[i].by \in Nat /\ v[i].gen <= r.gen
                             /\ t <= v[i].by /\ v[i].by <= t + CtlDelay
        BY WireTypes
  <2>2. \A i \in 1..Len(x) : x[i].gen <= u.gen /\ t <= x[i].by /\ x[i].by <= t + CtlDelay
    <3> SUFFICES ASSUME NEW i \in 1..Len(x)
                 PROVE  x[i].gen <= u.gen /\ t <= x[i].by /\ x[i].by <= t + CtlDelay
        OBVIOUS
    <3>1. CASE i \in 1..Len(v)
      <4>1. x[i] = v[i]
            BY <3>1, <1>3
      <4>2. v[i].gen \in Nat /\ v[i].gen <= r.gen /\ t <= v[i].by /\ v[i].by <= t + CtlDelay
            BY <3>1, <2>1
      <4>3. QED BY <4>1, <4>2, <1>0
    <3>2. CASE i = Len(v) + 1
          BY <3>2, <1>3, <1>2, <1>0
    <3>3. QED BY <3>1, <3>2, <1>3
  <2>3. \A i, j \in 1..Len(x) : i <= j => x[i].by <= x[j].by
    <3> SUFFICES ASSUME NEW i \in 1..Len(x), NEW j \in 1..Len(x), i <= j
                 PROVE  x[i].by <= x[j].by
        OBVIOUS
    <3>1. CASE j \in 1..Len(v)
      <4>1. i \in 1..Len(v)
            BY <3>1
      <4>2. QED BY <3>1, <4>1, <1>3 DEF WireInTime
    <3>2. CASE j = Len(v) + 1
      <4>1. x[j].by = t + CtlDelay
            BY <3>2, <1>3, <1>2
      <4>2. QED BY <4>1, <2>2
    <3>3. QED BY <3>1, <3>2, <1>3, SMTT(60)
  <2>4. QED BY <2>2, <2>3, <1>3 DEF WireInTime
<1>5. s.gen # r.gen - 1 /\ s.gen \in {r.gen, r.gen + 1}
      BY <1>0 DEF Follows, Announced
<1>6. CASE s.gen = r.gen
  <2>1. Follows(u, s, w, t)
        BY <1>6, <1>0 DEF Follows
  <2>2. Announced(x, s, u)
    <3>1. x[Len(x)].gen = u.gen /\ x[Len(x)].by = t + CtlDelay /\ Len(x) \in 1..Len(x)
          BY <1>2, <1>3
    <3>2. s.gen \in DOMAIN u.expires /\ u.expires[s.gen] = t + RetireAfter
          BY <1>6, <1>0
    <3>3. x[Len(x)].by + RetireAfter <= u.expires[s.gen] + CtlDelay
          BY <3>1, <3>2
    <3>4. QED BY <3>1, <3>2, <3>3 DEF Announced
  <2>3. s.gen - 2 \in DOMAIN s.expires => s.expires[s.gen - 2] <= t
        BY <1>6 DEF Follows
  <2>4. QED BY <1>6, <1>0, <1>1, <1>4, <2>1, <2>2, <2>3 DEF Follows
<1>7. CASE s.gen = r.gen + 1
  <2>1. u.gen - 2 \notin DOMAIN u.expires
        BY <1>0
  <2>2. Follows(u, s, w, t)
        BY <1>7, <1>0, <2>1 DEF Follows
  <2>3. s.gen - 1 = r.gen
        BY <1>7, <1>0
  <2>4. s.gen - 2 \in DOMAIN s.expires => s.expires[s.gen - 2] <= u.expires[s.gen - 1]
        BY <2>3, <1>0
  <2>5. Follows(s, u, x, t)
        BY <1>7, <1>0, <2>3, <2>4 DEF Follows
  <2>6. QED BY <1>1, <1>4, <2>2, <2>5
<1>8. QED BY <1>5, <1>6, <1>7

(* A peer that follows the other one into the next generation.               *)
LEMMA FollowInTime ==
    ASSUME NEW r, NEW s, NEW w, NEW x, NEW v, NEW t \in Nat,
           RingInTime(r, t), RingInTime(s, t),
           Follows(r, s, w, t), Follows(s, r, v, t), s.gen = r.gen + 1
    PROVE  LET u == Advance(r, t)
           IN  RingInTime(u, t) /\ Follows(u, s, x, t) /\ Follows(s, u, v, t)
<1> DEFINE u == Advance(r, t)
<1> USE RetireAssumption, CallAssumption
<1>0. /\ GoodRing(u) /\ u.gen = r.gen + 1 /\ u.lastSent = r.lastSent
      /\ r.gen \in Nat /\ s.gen \in Nat
      /\ DOMAIN u.expires = (DOMAIN r.expires \cup {r.gen}) \ {r.gen - 3}
      /\ \A g \in DOMAIN u.expires :
            u.expires[g] = IF g = r.gen THEN t + RetireAfter ELSE r.expires[g]
      /\ \A g \in DOMAIN r.expires : g \in Nat /\ r.expires[g] \in Nat
      /\ \A g \in DOMAIN s.expires : g \in Nat /\ s.expires[g] \in Nat
                                     /\ s.expires[g] <= t + RetireAfter
  <2>1. GoodRing(r) /\ GoodRing(s)
        BY DEF RingInTime
  <2>2. /\ GoodRing(u) /\ u.gen = r.gen + 1 /\ u.lastSent = r.lastSent
        /\ DOMAIN u.expires = (DOMAIN r.expires \cup {r.gen}) \ {r.gen - 3}
        /\ \A g \in DOMAIN u.expires :
              u.expires[g] = IF g = r.gen THEN t + RetireAfter ELSE r.expires[g]
        BY <2>1, AdvanceKeeps
  <2>3. /\ r.gen \in Nat /\ s.gen \in Nat
        /\ \A g \in DOMAIN r.expires : g \in Nat /\ r.expires[g] \in Nat
        /\ \A g \in DOMAIN s.expires : g \in Nat /\ s.expires[g] \in Nat
        BY <2>1 DEF GoodRing, IsRing
  <2>4. QED BY <2>2, <2>3 DEF RingInTime
<1>1. RingInTime(u, t)
  <2>1. \A g \in DOMAIN u.expires : /\ u.expires[g] <= t + RetireAfter
                                    /\ g <= u.gen - 3 => u.expires[g] <= t
    <3> SUFFICES ASSUME NEW g \in DOMAIN u.expires
                 PROVE  /\ u.expires[g] <= t + RetireAfter
                        /\ g <= u.gen - 3 => u.expires[g] <= t
        OBVIOUS
    <3>1. CASE g = r.gen
          BY <3>1, <1>0
    <3>2. CASE g # r.gen
      <4>1. g \in DOMAIN r.expires /\ u.expires[g] = r.expires[g] /\ g # r.gen - 3 /\ g \in Nat
            BY <3>2, <1>0
      <4>2. g <= r.gen - 3 => r.expires[g] <= t
            BY <4>1 DEF RingInTime
      <4>3. g = r.gen - 2 => r.expires[g] <= t
            BY <4>1 DEF Follows
      <4>4. QED BY <4>1, <4>2, <4>3, <1>0 DEF RingInTime
    <3>3. QED BY <3>1, <3>2
  <2>2. u.gen <= MaxGen /\ u.lastSent <= t
        BY <1>0 DEF RingInTime
  <2>3. QED BY <1>0, <2>1, <2>2 DEF RingInTime
<1>2. Follows(u, s, x, t)
  <2>1. /\ u.gen - 2 = r.gen - 1 /\ u.gen - 1 = r.gen /\ r.gen - 1 # r.gen
        /\ r.gen \in DOMAIN s.expires
        BY <1>0, SMTT(60) DEF Follows, Announced
  <2>2. u.gen - 2 \in DOMAIN u.expires => u.expires[u.gen - 2] <= s.expires[u.gen - 1]
        BY <1>0, <2>1 DEF Follows
  <2>3. QED BY <1>0, <2>1, <2>2 DEF Follows
<1>3. Follows(s, u, v, t)
  <2>1. s.gen - 1 = r.gen /\ r.gen # r.gen - 3
        BY <1>0
  <2>2. r.gen \in DOMAIN u.expires /\ u.expires[r.gen] = t + RetireAfter
        BY <1>0, <2>1
  <2>3. s.gen - 2 \in DOMAIN s.expires => s.expires[s.gen - 2] <= u.expires[s.gen - 1]
        BY <1>0, <2>1, <2>2
  <2>4. QED BY <1>0, <2>1, <2>2, <2>3 DEF Follows
<1>4. QED BY <1>1, <1>2, <1>3

(* Reading a rotation takes it off the wire. *)
LEMMA TailInTime ==
    ASSUME NEW w, NEW gen, NEW t \in Nat, WireInTime(w, gen, t), w # <<>>
    PROVE  WireInTime(Tail(w), gen, t)
<1>1. w \in Seq([gen : 0..MaxGen, by : Nat])
      BY DEF WireInTime
<1>2. /\ Tail(w) \in Seq([gen : 0..MaxGen, by : Nat])
      /\ Len(Tail(w)) = Len(w) - 1 /\ Len(w) \in Nat
      /\ \A i \in 1..Len(Tail(w)) : Tail(w)[i] = w[i + 1] /\ i + 1 \in 1..Len(w)
      BY <1>1, HeadTailProperties
<1>3. \A i \in 1..Len(w) : w[i].gen <= gen /\ t <= w[i].by /\ w[i].by <= t + CtlDelay
      BY DEF WireInTime
<1>4. \A i \in 1..Len(Tail(w)) : /\ Tail(w)[i].gen <= gen /\ t <= Tail(w)[i].by
                                 /\ Tail(w)[i].by <= t + CtlDelay
      BY <1>2, <1>3
<1>5. \A i, j \in 1..Len(Tail(w)) : i <= j => Tail(w)[i].by <= Tail(w)[j].by
  <2> SUFFICES ASSUME NEW i \in 1..Len(Tail(w)), NEW j \in 1..Len(Tail(w)), i <= j
               PROVE  Tail(w)[i].by <= Tail(w)[j].by
      OBVIOUS
  <2>1. i + 1 \in 1..Len(w) /\ j + 1 \in 1..Len(w) /\ i + 1 <= j + 1
        BY <1>2
  <2>2. w[i + 1].by <= w[j + 1].by
        BY <2>1 DEF WireInTime
  <2>3. QED BY <2>2, <1>2
<1>6. QED BY <1>2, <1>4, <1>5 DEF WireInTime

(* What a rotation that is not the next one leaves of the wire still leads r.*)
LEMMA StaleRotation ==
    ASSUME NEW r, NEW s, NEW w, NEW t \in Nat, RingInTime(r, t), RingInTime(s, t),
           WireInTime(w, s.gen, t), Follows(r, s, w, t), w # <<>>,
           Head(w).gen # r.gen + 1
    PROVE  Follows(r, s, Tail(w), t)
<1>1. w \in Seq([gen : 0..MaxGen, by : Nat])
      BY DEF WireInTime
<1>2. /\ Len(Tail(w)) = Len(w) - 1 /\ Len(w) \in Nat /\ Head(w) = w[1]
      /\ \A i \in 1..Len(Tail(w)) : Tail(w)[i] = w[i + 1]
      BY <1>1, HeadTailProperties
<1>3. CASE s.gen = r.gen + 1
  <2>1. PICK i \in 1..Len(w) :
           w[i].gen = s.gen /\ w[i].by + RetireAfter <= s.expires[r.gen] + CtlDelay
        BY <1>3 DEF Follows, Announced
  <2>2. i # 1
        BY <2>1, <1>2, <1>3
  <2>3. i - 1 \in 1..Len(Tail(w)) /\ Tail(w)[i - 1] = w[i]
        BY <2>2, <1>2
  <2>4. Announced(Tail(w), r, s)
        BY <2>1, <2>3, <1>3 DEF Announced, Follows
  <2>5. QED BY <2>4, <1>3 DEF Follows
<1>4. CASE s.gen # r.gen + 1
      BY <1>4 DEF Follows
<1>5. QED BY <1>3, <1>4

(* Time passes up to the moment a rotation has to be read.                   *)
LEMMA TickInTime ==
    ASSUME NEW r, NEW s, NEW w, NEW t \in Nat, RingInTime(r, t), RingInTime(s, t),
           WireInTime(w, s.gen, t), Follows(r, s, w, t), w # <<>> => t < Head(w).by
    PROVE  /\ RingInTime(r, t + 1) /\ WireInTime(w, s.gen, t + 1)
           /\ Follows(r, s, w, t + 1)
<1> USE RetireAssumption, CallAssumption
<1>0. /\ r.gen \in Nat /\ s.gen \in Nat /\ r.lastSent \in Int
      /\ \A g \in DOMAIN r.expires : g \in Nat /\ r.expires[g] \in Nat
      BY DEF RingInTime, GoodRing, IsRing, Seqs
<1>1. RingInTime(r, t + 1)
      BY <1>0 DEF RingInTime
<1>2. WireInTime(w, s.gen, t + 1)
  <2> SUFFICES ASSUME NEW i \in 1..Len(w)
               PROVE  t + 1 <= w[i].by /\ w[i].by <= t + 1 + CtlDelay
      BY DEF WireInTime
  <2>1. w \in Seq([gen : 0..MaxGen, by : Nat])
        BY DEF WireInTime
  <2>2. w # <<>> /\ Head(w) = w[1] /\ 1 \in 1..Len(w) /\ 1 <= i
        BY <2>1
  <2>3. w[1].by <= w[i].by
        BY <2>2 DEF WireInTime
  <2>4. w[1].by \in Nat /\ w[i].by \in Nat /\ w[i].by <= t + CtlDelay
        BY <2>2, WireTypes
  <2>5. QED BY <2>2, <2>3, <2>4
<1>3. Follows(r, s, w, t + 1)
      BY <1>0 DEF Follows
<1>4. QED BY <1>1, <1>2, <1>3

(* Rings that agree on generation and retirement times follow alike.         *)
LEMMA FollowsAlike ==
    ASSUME NEW r, NEW s, NEW u, NEW v, NEW w, NEW t,
           u.gen = r.gen, u.expires = r.expires, v.gen = s.gen, v.expires = s.expires,
           Follows(r, s, w, t)
    PROVE  Follows(u, v, w, t)
BY DEF Follows, Announced

LEMMA RingAlike ==
    ASSUME NEW r, NEW u, NEW t, RingInTime(r, t), GoodRing(u),
           u.gen = r.gen, u.expires = r.expires, u.lastSent <= t
    PROVE  RingInTime(u, t)
BY DEF RingInTime

-----------------------------------------------------------------------------
(* The datagrams in the air. *)

LEMMA AirAlike ==
    ASSUME NEW A, NEW H, NEW r, NEW s, NEW u, NEW v, NEW t, AirInTime(A, H, r, s, t),
           u.gen = r.gen, u.expires = r.expires, u.window = r.window,
           v.gen = s.gen, v.lastSent = s.lastSent
    PROVE  AirInTime(A, H, u, v, t)
BY DEF AirInTime, InFlight

(* The sender moves on. *)
LEMMA SenderMoves ==
    ASSUME NEW A, NEW H, NEW r, NEW s, NEW v, NEW t, AirInTime(A, H, r, s, t),
           GoodRing(s), GoodRing(v), s.gen <= v.gen, v.lastSent = s.lastSent
    PROVE  AirInTime(A, H, r, v, t)
<1>1. s.gen \in Nat /\ v.gen \in Nat
      BY DEF GoodRing, IsRing
<1>2. ASSUME NEW dg \in A PROVE InFlight(dg, r, v, t)
      BY <1>1 DEF AirInTime, InFlight
<1>3. QED BY <1>2 DEF AirInTime

(* Purging takes no key of a datagram that may still arrive. *)
LEMMA PurgeSparesAir ==
    ASSUME NEW A, NEW H, NEW r, NEW s, NEW t \in Nat, AirInTime(A, H, r, s, t), RingInTime(r, t)
    PROVE  AirInTime(A, H, Purge(r, t), s, t)
<1> DEFINE u == Purge(r, t)
<1> USE CallAssumption
<1>1. /\ u.gen = r.gen /\ u.window = r.window
      /\ DOMAIN u.expires = {g \in DOMAIN r.expires : t < r.expires[g]}
      /\ \A g \in DOMAIN u.expires : u.expires[g] = r.expires[g]
      BY PurgeKeeps DEF RingInTime
<1>2. \A g \in DOMAIN r.expires : r.expires[g] \in Nat
      BY DEF RingInTime, GoodRing, IsRing
<1>3. ASSUME NEW dg \in A PROVE InFlight(dg, u, s, t)
  <2>1. InFlight(dg, r, s, t) /\ dg.seq \in Nat
        BY DEF AirInTime, InFlight, Seqs
  <2>2. ASSUME dg.key < r.gen
        PROVE  dg.key \in DOMAIN u.expires /\ dg.seq + MaxDelay < u.expires[dg.key]
        BY <2>1, <2>2, <1>1, <1>2 DEF InFlight
  <2>3. QED BY <2>1, <2>2, <1>1 DEF InFlight
<1>4. QED BY <1>1, <1>3 DEF AirInTime

(* Nor does a rotation: the generation it drops has expired, the one it      *)
(* retires keeps its key for RetireAfter.                                    *)
LEMMA AdvanceSparesAir ==
    ASSUME NEW A, NEW H, NEW r, NEW s, NEW t \in Nat, AirInTime(A, H, r, s, t), Timely,
           RingInTime(r, t), RingInTime(s, t)
    PROVE  AirInTime(A, H, Advance(r, t), s, t)
<1> DEFINE u == Advance(r, t)
<1> USE CallAssumption, RetireAssumption
<1>1. /\ u.gen = r.gen + 1 /\ u.window = r.window
      /\ DOMAIN u.expires = (DOMAIN r.expires \cup {r.gen}) \ {r.gen - 3}
      /\ \A g \in DOMAIN u.expires :
            u.expires[g] = IF g = r.gen THEN t + RetireAfter ELSE r.expires[g]
      BY AdvanceKeeps DEF RingInTime
<1>2. /\ r.gen \in Nat /\ s.lastSent \in Int /\ s.lastSent <= t
      /\ \A g \in DOMAIN r.expires : r.expires[g] \in Nat
      BY DEF RingInTime, GoodRing, IsRing, Seqs
<1>3. ASSUME NEW dg \in A PROVE InFlight(dg, u, s, t)
  <2>1. /\ InFlight(dg, r, s, t) /\ dg.seq \in Nat /\ dg.key \in Nat
        /\ dg.seq <= t /\ t <= dg.seq + MaxDelay
        BY <1>2 DEF AirInTime, InFlight, Seqs
  <2>2. CASE dg.key = r.gen
    <3>1. dg.key \in DOMAIN u.expires /\ u.expires[dg.key] = t + RetireAfter
          BY <2>2, <1>1, <1>2
    <3>2. dg.seq + MaxDelay < t + RetireAfter
          BY <2>1 DEF Timely
    <3>3. QED BY <3>1, <3>2, <2>1, <2>2, <1>1 DEF InFlight
  <2>3. CASE dg.key < r.gen
    <3>1. dg.key \in DOMAIN r.expires /\ dg.seq + MaxDelay < r.expires[dg.key]
          BY <2>1, <2>3 DEF InFlight
    <3>2. dg.key # r.gen - 3
          BY <3>1, <2>1, <1>2 DEF RingInTime
    <3>3. dg.key \in DOMAIN u.expires /\ u.expires[dg.key] = r.expires[dg.key]
          BY <3>1, <3>2, <2>3, <2>1, <1>1, <1>2
    <3>4. QED BY <3>1, <3>3, <2>1, <2>3, <1>1 DEF InFlight
  <2>4. CASE r.gen < dg.key
        BY <2>1, <2>4, <1>1, <1>2 DEF InFlight
  <2>5. QED BY <2>1, <2>2, <2>3, <2>4, <1>2
<1>4. QED BY <1>1, <1>3 DEF AirInTime

(* What a receiver in time makes of a datagram. *)
LEMMA AirVerdict ==
    ASSUME NEW A, NEW H, NEW r, NEW s, NEW w, NEW t \in Nat, AirInTime(A, H, r, s, t),
           RingInTime(r, t), RingInTime(s, t), Follows(r, s, w, t), Timely,
           NEW dg \in A
    PROVE  /\ dg.key <= r.gen =>
                 Verdict(r, dg, t) = IF dg \in H THEN "replay" ELSE "ok"
           /\ dg.key > r.gen => Verdict(r, dg, t) = "no_key"
<1> DEFINE u == Purge(r, t)
<1> USE CallAssumption, WindowAssumption
<1>0. GoodRing(r) /\ GoodRing(s)
      BY DEF RingInTime
<1>1. /\ GoodRing(u) /\ u.gen = r.gen
      /\ DOMAIN u.recv \subseteq DOMAIN r.recv
      /\ DOMAIN u.expires = {g \in DOMAIN r.expires : t < r.expires[g]}
      /\ DOMAIN u.recv = DOMAIN u.expires \cup {r.gen}
      BY <1>0, PurgeKeeps DEF GoodRing
<1>2. /\ r.gen \in Nat /\ s.gen \in Nat /\ r.window \in Windows /\ r.window.top \in Int
      /\ s.lastSent \in Int /\ s.lastSent <= t
      /\ \A g \in DOMAIN r.expires : r.expires[g] \in Nat
      BY <1>0 DEF RingInTime, GoodRing, IsRing, Windows, Seqs
<1>3. /\ dg.ours = TRUE /\ dg.seq \in Seqs /\ dg.seq \in Nat /\ dg.key \in Nat
      /\ dg.tag = Tag(dg.key) /\ dg.key <= s.gen /\ t <= dg.seq + MaxDelay
      /\ dg.key < r.gen => dg.key \in DOMAIN r.expires /\ dg.seq + MaxDelay < r.expires[dg.key]
      BY DEF AirInTime, InFlight, Seqs
<1>4. CASE dg.key <= r.gen
  <2>1. dg.key \in DOMAIN u.recv
    <3>1. CASE dg.key = r.gen
          BY <3>1, <1>1
    <3>2. CASE dg.key < r.gen
          BY <3>2, <1>1, <1>2, <1>3
    <3>3. QED BY <3>1, <3>2, <1>2, <1>3, <1>4
  <2>2. Verdict(r, dg, t) = IF Check(r.window, dg.seq) THEN "ok" ELSE "replay"
        BY <2>1, <1>0, <1>3, LiveKeyVerdict
  <2>3. r.window.top - dg.seq < WindowSize
        BY <1>2, <1>3 DEF Timely, AirInTime
  <2>4. Check(r.window, dg.seq) <=> dg \notin H
        BY <2>3, <1>2, <1>3, SeenDecides DEF AirInTime
  <2>5. QED BY <2>2, <2>4, <1>2, <1>3, <1>4
<1>5. CASE dg.key > r.gen
  <2>1. dg.key = r.gen + 1
        BY <1>2, <1>3, <1>5 DEF Follows
  <2>2. r.gen - 3 \notin DOMAIN u.recv
    <3>1. ASSUME r.gen - 3 \in DOMAIN r.expires
          PROVE  r.expires[r.gen - 3] <= t
          BY <3>1, <1>2 DEF RingInTime
    <3>2. QED BY <3>1, <1>1, <1>2
  <2>3. Verdict(r, dg, t) = "no_key"
        BY <2>1, <2>2, <1>0, <1>3, NextKeyVerdict
  <2>4. QED BY <2>3, <1>2, <1>3, <1>5
<1>6. QED BY <1>4, <1>5, <1>2, <1>3

(* A datagram accepted joins the accepted ones, and no other. *)
LEMMA AcceptInAir ==
    ASSUME NEW A, NEW H, NEW r, NEW s, NEW u, NEW t \in Nat, AirInTime(A, H, r, s, t),
           RingInTime(r, t), RingInTime(s, t), Timely,
           NEW dg \in A, Check(r.window, dg.seq),
           u.gen = r.gen, u.expires = r.expires, u.window = Accept(r.window, dg.seq)
    PROVE  AirInTime(A, H \cup {dg}, u, s, t)
<1> USE CallAssumption, WindowAssumption
<1>1. /\ r.window \in Windows /\ r.window.top \in Int
      /\ s.lastSent \in Int /\ s.lastSent <= t /\ r.window.top <= s.lastSent
      BY DEF RingInTime, GoodRing, IsRing, Windows, Seqs, AirInTime
<1>2. \A d \in A : d.seq \in Seqs /\ d.seq \in Nat /\ d.seq <= s.lastSent /\ t <= d.seq + MaxDelay
      BY DEF AirInTime, InFlight, Seqs
<1>3. u.window.top = IF dg.seq > r.window.top THEN dg.seq ELSE r.window.top
      BY <1>1, <1>2, AcceptType
<1>4. u.window.top <= s.lastSent /\ u.window.top \in Int
      BY <1>1, <1>2, <1>3
<1>5. ASSUME NEW d \in A PROVE d \in H \cup {dg} <=> Seen(u.window, d.seq)
  <2>1. u.window.top - d.seq < WindowSize
        BY <1>1, <1>2, <1>4 DEF Timely
  <2>2. Seen(u.window, d.seq) <=> d.seq = dg.seq \/ Seen(r.window, d.seq)
        BY <2>1, <1>1, <1>2, AcceptRecords
  <2>3. d.seq = dg.seq <=> d = dg
        BY DEF AirInTime
  <2>4. QED BY <2>2, <2>3 DEF AirInTime
<1>6. \A d \in A : InFlight(d, u, s, t)
      BY DEF AirInTime, InFlight
<1>7. QED BY <1>4, <1>5, <1>6 DEF AirInTime

(* Time passes: what is late is gone from the air. *)
LEMMA TickInAir ==
    ASSUME NEW A, NEW H, NEW r, NEW s, NEW t \in Nat, AirInTime(A, H, r, s, t)
    PROVE  AirInTime(UnderWay(A, t + 1), UnderWay(H, t + 1), r, s, t + 1)
<1>1. ASSUME NEW dg \in UnderWay(A, t + 1) PROVE InFlight(dg, r, s, t + 1)
      BY <1>1 DEF AirInTime, InFlight, UnderWay
<1>2. UnderWay(H, t + 1) \subseteq UnderWay(A, t + 1) /\ UnderWay(A, t + 1) \subseteq A
      BY DEF AirInTime, UnderWay
<1>3. \A dg \in UnderWay(A, t + 1) : dg \in UnderWay(H, t + 1) <=> dg \in H
      BY DEF UnderWay
<1>4. QED BY <1>1, <1>2, <1>3 DEF AirInTime

(* A new frame: its receiver, if ahead, keeps the key until the rotation that*)
(* is still under way would have been late.                                  *)
LEMMA SendInAir ==
    ASSUME NEW A, NEW H, NEW r, NEW s, NEW w, NEW t \in Nat, AirInTime(A, H, r, s, t), Timely,
           RingInTime(r, t), RingInTime(s, t), WireInTime(w, r.gen, t), Follows(s, r, w, t),
           t \in Seqs, s.lastSent < t
    PROVE  AirInTime(A \cup {Datagram(s, t)}, H, r, Seal(s, t), t)
<1> DEFINE d == Datagram(s, t)
           v == Seal(s, t)
<1> USE CallAssumption, RetireAssumption
<1>1. /\ GoodRing(s) /\ s.gen \in Nat /\ r.gen \in Nat /\ s.lastSent \in Int
      /\ r.window.top \in Int /\ r.window.top <= s.lastSent
      /\ \A g \in DOMAIN r.expires : r.expires[g] \in Nat
  <2>1. GoodRing(s) /\ GoodRing(r) /\ r.window.top <= s.lastSent
        BY DEF RingInTime, AirInTime
  <2>2. r.window \in Windows /\ s.lastSent \in Int
        BY <2>1 DEF GoodRing, IsRing, Seqs
  <2>3. QED BY <2>1, <2>2, SMTT(60) DEF GoodRing, IsRing, Windows, Seqs
<1>2. v.gen = s.gen /\ v.lastSent = t
      BY <1>1 DEF Seal, GoodRing, IsRing, Fields
<1>3. d.ours = TRUE /\ d.seq = t /\ d.key = s.gen /\ d.tag = Tag(s.gen)
      BY <1>1 DEF Datagram, GoodRing
<1>4. ASSUME s.gen < r.gen
      PROVE  s.gen \in DOMAIN r.expires /\ t + MaxDelay < r.expires[s.gen]
  <2>1. r.gen = s.gen + 1
        BY <1>1, <1>4 DEF Follows
  <2>2. s.gen \in DOMAIN r.expires
        BY <2>1 DEF Follows, Announced
  <2>3. PICK i \in 1..Len(w) : w[i].by + RetireAfter <= r.expires[s.gen] + CtlDelay
        BY <2>1 DEF Follows, Announced
  <2>4. w[i].by \in Nat /\ t <= w[i].by
        BY <2>3, WireTypes
  <2>5. r.expires[s.gen] \in Nat
        BY <2>2, <1>1
  <2>6. QED BY <2>2, <2>3, <2>4, <2>5, SMTT(60) DEF Timely
<1>5. InFlight(d, r, v, t)
      BY <1>1, <1>2, <1>3, <1>4 DEF InFlight
<1>6. ASSUME NEW x \in A
      PROVE  InFlight(x, r, v, t) /\ x.seq < t
      BY <1>1, <1>2 DEF AirInTime, InFlight, Seqs
<1>7. d \notin H /\ ~Seen(r.window, d.seq)
      BY <1>1, <1>3, <1>6 DEF AirInTime, Seen
<1>8. \A a, b \in A \cup {d} : a.seq = b.seq => a = b
      BY <1>3, <1>6 DEF AirInTime
<1>9. QED BY <1>1, <1>2, <1>5, <1>6, <1>7, <1>8 DEF AirInTime

(* PeerInTime with its values named, to move from one state to the next.     *)
InTime(r, s, w, A, H, t) ==
    /\ RingInTime(r, t) /\ WireInTime(w, s.gen, t) /\ Follows(r, s, w, t)
    /\ AirInTime(A, H, r, s, t)

(* Both peers, seen from p. *)
LEMMA BothInTime ==
    ASSUME NEW p \in Peers, RInv
    PROVE  LET q == Other(p)
           IN  /\ InTime(ring[p], ring[q], wire[p], air[p], heard[p], now)
               /\ InTime(ring[q], ring[p], wire[q], air[q], heard[q], now)
               /\ now \in Nat /\ now \in Seqs
BY OtherPeer DEF RInv, PeerInTime, InTime, Seqs

LEMMA StillInTime ==
    ASSUME NEW p \in Peers,
           DOMAIN ring' = Peers, DOMAIN air' = Peers, DOMAIN heard' = Peers,
           DOMAIN wire' = Peers, now' \in Seqs,
           InTime(ring'[p], ring'[Other(p)], wire'[p], air'[p], heard'[p], now'),
           InTime(ring'[Other(p)], ring'[p], wire'[Other(p)], air'[Other(p)],
                  heard'[Other(p)], now')
    PROVE  RInv'
<1>1. ASSUME NEW x \in Peers PROVE PeerInTime(x, ring[x], ring[Other(x)])'
      BY OtherPeer DEF PeerInTime, InTime
<1>2. QED BY <1>1 DEF RInv

LEMMA RInvInit == Init => RInv
<1> SUFFICES ASSUME Init PROVE RInv
    OBVIOUS
<1> USE CallAssumption, WindowAssumption, RetireAssumption
<1>1. GoodRing(NewRing)
      BY DEF NewRing, GoodRing, IsRing, Fields, NewWindow, Windows
<1>2. ASSUME NEW p \in Peers
      PROVE  PeerInTime(p, ring[p], ring[Other(p)])
  <2>1. /\ ring[p] = NewRing /\ ring[Other(p)] = NewRing /\ air[p] = {} /\ heard[p] = {}
        /\ wire[p] = <<>> /\ now = 0
        BY OtherPeer DEF Init
  <2>2. RingInTime(NewRing, 0)
        BY <1>1 DEF RingInTime, NewRing
  <2>3. WireInTime(<<>>, 0, 0)
        BY DEF WireInTime
  <2>4. Follows(NewRing, NewRing, <<>>, 0)
        BY DEF Follows, NewRing
  <2>5. AirInTime({}, {}, NewRing, NewRing, 0)
        BY DEF AirInTime, NewRing, NewWindow
  <2>6. NewRing.gen = 0
        BY DEF NewRing
  <2>7. QED BY <2>1, <2>2, <2>3, <2>4, <2>5, <2>6 DEF PeerInTime
<1>3. QED BY <1>2 DEF Init, RInv, Seqs

LEMMA RInvTick == ASSUME RInv, Tick, Timely PROVE RInv'
<1>0. PICK p \in Peers : TRUE
      BY CallAssumption
<1> DEFINE q == Other(p)
<1>1. /\ InTime(ring[p], ring[q], wire[p], air[p], heard[p], now)
      /\ InTime(ring[q], ring[p], wire[q], air[q], heard[q], now)
      /\ now \in Nat /\ q \in Peers
      BY BothInTime, OtherPeer
<1>2. /\ ring' = ring /\ wire' = wire /\ now' = now + 1 /\ now' \in Seqs
      /\ DOMAIN air' = Peers /\ DOMAIN heard' = Peers
      /\ \A x \in Peers : /\ air'[x] = UnderWay(air[x], now + 1)
                          /\ heard'[x] = UnderWay(heard[x], now + 1)
                          /\ wire[x] # <<>> => now < Head(wire[x]).by
      BY <1>1, WindowAssumption DEF Tick, Seqs
<1>3. InTime(ring[p], ring[q], wire[p], air'[p], heard'[p], now + 1)
      BY <1>1, <1>2, TickInTime, TickInAir DEF InTime
<1>4. InTime(ring[q], ring[p], wire[q], air'[q], heard'[q], now + 1)
      BY <1>1, <1>2, TickInTime, TickInAir DEF InTime
<1>5. QED BY <1>2, <1>3, <1>4, StillInTime DEF RInv

LEMMA RInvSend == ASSUME RInv, NEW p \in Peers, SendFrame(p), Timely PROVE RInv'
<1> DEFINE q == Other(p)
           v == Seal(ring[p], now)
<1>1. /\ InTime(ring[p], ring[q], wire[p], air[p], heard[p], now)
      /\ InTime(ring[q], ring[p], wire[q], air[q], heard[q], now)
      /\ now \in Nat /\ now \in Seqs /\ q \in Peers /\ q # p
      BY BothInTime, OtherPeer
<1>2. /\ ring'[p] = v /\ ring'[q] = ring[q] /\ DOMAIN ring' = Peers
      /\ air'[q] = air[q] \cup {Datagram(ring[p], now)} /\ air'[p] = air[p]
      /\ DOMAIN air' = Peers
      /\ heard' = heard /\ wire' = wire /\ now' = now
      /\ ring[p].lastSent < now
      BY <1>1 DEF SendFrame, CanSeal, RInv, GoodRing, IsRing, InTime, RingInTime, Seqs
<1>3. /\ GoodRing(v) /\ v.gen = ring[p].gen /\ v.expires = ring[p].expires
      /\ v.window = ring[p].window /\ v.lastSent = now
      BY <1>1 DEF InTime, RingInTime, Seal, GoodRing, IsRing, Fields
<1>4. InTime(v, ring[q], wire[p], air[p], heard[p], now)
  <2>1. RingInTime(v, now)
        BY <1>1, <1>3, RingAlike DEF InTime
  <2>2. Follows(v, ring[q], wire[p], now)
        BY <1>1, <1>3, FollowsAlike DEF InTime
  <2>3. AirInTime(air[p], heard[p], v, ring[q], now)
        BY <1>1, <1>3, AirAlike DEF InTime
  <2>4. QED BY <1>1, <2>1, <2>2, <2>3 DEF InTime
<1>5. InTime(ring[q], v, wire[q], air'[q], heard[q], now)
  <2>1. Follows(ring[q], v, wire[q], now)
        BY <1>1, <1>3, FollowsAlike DEF InTime
  <2>2. AirInTime(air'[q], heard[q], ring[q], v, now)
        BY <1>1, <1>2, SendInAir DEF InTime
  <2>3. QED BY <1>1, <1>3, <2>1, <2>2 DEF InTime
<1>6. QED BY <1>1, <1>2, <1>4, <1>5, StillInTime DEF RInv

LEMMA RInvReceive ==
    ASSUME RInv, NEW p \in Peers, NEW dg \in air[p], ReceiveFrame(p, dg), Timely
    PROVE  RInv'
<1> DEFINE q == Other(p)
           r == ring[p]
           c == Purge(r, now)
           u == Open(r, dg, now)
<1>1. /\ InTime(r, ring[q], wire[p], air[p], heard[p], now)
      /\ InTime(ring[q], r, wire[q], air[q], heard[q], now)
      /\ now \in Nat /\ now \in Seqs /\ q \in Peers /\ q # p
      BY BothInTime, OtherPeer
<1>2. /\ ring'[p] = u /\ ring'[q] = ring[q] /\ DOMAIN ring' = Peers
      /\ heard'[q] = heard[q] /\ DOMAIN heard' = Peers
      /\ heard'[p] = IF Verdict(r, dg, now) = "ok" THEN heard[p] \cup {dg} ELSE heard[p]
      /\ air' = air /\ wire' = wire /\ now' = now
      BY <1>1 DEF ReceiveFrame, RInv
<1>3. dg.ours = TRUE /\ dg.seq \in Seqs
      BY <1>1 DEF InTime, AirInTime, InFlight
<1>4. GoodRing(r) /\ GoodRing(ring[q])
      BY <1>1 DEF InTime, RingInTime
<1>5. /\ GoodRing(c) /\ c.gen = r.gen /\ c.window = r.window /\ c.lastSent = r.lastSent
      BY <1>1, <1>4, PurgeKeeps
<1>6. /\ GoodRing(u) /\ u.gen = c.gen /\ u.lastSent = c.lastSent /\ u.expires = c.expires
      /\ Verdict(r, dg, now) = "ok" => /\ Check(r.window, dg.seq)
                                       /\ u.window = Accept(r.window, dg.seq)
      /\ Verdict(r, dg, now) # "ok" => u.window = r.window
  <2>1. GoodRing(r) /\ now \in Nat /\ dg.seq \in Seqs
        BY <1>1, <1>3, <1>4
  <2>2. dg.ours = TRUE
        BY <1>3
  <2>3. u.lastSent = c.lastSent
        BY <2>1, <2>2, OpenEffect, ZenonT(60)
  <2> HIDE DEF r
  <2>4. QED BY <2>1, <2>2, <2>3, OpenEffect
<1>7. RingInTime(c, now)
      BY <1>1, PurgeInTime DEF InTime
<1>8. Follows(c, ring[q], wire[p], now) /\ Follows(ring[q], c, wire[q], now)
      BY <1>1, PurgeFollows DEF InTime
<1>9. AirInTime(air[p], heard[p], c, ring[q], now)
      BY <1>1, PurgeSparesAir DEF InTime
<1>10. /\ RingInTime(u, now)
       /\ Follows(u, ring[q], wire[p], now) /\ Follows(ring[q], u, wire[q], now)
  <2>1. u.lastSent <= now
        BY <1>6, <1>7 DEF RingInTime
  <2>2. RingInTime(u, now)
        BY <2>1, <1>6, <1>7, RingAlike
  <2>3. QED BY <2>2, <1>6, <1>8, FollowsAlike
<1>11. AirInTime(air[p], heard'[p], u, ring[q], now)
  <2>1. CASE Verdict(r, dg, now) = "ok"
    <3>1. Check(c.window, dg.seq) /\ u.window = Accept(c.window, dg.seq)
          BY <2>1, <1>5, <1>6
    <3>2. heard'[p] = heard[p] \cup {dg}
          BY <2>1, <1>2
    <3>3. QED BY <3>1, <3>2, <1>1, <1>6, <1>7, <1>9, AcceptInAir DEF InTime
  <2>2. CASE Verdict(r, dg, now) # "ok"
    <3>1. u.window = c.window /\ heard'[p] = heard[p]
          BY <2>2, <1>2, <1>5, <1>6
    <3>2. QED BY <3>1, <1>6, <1>9, AirAlike
  <2>3. QED BY <2>1, <2>2
<1>12. InTime(u, ring[q], wire[p], air[p], heard'[p], now)
       BY <1>1, <1>10, <1>11 DEF InTime
<1>13. AirInTime(air[q], heard[q], ring[q], u, now)
       BY <1>1, <1>5, <1>6, AirAlike DEF InTime
<1>14. InTime(ring[q], u, wire[q], air[q], heard[q], now)
       BY <1>1, <1>5, <1>6, <1>10, <1>13 DEF InTime
<1>15. QED BY <1>1, <1>2, <1>12, <1>14, StillInTime DEF RInv

LEMMA RInvRotate == ASSUME RInv, NEW p \in Peers, RotateKeys(p), Timely PROVE RInv'
<1> DEFINE q == Other(p)
           r == ring[p]
           c == Purge(r, now)
           u == Advance(c, now)
           x == Append(wire[q], [gen |-> u.gen, by |-> now + CtlDelay])
<1>1. /\ InTime(r, ring[q], wire[p], air[p], heard[p], now)
      /\ InTime(ring[q], r, wire[q], air[q], heard[q], now)
      /\ now \in Nat /\ now \in Seqs /\ q \in Peers /\ q # p
      BY BothInTime, OtherPeer
<1>2. /\ DOMAIN ring = Peers /\ DOMAIN wire = Peers
      /\ DOMAIN air = Peers /\ DOMAIN heard = Peers
      BY DEF RInv
<1>3. /\ r.gen < MaxGen /\ ring' = [ring EXCEPT ![p] = RotateNext(r, now)]
      /\ wire' = IF RotateNext(r, now).gen = r.gen THEN wire
                 ELSE [wire EXCEPT ![q] =
                          Append(@, [gen |-> RotateNext(r, now).gen, by |-> now + CtlDelay])]
      /\ air' = air /\ heard' = heard /\ now' = now
      BY DEF RotateKeys
<1>4. GoodRing(r) /\ GoodRing(ring[q]) /\ r.gen \in Nat
      BY <1>1 DEF InTime, RingInTime, GoodRing, IsRing
<1>5. GoodRing(c) /\ c.gen = r.gen /\ c.window = r.window /\ c.lastSent = r.lastSent
      BY <1>1, <1>4, PurgeKeeps
<1>6. RingInTime(c, now)
      BY <1>1, PurgeInTime DEF InTime
<1>7. Follows(c, ring[q], wire[p], now) /\ Follows(ring[q], c, wire[q], now)
      BY <1>1, PurgeFollows DEF InTime
<1>8. AirInTime(air[p], heard[p], c, ring[q], now)
      BY <1>1, PurgeSparesAir DEF InTime
<1>9. CASE Cardinality(DOMAIN c.recv) # 1
  <2>1. RotateNext(r, now) = c
        BY <1>9 DEF RotateNext
  <2>2. ring'[p] = c /\ ring'[q] = ring[q] /\ DOMAIN ring' = Peers /\ wire' = wire
        BY <2>1, <1>1, <1>2, <1>3, <1>5
  <2>3. InTime(c, ring[q], wire[p], air[p], heard[p], now)
        BY <1>1, <1>6, <1>7, <1>8 DEF InTime
  <2>4. AirInTime(air[q], heard[q], ring[q], c, now)
        BY <1>1, <1>5, AirAlike DEF InTime
  <2>5. InTime(ring[q], c, wire[q], air[q], heard[q], now)
        BY <1>1, <1>5, <1>7, <2>4 DEF InTime
  <2>6. QED BY <1>1, <1>2, <1>3, <2>2, <2>3, <2>5, StillInTime
<1>10. CASE Cardinality(DOMAIN c.recv) = 1
  <2>1. RotateNext(r, now) = u
        BY <1>10 DEF RotateNext
  <2>2. /\ GoodRing(u) /\ u.gen = c.gen + 1 /\ u.window = c.window
        /\ u.lastSent = c.lastSent
        BY <1>1, <1>5, AdvanceKeeps
  <2>3. /\ ring'[p] = u /\ ring'[q] = ring[q] /\ DOMAIN ring' = Peers
        /\ wire'[q] = x /\ wire'[p] = wire[p] /\ DOMAIN wire' = Peers
        BY <2>1, <2>2, <1>1, <1>2, <1>3, <1>4, <1>5
  <2>4. DOMAIN c.expires = {}
        BY <1>5, <1>10, ReadyHasNoOldKeys
  <2>5. /\ RingInTime(u, now) /\ WireInTime(x, u.gen, now)
        /\ Follows(u, ring[q], wire[p], now) /\ Follows(ring[q], u, x, now)
        BY <2>4, <1>1, <1>3, <1>5, <1>6, <1>7, AnnounceInTime DEF InTime
  <2>6. AirInTime(air[p], heard[p], u, ring[q], now)
        BY <1>1, <1>6, <1>8, AdvanceSparesAir DEF InTime
  <2>7. AirInTime(air[q], heard[q], ring[q], u, now)
    <3>1. r.gen <= u.gen /\ u.lastSent = r.lastSent
          BY <2>2, <1>4, <1>5
    <3>2. QED BY <3>1, <2>2, <1>1, <1>4, SenderMoves DEF InTime
  <2>8. InTime(u, ring[q], wire[p], air[p], heard[p], now)
        BY <1>1, <2>5, <2>6 DEF InTime
  <2>9. InTime(ring[q], u, x, air[q], heard[q], now)
        BY <1>1, <2>5, <2>7 DEF InTime
  <2>10. QED BY <1>1, <1>2, <1>3, <2>3, <2>8, <2>9, StillInTime
<1>11. QED BY <1>9, <1>10

LEMMA RInvApply == ASSUME RInv, NEW p \in Peers, ApplyRotate(p), Timely PROVE RInv'
<1> DEFINE q == Other(p)
           r == ring[p]
           c == Purge(r, now)
           u == Advance(c, now)
           g == Head(wire[p]).gen
<1>1. /\ InTime(r, ring[q], wire[p], air[p], heard[p], now)
      /\ InTime(ring[q], r, wire[q], air[q], heard[q], now)
      /\ now \in Nat /\ now \in Seqs /\ q \in Peers /\ q # p
      BY BothInTime, OtherPeer
<1>2. /\ DOMAIN ring = Peers /\ DOMAIN wire = Peers
      /\ DOMAIN air = Peers /\ DOMAIN heard = Peers
      BY DEF RInv
<1>3. /\ wire[p] # <<>> /\ ring' = [ring EXCEPT ![p] = RotateTo(r, g, now)]
      /\ wire' = [wire EXCEPT ![p] = Tail(wire[p])]
      /\ air' = air /\ heard' = heard /\ now' = now
      BY DEF ApplyRotate
<1>4. GoodRing(r) /\ GoodRing(ring[q]) /\ r.gen \in Nat /\ ring[q].gen \in Nat
      BY <1>1 DEF InTime, RingInTime, GoodRing, IsRing
<1>5. GoodRing(c) /\ c.gen = r.gen /\ c.window = r.window /\ c.lastSent = r.lastSent
      BY <1>1, <1>4, PurgeKeeps
<1>6. RingInTime(c, now)
      BY <1>1, PurgeInTime DEF InTime
<1>7. Follows(c, ring[q], wire[p], now) /\ Follows(ring[q], c, wire[q], now)
      BY <1>1, PurgeFollows DEF InTime
<1>8. AirInTime(air[p], heard[p], c, ring[q], now)
      BY <1>1, PurgeSparesAir DEF InTime
<1>9. WireInTime(Tail(wire[p]), ring[q].gen, now)
      BY <1>1, <1>3, TailInTime DEF InTime
<1>10. CASE g # r.gen + 1
  <2>1. RotateTo(r, g, now) = c
        BY <1>5, <1>10 DEF RotateTo
  <2>2. /\ ring'[p] = c /\ ring'[q] = ring[q] /\ DOMAIN ring' = Peers
        /\ wire'[p] = Tail(wire[p]) /\ wire'[q] = wire[q] /\ DOMAIN wire' = Peers
        BY <2>1, <1>1, <1>2, <1>3
  <2>3. Follows(c, ring[q], Tail(wire[p]), now)
        BY <1>1, <1>3, <1>5, <1>6, <1>7, <1>10, StaleRotation DEF InTime
  <2>4. InTime(c, ring[q], Tail(wire[p]), air[p], heard[p], now)
        BY <2>3, <1>6, <1>8, <1>9 DEF InTime
  <2>5. AirInTime(air[q], heard[q], ring[q], c, now)
        BY <1>1, <1>5, AirAlike DEF InTime
  <2>6. InTime(ring[q], c, wire[q], air[q], heard[q], now)
        BY <1>1, <1>5, <1>7, <2>5 DEF InTime
  <2>7. QED BY <1>1, <1>2, <1>3, <2>2, <2>4, <2>6, StillInTime
<1>11. CASE g = r.gen + 1
  <2>1. RotateTo(r, g, now) = u
        BY <1>5, <1>11 DEF RotateTo
  <2>2. /\ GoodRing(u) /\ u.gen = c.gen + 1 /\ u.window = c.window
        /\ u.lastSent = c.lastSent
        BY <1>1, <1>5, AdvanceKeeps
  <2>3. /\ ring'[p] = u /\ ring'[q] = ring[q] /\ DOMAIN ring' = Peers
        /\ wire'[p] = Tail(wire[p]) /\ wire'[q] = wire[q] /\ DOMAIN wire' = Peers
        BY <2>1, <1>1, <1>2, <1>3
  <2>4. ring[q].gen = c.gen + 1
    <3>1. wire[p] \in Seq([gen : 0..MaxGen, by : Nat])
          BY <1>1 DEF InTime, WireInTime
    <3>2. Head(wire[p]) = wire[p][1] /\ 1 \in 1..Len(wire[p])
          BY <3>1, <1>3
    <3>3. g <= ring[q].gen
          BY <3>2, <1>1 DEF InTime, WireInTime
    <3>4. ring[q].gen <= r.gen + 1
          BY <1>1 DEF InTime, Follows
    <3>5. QED BY <3>3, <3>4, <1>4, <1>5, <1>11
  <2>5. /\ RingInTime(u, now) /\ Follows(u, ring[q], Tail(wire[p]), now)
        /\ Follows(ring[q], u, wire[q], now)
        BY <2>4, <1>1, <1>6, <1>7, FollowInTime DEF InTime
  <2>6. AirInTime(air[p], heard[p], u, ring[q], now)
        BY <1>1, <1>6, <1>8, AdvanceSparesAir DEF InTime
  <2>7. r.gen <= u.gen /\ u.lastSent = r.lastSent
        BY <2>2, <1>4, <1>5
  <2>8. AirInTime(air[q], heard[q], ring[q], u, now)
        BY <2>2, <2>7, <1>1, <1>4, SenderMoves DEF InTime
  <2>9. InTime(u, ring[q], Tail(wire[p]), air[p], heard[p], now)
        BY <2>5, <2>6, <1>9 DEF InTime
  <2>10. WireInTime(wire[q], u.gen, now)
    <3>1. \A i \in 1..Len(wire[q]) : wire[q][i].gen \in Nat /\ wire[q][i].gen <= r.gen
          BY <1>1, WireTypes DEF InTime
    <3>2. \A i \in 1..Len(wire[q]) : wire[q][i].gen <= u.gen
          BY <3>1, <2>2, <1>4, <1>5
    <3>3. QED BY <3>2, <1>1 DEF InTime, WireInTime
  <2>11. InTime(ring[q], u, wire[q], air[q], heard[q], now)
         BY <1>1, <2>5, <2>8, <2>10 DEF InTime
  <2>12. QED BY <1>1, <1>2, <1>3, <2>3, <2>9, <2>11, StillInTime
<1>12. QED BY <1>10, <1>11

LEMMA RInvStep == ASSUME RInv, [Next]_vars, Timely PROVE RInv'
<1>1. CASE Tick
      BY <1>1, RInvTick
<1>2. ASSUME NEW p \in Peers, SendFrame(p) PROVE RInv'
      BY <1>2, RInvSend
<1>3. ASSUME NEW p \in Peers, RotateKeys(p) PROVE RInv'
      BY <1>3, RInvRotate
<1>4. ASSUME NEW p \in Peers, ApplyRotate(p) PROVE RInv'
      BY <1>4, RInvApply
<1>5. ASSUME NEW p \in Peers, NEW dg \in air[p], ReceiveFrame(p, dg) PROVE RInv'
      BY <1>5, RInvReceive
<1>6. CASE UNCHANGED vars
      BY <1>6 DEF vars, RInv, PeerInTime, RingInTime, WireInTime, AirInTime
<1>7. QED BY <1>1, <1>2, <1>3, <1>4, <1>5, <1>6 DEF Next, Over

(* Following one part of Voice or the other.                                 *)
LEMMA VoiceInit == VInit => Init /\ ReceiverInit
BY DEF VInit

LEMMA VoiceStep == [VNext]_<<stage, vars, receiverVars>> => [Next]_vars /\ [ReceiverNext]_receiverVars
BY DEF VNext

THEOREM VoiceIsBoth == VSpec => Spec /\ ReceiverSpec
BY VoiceInit, VoiceStep, PTL DEF VSpec, Spec, ReceiverSpec

LEMMA RInvHolds == ASSUME Timely PROVE Spec => []RInv
<1>1. RInv /\ [Next]_vars => RInv'
      BY RInvStep
<1>2. QED BY <1>1, RInvInit, PTL DEF Spec

-----------------------------------------------------------------------------
(* Types, whatever the times. *)

(* What keeps its type in a ring at time t.                                  *)
Kept(r, t) ==
    /\ GoodRing(r) /\ r.gen <= MaxGen
    /\ \A g \in DOMAIN r.expires : r.expires[g] <= t + RetireAfter

Typed(p) ==
    /\ Kept(ring[p], now)
    /\ \A dg \in air[p] : /\ dg.ours = TRUE /\ dg.seq \in Seqs
                          /\ dg.tag \in Tags /\ dg.key \in 0..MaxGen
    /\ heard[p] \subseteq air[p]
    /\ wire[p] \in Seq([gen : 0..MaxGen, by : Nat])

TInv ==
    /\ DOMAIN ring = Peers /\ DOMAIN air = Peers /\ DOMAIN heard = Peers
    /\ DOMAIN wire = Peers /\ now \in Seqs
    /\ \A p \in Peers : Typed(p)

LEMMA TInvIsTypeOK == TInv => TypeOK
<1> SUFFICES ASSUME TInv, NEW p \in Peers
             PROVE  /\ IsRing(ring[p]) /\ {ring[p].gen, ring[p].send} \subseteq 0..MaxGen
                    /\ \A g \in DOMAIN ring[p].recv : ring[p].recv[g] \in 0..MaxGen
                    /\ DOMAIN ring[p].expires = DOMAIN ring[p].recv \ {ring[p].gen}
    BY DEF TInv, Typed, Kept, TypeOK
<1>1. GoodRing(ring[p]) /\ ring[p].gen <= MaxGen /\ ring[p].gen \in Nat
      BY DEF TInv, Typed, Kept, GoodRing, IsRing
<1>2. ASSUME NEW g \in DOMAIN ring[p].recv PROVE ring[p].recv[g] \in 0..MaxGen
      BY <1>1, CallAssumption DEF GoodRing, IsRing
<1>3. {ring[p].gen, ring[p].send} \subseteq 0..MaxGen
      BY <1>1, CallAssumption DEF GoodRing
<1>4. QED BY <1>1, <1>2, <1>3 DEF GoodRing

LEMMA TInvInit == Init => TInv
<1> SUFFICES ASSUME Init PROVE TInv
    OBVIOUS
<1> USE CallAssumption, WindowAssumption, RetireAssumption
<1>1. GoodRing(NewRing)
      BY DEF NewRing, GoodRing, IsRing, Fields, NewWindow, Windows
<1>2. Kept(NewRing, 0)
      BY <1>1 DEF Kept, NewRing
<1>3. ASSUME NEW p \in Peers PROVE Typed(p)
      BY <1>2, <1>3 DEF Init, Typed
<1>4. QED BY <1>3 DEF Init, TInv, Seqs

LEMMA PurgeIsKept ==
    ASSUME NEW r, NEW t \in Nat, Kept(r, t)
    PROVE  Kept(Purge(r, t), t) /\ Purge(r, t).gen = r.gen
BY PurgeKeeps DEF Kept

LEMMA AdvanceIsKept ==
    ASSUME NEW r, NEW t \in Nat, Kept(r, t), r.gen < MaxGen
    PROVE  Kept(Advance(r, t), t)
<1> DEFINE s == Advance(r, t)
<1>1. /\ GoodRing(s) /\ s.gen = r.gen + 1
      /\ DOMAIN s.expires = (DOMAIN r.expires \cup {r.gen}) \ {r.gen - 3}
      /\ \A g \in DOMAIN s.expires :
            s.expires[g] = IF g = r.gen THEN t + RetireAfter ELSE r.expires[g]
      BY AdvanceKeeps DEF Kept
<1>2. r.gen \in Nat
      BY DEF Kept, GoodRing, IsRing
<1>3. \A g \in DOMAIN s.expires : s.expires[g] <= t + RetireAfter
      BY <1>1, RetireAssumption DEF Kept
<1>4. QED BY <1>1, <1>2, <1>3, CallAssumption DEF Kept

(* Whatever a peer does with its own ring, the rest being left alone.        *)
LEMMA RingStep ==
    ASSUME TInv, NEW p \in Peers, NEW r, Kept(r, now), ring' = [ring EXCEPT ![p] = r],
           now' = now, air' = air, heard' = heard, wire' = wire
    PROVE  TInv'
<1>1. \A q \in Peers : ring'[q] = IF q = p THEN r ELSE ring[q]
      BY DEF TInv
<1>2. \A q \in Peers : Kept(ring'[q], now)
      BY <1>1 DEF TInv, Typed
<1>3. QED BY <1>2 DEF TInv, Typed

LEMMA TInvTick == ASSUME TInv, Tick PROVE TInv'
<1>1. now \in Nat /\ now' \in Seqs /\ now' = now + 1 /\ UNCHANGED <<ring, wire>>
      BY WindowAssumption DEF TInv, Tick, Seqs
<1>2. ASSUME NEW p \in Peers PROVE Typed(p)'
  <2>1. Typed(p)
        BY DEF TInv
  <2>2. air'[p] = UnderWay(air[p], now + 1) /\ heard'[p] = UnderWay(heard[p], now + 1)
        BY DEF Tick
  <2>3. air'[p] \subseteq air[p] /\ heard'[p] \subseteq air'[p]
        BY <2>1, <2>2 DEF UnderWay, Typed
  <2>4. \A g \in DOMAIN ring[p].expires : ring[p].expires[g] \in Nat
        BY <2>1 DEF Typed, Kept, GoodRing, IsRing
  <2>5. Kept(ring[p], now)
        BY <2>1 DEF Typed
  <2>6. \A g \in DOMAIN ring[p].expires : ring[p].expires[g] <= now + 1 + RetireAfter
        BY <2>4, <2>5, <1>1, RetireAssumption DEF Kept
  <2>7. Kept(ring'[p], now')
        BY <2>5, <2>6, <1>1 DEF Kept
  <2>8. QED BY <2>1, <2>3, <2>7, <1>1 DEF Typed
<1>3. QED BY <1>1, <1>2 DEF TInv, Tick

LEMMA TInvSend == ASSUME TInv, NEW p \in Peers, SendFrame(p) PROVE TInv'
<1> DEFINE r == ring[p]
           dg == Datagram(r, now)
           s == Seal(r, now)
<1>1. Kept(r, now) /\ GoodRing(r) /\ r.gen \in Nat /\ r.gen <= MaxGen /\ now \in Seqs
      BY DEF TInv, Typed, Kept, GoodRing, IsRing
<1>2. s = [r EXCEPT !.lastSent = now] /\ r = [f \in Fields |-> r[f]]
      BY <1>1 DEF Seal, GoodRing, IsRing
<1>3. /\ s = [f \in Fields |-> s[f]] /\ s.lastSent = now
      /\ s.gen = r.gen /\ s.sendSecret = r.sendSecret /\ s.recvSecret = r.recvSecret
      /\ s.send = r.send /\ s.recv = r.recv /\ s.expires = r.expires /\ s.window = r.window
      BY <1>2 DEF Fields
<1>4. IsRing(s)
      BY <1>1, <1>3 DEF GoodRing, IsRing
<1>5. GoodRing(s)
      BY <1>1, <1>3, <1>4 DEF GoodRing
<1>6. Kept(s, now)
      BY <1>1, <1>3, <1>5 DEF Kept
<1>7. /\ dg.ours = TRUE /\ dg.seq \in Seqs /\ dg.tag \in Tags /\ dg.key \in 0..MaxGen
  <2>1. r.send = r.gen
        BY <1>1 DEF GoodRing
  <2>2. QED BY <1>1, <2>1, CallAssumption DEF Datagram, Tag, Tags
<1>8. /\ ring' = [ring EXCEPT ![p] = s]
      /\ air' = [air EXCEPT ![Other(p)] = air[Other(p)] \cup {dg}]
      /\ UNCHANGED <<heard, wire, now>>
      BY DEF SendFrame
<1>9. ASSUME NEW q \in Peers PROVE Typed(q)'
  <2>1. Typed(q)
        BY DEF TInv
  <2>2. ring'[q] = IF q = p THEN s ELSE ring[q]
        BY <1>8 DEF TInv
  <2>3. Kept(ring'[q], now)
        BY <2>1, <2>2, <1>6 DEF Typed
  <2>4. air'[q] = air[q] \/ air'[q] = air[q] \cup {dg}
        BY <1>8 DEF TInv
  <2>5. QED BY <2>1, <2>3, <2>4, <1>7, <1>8 DEF Typed
<1>10. QED BY <1>8, <1>9 DEF TInv

LEMMA TInvReceive ==
    ASSUME TInv, NEW p \in Peers, NEW dg \in air[p], ReceiveFrame(p, dg)
    PROVE  TInv'
<1> DEFINE r == ring[p]
           s == Open(r, dg, now)
<1>1. Kept(r, now) /\ GoodRing(r) /\ now \in Nat /\ dg.ours = TRUE /\ dg.seq \in Seqs
      BY DEF TInv, Typed, Kept, Seqs
<1>2. Kept(Purge(r, now), now)
      BY <1>1, PurgeIsKept
<1>3. /\ GoodRing(s) /\ s.gen = Purge(r, now).gen /\ s.expires = Purge(r, now).expires
      BY <1>1, OpenEffect
<1>4. Kept(s, now)
      BY <1>2, <1>3 DEF Kept
<1>5. /\ ring' = [ring EXCEPT ![p] = s] /\ UNCHANGED <<air, wire, now>>
      /\ DOMAIN heard' = DOMAIN heard
      /\ \A q \in Peers : heard'[q] \subseteq heard[q] \cup (IF q = p THEN {dg} ELSE {})
      BY DEF ReceiveFrame, TInv
<1>6. ASSUME NEW q \in Peers PROVE Typed(q)'
  <2>1. Typed(q)
        BY DEF TInv
  <2>2. ring'[q] = IF q = p THEN s ELSE ring[q]
        BY <1>5 DEF TInv
  <2>3. Kept(ring'[q], now)
        BY <2>1, <2>2, <1>4 DEF Typed
  <2>4. heard'[q] \subseteq air[q]
        BY <2>1, <1>5 DEF Typed
  <2>5. QED BY <2>1, <2>3, <2>4, <1>5 DEF Typed
<1>7. QED BY <1>5, <1>6 DEF TInv

LEMMA TInvRotate == ASSUME TInv, NEW p \in Peers, RotateKeys(p) PROVE TInv'
<1> DEFINE r == ring[p]
           s == Purge(r, now)
           n == RotateNext(r, now)
<1>1. Kept(r, now) /\ now \in Nat /\ r.gen < MaxGen
      BY DEF TInv, Typed, Seqs, RotateKeys
<1>2. Kept(s, now) /\ s.gen = r.gen
      BY <1>1, PurgeIsKept
<1>3. Kept(n, now)
  <2>1. n = s \/ n = Advance(s, now)
        BY DEF RotateNext
  <2>2. QED BY <2>1, <1>1, <1>2, AdvanceIsKept
<1>4. n.gen \in 0..MaxGen
      BY <1>3, CallAssumption DEF Kept, GoodRing, IsRing
<1>5. /\ ring' = [ring EXCEPT ![p] = n] /\ UNCHANGED <<air, heard, now>>
      /\ DOMAIN wire' = DOMAIN wire
      /\ \A q \in Peers : \/ wire'[q] = wire[q]
                          \/ wire'[q] = Append(wire[q], [gen |-> n.gen, by |-> now + CtlDelay])
      BY DEF RotateKeys, TInv
<1>6. ASSUME NEW q \in Peers PROVE Typed(q)'
  <2>1. Typed(q)
        BY DEF TInv
  <2>2. ring'[q] = IF q = p THEN n ELSE ring[q]
        BY <1>5 DEF TInv
  <2>3. Kept(ring'[q], now)
        BY <2>1, <2>2, <1>3 DEF Typed
  <2>4. [gen |-> n.gen, by |-> now + CtlDelay] \in [gen : 0..MaxGen, by : Nat]
        BY <1>1, <1>4, CallAssumption
  <2>5. wire'[q] \in Seq([gen : 0..MaxGen, by : Nat])
    <3> DEFINE Msgs == [gen : 0..MaxGen, by : Nat]
               m == [gen |-> n.gen, by |-> now + CtlDelay]
    <3>1. wire[q] \in Seq(Msgs) /\ m \in Msgs
          BY <2>1, <2>4 DEF Typed
    <3>2. wire'[q] = wire[q] \/ wire'[q] = Append(wire[q], m)
          BY <1>5
    <3> HIDE DEF Msgs, m
    <3>3. wire'[q] \in Seq(Msgs)
          BY <3>1, <3>2
    <3>4. QED BY <3>3 DEF Msgs
  <2>6. QED BY <2>1, <2>3, <2>5, <1>5 DEF Typed
<1>7. QED BY <1>5, <1>6 DEF TInv

LEMMA TInvApply == ASSUME TInv, NEW p \in Peers, ApplyRotate(p) PROVE TInv'
<1> DEFINE r == ring[p]
           s == Purge(r, now)
           m == Head(wire[p])
           n == RotateTo(r, m.gen, now)
<1>1. Kept(r, now) /\ now \in Nat /\ wire[p] \in Seq([gen : 0..MaxGen, by : Nat])
  <2>1. Typed(p) /\ now \in Nat
        BY DEF TInv, Seqs
  <2>2. QED BY <2>1 DEF Typed
<1>2. m.gen \in 0..MaxGen /\ Tail(wire[p]) \in Seq([gen : 0..MaxGen, by : Nat])
  <2> DEFINE Msgs == [gen : 0..MaxGen, by : Nat]
             w == wire[p]
  <2>1. w # <<>> /\ w \in Seq(Msgs)
        BY <1>1 DEF ApplyRotate
  <2> HIDE DEF Msgs, w
  <2>2. Head(w) \in Msgs /\ Tail(w) \in Seq(Msgs)
        BY <2>1
  <2> USE DEF Msgs, w
  <2>3. QED BY <2>2
<1>3. Kept(s, now) /\ s.gen = r.gen /\ s.gen \in Nat
  <2>1. Kept(s, now) /\ s.gen = r.gen
        BY <1>1, PurgeIsKept
  <2> HIDE DEF s
  <2>2. QED BY <2>1 DEF Kept, GoodRing, IsRing
<1>4. Kept(n, now)
  <2>1. n = s \/ (m.gen = s.gen + 1 /\ n = Advance(s, now))
        BY DEF RotateTo
  <2>2. m.gen = s.gen + 1 => s.gen < MaxGen
        BY <1>2, <1>3, CallAssumption
  <2>3. QED BY <2>1, <2>2, <1>1, <1>3, AdvanceIsKept
<1>5. /\ ring' = [ring EXCEPT ![p] = n] /\ wire' = [wire EXCEPT ![p] = Tail(wire[p])]
      /\ UNCHANGED <<air, heard, now>>
      BY DEF ApplyRotate
<1>6. ASSUME NEW q \in Peers PROVE Typed(q)'
  <2>1. Typed(q)
        BY DEF TInv
  <2>2. /\ ring'[q] = IF q = p THEN n ELSE ring[q]
        /\ wire'[q] = IF q = p THEN Tail(wire[p]) ELSE wire[q]
        BY <1>5 DEF TInv
  <2>3. Kept(ring'[q], now) /\ wire'[q] \in Seq([gen : 0..MaxGen, by : Nat])
        BY <2>1, <2>2, <1>2, <1>4 DEF Typed
  <2>4. QED BY <2>1, <2>3, <1>5 DEF Typed
<1>7. QED BY <1>5, <1>6 DEF TInv

(* The types of rings, datagrams and rotations, whatever the delays: both    *)
(* rings stay rings, every older key in them has a retirement time, at most  *)
(* RetireAfter away, and no key is of a generation beyond MaxGen.            *)
THEOREM VoiceCallTypes == Spec => []TypeOK
<1>1. ASSUME TInv, [Next]_vars PROVE TInv'
  <2>1. CASE Tick
        BY <1>1, <2>1, TInvTick
  <2>2. ASSUME NEW p \in Peers, SendFrame(p) PROVE TInv'
        BY <1>1, <2>2, TInvSend
  <2>3. ASSUME NEW p \in Peers, RotateKeys(p) PROVE TInv'
        BY <1>1, <2>3, TInvRotate
  <2>4. ASSUME NEW p \in Peers, ApplyRotate(p) PROVE TInv'
        BY <1>1, <2>4, TInvApply
  <2>5. ASSUME NEW p \in Peers, NEW dg \in air[p], ReceiveFrame(p, dg) PROVE TInv'
        BY <1>1, <2>5, TInvReceive
  <2>6. CASE UNCHANGED vars
        BY <1>1, <2>6 DEF vars, TInv, Typed
  <2>7. QED BY <1>1, <2>1, <2>2, <2>3, <2>4, <2>5, <2>6 DEF Next, Over
<1>2. TInv => TypeOK
      BY TInvIsTypeOK
<1>3. QED BY <1>1, <1>2, TInvInit, PTL DEF Spec

-----------------------------------------------------------------------------
(* What arrives in time. *)

(* No key retires and the replay window does not pass a number while a       *)
(* datagram under that key or with that number can still arrive: whatever    *)
(* either user rotates and whenever, a datagram is accepted once             *)
(* (keyring.py:20-22, ADR 0004).                                             *)
THEOREM NothingInFlightIsLost == ASSUME Timely PROVE Spec => []InFlightSurvives
<1>1. ASSUME RInv PROVE InFlightSurvives
  <2> SUFFICES ASSUME NEW p \in Peers, NEW dg \in air[p], dg.key <= ring[p].gen
               PROVE  Verdict(ring[p], dg, now) = IF dg \in heard[p] THEN "replay" ELSE "ok"
      BY DEF InFlightSurvives
  <2>1. /\ InTime(ring[p], ring[Other(p)], wire[p], air[p], heard[p], now)
        /\ RingInTime(ring[Other(p)], now) /\ now \in Nat
        BY <1>1, BothInTime DEF InTime
  <2>2. QED BY <2>1, AirVerdict DEF InTime
<1>2. QED BY <1>1, RInvHolds, PTL

(* Between honest peers nothing ever fails to authenticate: a datagram finds *)
(* the key it was sealed under or none (ADR 0004).                           *)
THEOREM NoWrongKeyAttempt == ASSUME Timely PROVE Spec => []NeverWrongKey
<1>1. ASSUME RInv PROVE NeverWrongKey
  <2> SUFFICES ASSUME NEW p \in Peers, NEW dg \in air[p]
               PROVE  Verdict(ring[p], dg, now) # "auth"
      BY DEF NeverWrongKey
  <2>1. /\ InTime(ring[p], ring[Other(p)], wire[p], air[p], heard[p], now)
        /\ RingInTime(ring[Other(p)], now) /\ now \in Nat
        BY <1>1, BothInTime DEF InTime
  <2>2. dg.key <= ring[p].gen \/ dg.key > ring[p].gen
    <3>1. dg.key \in Nat /\ ring[p].gen \in Nat
          BY <2>1 DEF InTime, AirInTime, InFlight, RingInTime, GoodRing, IsRing
    <3>2. QED BY <3>1
  <2>3. QED BY <2>1, <2>2, AirVerdict DEF InTime
<1>2. QED BY <1>1, RInvHolds, PTL

(* ADR 0004's three live generations hold when rotations are processed well  *)
(* within the retirement time; MCSlowControl shows a fourth when they are    *)
(* not.                                                                      *)
THEOREM ThreeGenerationsLive == ASSUME Timely PROVE Spec => []AtMostThreeLive
<1>1. ASSUME RInv PROVE AtMostThreeLive
  <2> SUFFICES ASSUME NEW p \in Peers PROVE Cardinality(LiveKeys(p)) <= 3
      BY DEF AtMostThreeLive
  <2> DEFINE r == ring[p]
             c == Purge(r, now)
  <2>1. RingInTime(r, now) /\ GoodRing(r) /\ now \in Nat
        BY <1>1, BothInTime DEF InTime, RingInTime
  <2>2. /\ GoodRing(c) /\ c.gen = r.gen
        /\ DOMAIN c.expires = {g \in DOMAIN r.expires : now < r.expires[g]}
        BY <2>1, PurgeKeeps
  <2>3. r.gen \in Nat /\ \A g \in DOMAIN r.expires : r.expires[g] \in Nat
        BY <2>1 DEF GoodRing, IsRing
  <2>4. ASSUME NEW g \in DOMAIN c.recv PROVE g \in (r.gen - 2)..r.gen
    <3>1. g \in Nat /\ r.gen - 3 <= g /\ g <= r.gen
          BY <2>2 DEF GoodRing, IsRing
    <3>2. CASE g = r.gen
          BY <3>2, <2>3
    <3>3. CASE g # r.gen
      <4>1. g \in DOMAIN r.expires /\ now < r.expires[g]
            BY <3>3, <2>2 DEF GoodRing
      <4>2. ~(g <= r.gen - 3)
            BY <4>1, <2>1, <2>3 DEF RingInTime
      <4>3. QED BY <3>1, <4>2, <2>3
    <3>4. QED BY <3>2, <3>3
  <2>5. IsFiniteSet((r.gen - 2)..r.gen) /\ Cardinality((r.gen - 2)..r.gen) = 3
        BY <2>3, FS_Interval, SMTT(60)
  <2>6. DOMAIN c.recv \in SUBSET ((r.gen - 2)..r.gen)
        BY <2>4
  <2>7. Cardinality(DOMAIN c.recv) <= 3
        BY <2>5, <2>6, FS_Subset, ZenonT(60)
  <2>8. QED BY <2>7 DEF LiveKeys
<1>2. QED BY <1>1, RInvHolds, PTL

-----------------------------------------------------------------------------
(* The receiver.  Its loop has a datagram in its hands between counting it   *)
(* as received and giving it to the buffer or away.                          *)
Handled == rx \in {"received", "measured"}
Handling == IF Handled THEN 1 ELSE 0

(* What is buffered comes after what was popped, and that is where playout   *)
(* stands.                                                                   *)
OrderOK ==
    /\ last = (IF next = None THEN None ELSE next - 1)
    /\ \A s \in jb : s > last
    /\ next = None <=> out = <<>>
    /\ next # None => out[Len(out)].slot = next - 1
    /\ PlayedInOrder

InHand == jb \subseteq arrived /\ (Handled => cur \in arrived /\ cur \notin jb)

(* Of what a sample showed as lost, one datagram may be owed to the next one:*)
(* it was counted as received and not yet as dropped when the sample was     *)
(* taken.                                                                    *)
Shown(prev) == prev["expected"] - (prev["received"] - prev["incoming_dropped"]) + prev["late"]

LossAccount ==
    \E owed \in {0, 1} :
        /\ telemetry.lost + torn - owed >= Shown(telemetry.prev)
        /\ st["received"] - st["incoming_dropped"] - Handling
              >= telemetry.prev["received"] - telemetry.prev["incoming_dropped"] - owed

PInv == ReceiverTypeOK /\ OrderOK /\ InHand /\ EveryDatagramCountedOnce /\ LossAccount

Frames == [slot : Stream, how : {"decoded", "recovered", "concealed"}]

LEMMA NatHasSmallest ==
    ASSUME NEW S, S \subseteq Nat, S # {}
    PROVE  Min(S) \in S /\ \A y \in S : Min(S) <= y
<1> DEFINE R == OpToRel(<, Nat)
<1>1. \A x, y \in Nat : <<y, x>> \in R <=> y < x
      BY DEF OpToRel
<1>2. IsWellFoundedOn(R, Nat)
      BY NatLessThanWellFounded
<1> HIDE DEF R
<1>3. PICK x \in S : \A y \in S : ~(<<y, x>> \in R)
      BY <1>2, WFMin
<1>4. x \in S /\ \A y \in S : x <= y
  <2> SUFFICES ASSUME NEW y \in S PROVE x <= y
      OBVIOUS
  <2>1. x \in Nat /\ y \in Nat /\ <<y, x>> \notin R
        BY <1>3
  <2>2. ~(y < x)
        BY <1>1, <2>1
  <2>3. QED BY <2>1, <2>2
<1>5. QED BY <1>4 DEF Min

LEMMA MinOfTwo ==
    ASSUME NEW a \in Int, NEW b \in Int
    PROVE  Min({a, b}) = IF a <= b THEN a ELSE b
<1>1. CASE a <= b
  <2>1. \A x \in {a, b} : (\A y \in {a, b} : x <= y) <=> x = a
        BY <1>1
  <2>2. QED BY <1>1, <2>1 DEF Min
<1>2. CASE ~(a <= b)
  <2>1. \A x \in {a, b} : (\A y \in {a, b} : x <= y) <=> x = b
        BY <1>2
  <2>2. QED BY <1>2, <2>1 DEF Min
<1>3. QED BY <1>1, <1>2

LEMMA MaxOfTwo ==
    ASSUME NEW a \in Int, NEW b \in Int
    PROVE  Max({a, b}) = IF a >= b THEN a ELSE b
<1>1. CASE a >= b
  <2>1. \A x \in {a, b} : (\A y \in {a, b} : x >= y) <=> x = a
        BY <1>1
  <2>2. QED BY <1>1, <2>1 DEF Max
<1>2. CASE ~(a >= b)
  <2>1. \A x \in {a, b} : (\A y \in {a, b} : x >= y) <=> x = b
        BY <1>2
  <2>2. QED BY <1>2, <2>1 DEF Max
<1>3. QED BY <1>1, <1>2

(* A counter of counters. *)
LEMMA PlusIs ==
    ASSUME NEW f \in [Counters -> Nat], NEW c \in Counters, NEW n \in Nat
    PROVE  /\ Plus(f, c, n) \in [Counters -> Nat]
           /\ Plus(f, c, n)[c] = f[c] + n
           /\ \A d \in Counters : d # c => Plus(f, c, n)[d] = f[d]
BY DEF Plus

(* How many of the frames of o were made in a given way. *)
MadeOf(o, h) == Cardinality({i \in DOMAIN o : o[i].how = h})

LEMMA CountAppended ==
    ASSUME NEW o \in Seq(Frames), NEW f \in Seq(Frames), NEW h,
           NEW a \in Nat, NEW b \in Nat, a >= 1, b <= Len(f),
           {i \in DOMAIN f : f[i].how = h} = a..b
    PROVE  MadeOf(o \o f, h) = MadeOf(o, h) + (IF a > b THEN 0 ELSE b - a + 1)
<1> DEFINE n == Len(o)
           S == {i \in DOMAIN o : o[i].how = h}
           T == (n + a)..(n + b)
<1>1. /\ n \in Nat /\ DOMAIN o = 1..n /\ DOMAIN f = 1..Len(f) /\ Len(f) \in Nat
      /\ DOMAIN (o \o f) = 1..(n + Len(f))
      /\ \A i \in 1..n : (o \o f)[i] = o[i]
      /\ \A i \in (n + 1)..(n + Len(f)) : (o \o f)[i] = f[i - n]
      OBVIOUS
<1>2. {i \in DOMAIN (o \o f) : (o \o f)[i].how = h} = S \cup T
  <2>1. ASSUME NEW i \in (n + 1)..(n + Len(f))
        PROVE  (o \o f)[i].how = h <=> i \in T
    <3>1. i - n \in DOMAIN f /\ (o \o f)[i] = f[i - n]
          BY <1>1
    <3>2. f[i - n].how = h <=> i - n \in a..b
          BY <3>1
    <3>3. i - n \in a..b <=> i \in T
          BY <1>1
    <3>4. QED BY <3>1, <3>2, <3>3
  <2>2. T \subseteq (n + 1)..(n + Len(f))
        BY <1>1
  <2>3. 1..(n + Len(f)) = (1..n) \cup ((n + 1)..(n + Len(f)))
        BY <1>1
  <2>4. \A i \in 1..n : (o \o f)[i].how = h <=> i \in S
        BY <1>1
  <2>5. QED BY <1>1, <2>1, <2>2, <2>3, <2>4
<1>3. /\ IsFiniteSet(1..n) /\ IsFiniteSet(T)
      /\ Cardinality(T) = IF a > b THEN 0 ELSE b - a + 1
  <2>1. n + a \in Int /\ n + b \in Int
        BY <1>1
  <2>2. IsFiniteSet(T) /\ Cardinality(T) = IF n + a > n + b THEN 0 ELSE (n + b) - (n + a) + 1
        BY <2>1, FS_Interval
  <2>3. IsFiniteSet(1..n)
        BY <1>1, FS_Interval
  <2>4. QED BY <2>2, <2>3, <1>1
<1>4. IsFiniteSet(S)
      BY <1>1, <1>3, FS_Subset
<1>5. S \cap T = {}
      BY <1>1
<1>6. Cardinality(S \cup T) = Cardinality(S) + Cardinality(T) - Cardinality(S \cap T)
      BY <1>3, <1>4, FS_Union
<1>7. Cardinality(S \cap T) = 0 /\ Cardinality(S) \in Nat
      BY <1>4, <1>5, FS_EmptySet, FS_CardinalityType
<1>8. Cardinality(S \cup T) = Cardinality(S) + Cardinality(T)
      BY <1>3, <1>6, <1>7
<1>9. MadeOf(o, h) = Cardinality(S) /\ MadeOf(o \o f, h) = Cardinality(S \cup T)
      BY <1>2 DEF MadeOf
<1>10. QED BY <1>3, <1>8, <1>9

(* The frames that fill a gap and the one after it: consecutive slots that   *)
(* end with s, starting where playout stands unless the gap is too long.     *)
LEMMA FillIs ==
    ASSUME next \in Nat \cup {None}, NEW s \in Stream, next # None => next <= s,
           NEW rebuilt \in BOOLEAN, rebuilt => Filled(s) > 0
    PROVE  LET n == Filled(s)
               f == Fill(s, rebuilt)
               r == IF rebuilt THEN 1 ELSE 0
           IN  /\ n \in Nat /\ r \in Nat /\ r <= n
               /\ next # None => n = s - next \/ (n = 0 /\ s - next > MaxGap)
               /\ f \in Seq(Frames) /\ Len(f) = n + 1
               /\ \A i \in 1..(n + 1) : f[i].slot = s - n + i - 1
               /\ {i \in DOMAIN f : f[i].how = "decoded"} = (n + 1)..(n + 1)
               /\ {i \in DOMAIN f : f[i].how = "recovered"} = (IF rebuilt THEN n..n ELSE 1..0)
               /\ {i \in DOMAIN f : f[i].how = "concealed"} = 1..(n - r)
<1> DEFINE n == Filled(s)
           f == Fill(s, rebuilt)
           r == IF rebuilt THEN 1 ELSE 0
           how(i) == IF i = n + 1 THEN "decoded"
                     ELSE IF i = n /\ rebuilt THEN "recovered" ELSE "concealed"
<1> USE ReceiverAssumption
<1>1. /\ s \in Nat /\ s < Slots /\ n \in Nat /\ n <= s
      /\ next # None => n = s - next \/ (n = 0 /\ s - next > MaxGap)
      BY DEF Stream, Filled, Gap, None
<1>2. r \in Nat /\ r <= n
      BY <1>1
<1>3. f = [i \in 1..(n + 1) |-> [slot |-> s - n + i - 1, how |-> how(i)]]
      BY DEF Fill
<1>4. ASSUME NEW i \in 1..(n + 1)
      PROVE  /\ f[i] = [slot |-> s - n + i - 1, how |-> how(i)]
             /\ f[i] \in Frames
  <2>1. s - n + i - 1 \in Stream
        BY <1>1 DEF Stream
  <2>2. how(i) \in {"decoded", "recovered", "concealed"}
        OBVIOUS
  <2>3. QED BY <1>3, <2>1, <2>2 DEF Frames
<1>5. DOMAIN f = 1..(n + 1) /\ f = [i \in 1..(n + 1) |-> f[i]]
      BY <1>3
<1> HIDE DEF f, n
<1>6. f \in Seq(Frames) /\ Len(f) = n + 1
  <2>1. n + 1 \in Nat
        BY <1>1
  <2>2. f \in [1..(n + 1) -> Frames]
        BY <1>4, <1>5
  <2>3. QED BY <2>1, <2>2
<1>7. ASSUME NEW i \in 1..(n + 1)
      PROVE  /\ f[i].slot = s - n + i - 1
             /\ f[i].how = "decoded" <=> i = n + 1
             /\ f[i].how = "recovered" <=> rebuilt /\ i = n
             /\ f[i].how = "concealed" <=> i # n + 1 /\ ~(rebuilt /\ i = n)
  <2>1. f[i] = [slot |-> s - n + i - 1, how |-> how(i)]
        BY <1>4
  <2> HIDE DEF how
  <2>2. f[i].slot = s - n + i - 1 /\ f[i].how = how(i)
        BY <2>1
  <2> USE DEF how
  <2>3. n \in Nat /\ i \in Int
        BY <1>1
  <2>4. CASE i = n + 1
    <3>1. i # n
          BY <2>3, <2>4
    <3>2. how(i) = "decoded"
          BY <2>4
    <3>3. QED BY <2>2, <2>4, <3>1, <3>2
  <2>5. CASE i # n + 1 /\ rebuilt /\ i = n
    <3>1. how(i) = "recovered"
          BY <2>5
    <3>2. QED BY <2>2, <2>5, <3>1
  <2>6. CASE i # n + 1 /\ ~(rebuilt /\ i = n)
    <3>1. how(i) = "concealed"
          BY <2>6
    <3>2. QED BY <2>2, <2>6, <3>1
  <2>7. QED BY <2>4, <2>5, <2>6
<1>8. {i \in DOMAIN f : f[i].how = "decoded"} = (n + 1)..(n + 1)
      BY <1>1, <1>5, <1>7
<1>9. {i \in DOMAIN f : f[i].how = "recovered"} = (IF rebuilt THEN n..n ELSE 1..0)
  <2>1. CASE rebuilt
    <3>1. n > 0
          BY <2>1 DEF n
    <3>2. n..n \subseteq 1..(n + 1) /\ \A i \in n..n : i = n
          BY <1>1, <3>1
    <3>3. {i \in DOMAIN f : f[i].how = "recovered"} = n..n
          BY <1>1, <1>5, <1>7, <2>1, <3>2
    <3>4. QED BY <2>1, <3>3
  <2>2. CASE ~rebuilt
    <3>1. {i \in DOMAIN f : f[i].how = "recovered"} = {}
          BY <1>5, <1>7, <2>2
    <3>2. QED BY <2>2, <3>1
  <2>3. QED BY <2>1, <2>2
<1>10. {i \in DOMAIN f : f[i].how = "concealed"} = 1..(n - r)
  <2>1. CASE rebuilt
    <3>1. n > 0 /\ r = 1
          BY <2>1 DEF n
    <3>2. \A i \in 1..(n + 1) : i \in 1..(n - 1) <=> i # n + 1 /\ i # n
          BY <1>1
    <3>3. 1..(n - 1) \subseteq 1..(n + 1)
          BY <1>1
    <3>4. {i \in DOMAIN f : f[i].how = "concealed"} = 1..(n - 1)
          BY <1>5, <1>7, <2>1, <3>2, <3>3
    <3>5. QED BY <3>1, <3>4
  <2>2. CASE ~rebuilt
    <3>1. r = 0 /\ n - r = n
          BY <2>2, <1>1
    <3>2. \A i \in 1..(n + 1) : i \in 1..n <=> i # n + 1
          BY <1>1
    <3>3. 1..n \subseteq 1..(n + 1)
          BY <1>1
    <3>4. {i \in DOMAIN f : f[i].how = "concealed"} = 1..n
          BY <1>5, <1>7, <2>2, <3>2, <3>3
    <3>5. QED BY <3>1, <3>4
  <2>3. QED BY <2>1, <2>2
<1>11. QED BY <1>1, <1>2, <1>6, <1>7, <1>8, <1>9, <1>10 DEF n, f

LEMMA WriteIs ==
    ASSUME NEW n \in Nat, NEW c \in [Counters -> Nat], Write(n, c),
           queued \in Nat, played \in Nat
    PROVE  /\ queued' \in Nat /\ played' \in Nat /\ st' \in [Counters -> Nat]
           /\ \A d \in Counters : d # "skipped" => st'[d] = c[d]
           /\ sink = "open" => played' + st'["skipped"] = played + c["skipped"] + n
<1> USE ReceiverAssumption
<1>1. CASE sink = "closed"
      BY <1>1 DEF Write, speaker
<1>2. CASE sink = "open"
  <2>1. PICK limit \in {d + 2 : d \in Depths}, left \in 0..queued :
           \E taken \in Min({n, Max({0, limit - left})})..n :
              /\ queued' = Max({left, Min({limit, left + taken})})
              /\ played' = played + taken
              /\ st' = Plus(c, "skipped", n - taken)
        BY <1>2 DEF Write
  <2>2. limit \in Nat /\ left \in Nat
        BY <2>1
  <2>3. PICK taken \in Min({n, Max({0, limit - left})})..n :
              /\ queued' = Max({left, Min({limit, left + taken})})
              /\ played' = played + taken
              /\ st' = Plus(c, "skipped", n - taken)
        BY <2>1
  <2>4. Max({0, limit - left}) \in Nat
    <3>1. limit - left \in Int /\ 0 \in Int
          BY <2>2
    <3>2. Max({0, limit - left}) = IF 0 >= limit - left THEN 0 ELSE limit - left
          BY <3>1, MaxOfTwo
    <3>3. QED BY <2>2, <3>2
  <2> DEFINE room == Max({0, limit - left})
  <2> HIDE DEF room
  <2>5. Min({n, room}) \in Nat
    <3>1. room \in Nat /\ room \in Int /\ n \in Int
          BY <2>4 DEF room
    <3>2. Min({n, room}) = IF n <= room THEN n ELSE room
          BY <3>1, MinOfTwo
    <3>3. QED BY <3>1, <3>2
  <2>6. taken \in Nat /\ n - taken \in Nat
    <3>1. taken \in Min({n, room})..n
          BY <2>3 DEF room
    <3>2. QED BY <2>5, <3>1
  <2>7. Min({limit, left + taken}) \in Int
    <3>1. limit \in Int /\ left + taken \in Int
          BY <2>2, <2>6
    <3>2. Min({limit, left + taken}) = IF limit <= left + taken THEN limit ELSE left + taken
          BY <3>1, MinOfTwo
    <3>3. QED BY <3>1, <3>2
  <2> DEFINE held == Min({limit, left + taken})
  <2> HIDE DEF held
  <2>8. queued' \in Nat
    <3>1. held \in Int /\ left \in Int
          BY <2>2, <2>7 DEF held
    <3>2. Max({left, held}) = IF left >= held THEN left ELSE held
          BY <3>1, MaxOfTwo
    <3>3. queued' = Max({left, held})
          BY <2>3 DEF held
    <3>4. QED BY <2>2, <3>1, <3>2, <3>3
  <2>9. "skipped" \in Counters
        BY DEF Counters
  <2>10. /\ st' \in [Counters -> Nat] /\ st'["skipped"] = c["skipped"] + (n - taken)
         /\ \A d \in Counters : d # "skipped" => st'[d] = c[d]
         BY <2>3, <2>6, <2>9, PlusIs
  <2>11. c["skipped"] \in Nat
         BY <2>9
  <2>12. QED BY <2>3, <2>6, <2>8, <2>10, <2>11
<1>3. QED BY <1>1, <1>2 DEF Write

LEMMA CountersAre ==
    \A c \in {"received", "expected", "incoming_dropped", "late", "recovered", "concealed",
              "skipped", "rejects"} : c \in Counters
BY DEF Counters

(* Playing the smallest frame that waits. *)
LEMMA PopKeepsOrder ==
    ASSUME PInv, jb # {}, PopSmallest
    PROVE  /\ OrderOK' /\ out' \in Seq(Frames) /\ next' \in Nat
           /\ Min(jb) \in jb /\ jb' = jb \ {Min(jb)} /\ last' = Min(jb)
           /\ next # None => next <= Min(jb)
<1> DEFINE s == Min(jb)
           n == Filled(s)
<1>1. /\ jb \subseteq Stream /\ out \in Seq(Frames) /\ next \in Nat \cup {None}
      /\ last = (IF next = None THEN None ELSE next - 1)
      BY DEF PInv, ReceiverTypeOK, OrderOK, Frames
<1>2. s \in jb /\ \A y \in jb : s <= y
  <2>1. jb \subseteq Nat
        BY <1>1, ReceiverAssumption DEF Stream
  <2>2. QED BY <2>1, NatHasSmallest
<1>3. /\ s \in Stream /\ s \in Nat /\ s > last
  <2>1. s \in Stream
        BY <1>1, <1>2
  <2>2. \A y \in jb : y > last
        BY DEF PInv, OrderOK
  <2>3. QED BY <1>2, <2>1, <2>2, ReceiverAssumption DEF Stream
<1>4. next # None => next <= s
      BY <1>1, <1>3
<1>5. PICK rebuilt \in (IF n > 0 THEN BOOLEAN ELSE {FALSE}) :
         out' = out \o Fill(s, rebuilt) /\ next' = s + 1
      BY DEF PopSmallest, Play
<1>6. jb' = jb \ {s} /\ last' = s
      BY DEF PopSmallest
<1> DEFINE f == Fill(s, rebuilt)
<1>7. /\ n \in Nat /\ f \in Seq(Frames) /\ Len(f) = n + 1
      /\ next # None => n = s - next \/ (n = 0 /\ s - next > MaxGap)
      /\ \A i \in 1..(n + 1) : f[i].slot = s - n + i - 1
  <2>1. rebuilt \in BOOLEAN /\ (rebuilt => n > 0)
        BY <1>5
  <2>2. QED BY <1>1, <1>3, <1>4, <2>1, FillIs
<1> HIDE DEF s, n, f
<1>8. /\ out' = out \o f /\ out' \in Seq(Frames) /\ Len(out) \in Nat
      /\ Len(out') = Len(out) + n + 1
      /\ \A i \in 1..Len(out) : out'[i] = out[i]
      /\ \A i \in (Len(out) + 1)..(Len(out) + n + 1) : out'[i] = f[i - Len(out)]
  <2>1. out' = out \o f
        BY <1>5 DEF f
  <2>2. Len(out) \in Nat /\ Len(f) \in Nat
        BY <1>1, <1>7
  <2>3. /\ out \o f \in Seq(Frames) /\ Len(out \o f) = Len(out) + Len(f)
        /\ \A i \in 1..(Len(out) + Len(f)) :
             (out \o f)[i] = IF i <= Len(out) THEN out[i] ELSE f[i - Len(out)]
        BY <1>1, <1>7, ConcatProperties
  <2>4. \A i \in 1..Len(out) : out'[i] = out[i]
        BY <2>1, <2>2, <2>3
  <2>5. Len(out) + Len(f) = Len(out) + n + 1
        BY <1>7, <2>2
  <2>6. \A i \in (Len(out) + 1)..(Len(out) + n + 1) : out'[i] = f[i - Len(out)]
        BY <1>7, <2>1, <2>2, <2>3
  <2>7. QED BY <2>1, <2>2, <2>3, <2>4, <2>5, <2>6
<1>9. \A i \in (Len(out) + 1)..(Len(out) + n + 1) : out'[i].slot = s - n + (i - Len(out)) - 1
  <2> SUFFICES ASSUME NEW i \in (Len(out) + 1)..(Len(out) + n + 1)
               PROVE  out'[i].slot = s - n + (i - Len(out)) - 1
      OBVIOUS
  <2>1. i - Len(out) \in 1..(n + 1)
        BY <1>7, <1>8
  <2>2. f[i - Len(out)].slot = s - n + (i - Len(out)) - 1
        BY <1>7, <2>1
  <2>3. QED BY <1>8, <2>2
<1>10. out # <<>> => /\ next # None /\ out[Len(out)].slot = next - 1
                     /\ Len(out) \in 1..Len(out)
       BY <1>1 DEF PInv, OrderOK
<1>11. ASSUME NEW i \in 1..(Len(out') - 1)
       PROVE  LET gap == out'[i + 1].slot - out'[i].slot - 1 IN gap = 0 \/ gap > MaxGap
  <2> USE ReceiverAssumption
  <2>1. CASE i < Len(out)
    <3>1. /\ i \in 1..(Len(out) - 1) /\ i + 1 \in 1..Len(out) /\ i \in 1..Len(out)
          BY <2>1, <1>8
    <3>2. out'[i] = out[i] /\ out'[i + 1] = out[i + 1]
          BY <3>1, <1>8
    <3>3. QED BY <3>1, <3>2 DEF PInv, OrderOK, PlayedInOrder
  <2>2. CASE i = Len(out)
    <3>1. out # <<>> /\ out'[i] = out[i] /\ out[i].slot = next - 1 /\ next # None
          BY <2>2, <1>1, <1>8, <1>10
    <3>2. out'[i + 1].slot = s - n
      <4>1. i + 1 \in (Len(out) + 1)..(Len(out) + n + 1)
            BY <2>2, <1>7, <1>8
      <4>2. out'[i + 1].slot = s - n + (i + 1 - Len(out)) - 1
            BY <4>1, <1>9
      <4>3. QED BY <4>2, <2>2, <1>3, <1>7, <1>8
    <3>3. next \in Nat
          BY <3>1, <1>1
    <3>4. QED BY <3>1, <3>2, <3>3, <1>3, <1>7
  <2>3. CASE i > Len(out)
    <3>1. /\ i \in (Len(out) + 1)..(Len(out) + n + 1)
          /\ i + 1 \in (Len(out) + 1)..(Len(out) + n + 1)
          BY <2>3, <1>7, <1>8
    <3>2. /\ out'[i].slot = s - n + (i - Len(out)) - 1
          /\ out'[i + 1].slot = s - n + (i + 1 - Len(out)) - 1
          BY <3>1, <1>9
    <3>3. QED BY <3>1, <3>2, <1>3, <1>7, <1>8
  <2>4. QED BY <2>1, <2>2, <2>3, <1>8
<1>12. out'[Len(out')].slot = next' - 1 /\ out' # <<>> /\ next' # None /\ next' \in Nat
  <2>1. /\ Len(out') \in (Len(out) + 1)..(Len(out) + n + 1)
        /\ Len(out') - Len(out) = n + 1
        BY <1>7, <1>8
  <2>2. out'[Len(out')].slot = s - n + (n + 1) - 1
        BY <2>1, <1>9
  <2>3. next' = s + 1
        BY <1>5
  <2>4. out' # <<>>
        BY <2>1, <1>7, <1>8
  <2>5. QED BY <2>2, <2>3, <2>4, <1>3, <1>7 DEF None
<1>13. \A y \in jb' : y > last'
  <2>1. \A y \in jb : y \in Nat
        BY <1>1, ReceiverAssumption DEF Stream
  <2>2. QED BY <2>1, <1>2, <1>3, <1>6
<1>14. last' = next' - 1
       BY <1>3, <1>5, <1>6
<1>15. OrderOK'
       BY <1>11, <1>12, <1>13, <1>14 DEF OrderOK, PlayedInOrder
<1>16. QED BY <1>2, <1>4, <1>6, <1>8, <1>12, <1>15 DEF s

(* What it does to the counters: one frame decoded, and each repaired slot   *)
(* counted as what it is.                                                    *)
LEMMA PopCounts ==
    ASSUME PInv, jb # {}, PopSmallest
    PROVE  \E n \in Nat, r \in Nat :
             /\ r <= n
             /\ Made("decoded")' = Made("decoded") + 1
             /\ Made("recovered")' = Made("recovered") + r
             /\ Made("concealed")' = Made("concealed") + (n - r)
             /\ Len(out') = Len(out) + n + 1
             /\ queued' \in Nat /\ played' \in Nat /\ st' \in [Counters -> Nat]
             /\ st'["recovered"] = st["recovered"] + r
             /\ st'["concealed"] = st["concealed"] + (n - r)
             /\ \A c \in {"received", "expected", "incoming_dropped", "late"} : st'[c] = st[c]
             /\ sink = "open" => played' + st'["skipped"] = played + st["skipped"] + n + 1
<1> DEFINE s == Min(jb)
           n == Filled(s)
<1>1. /\ jb \subseteq Stream /\ out \in Seq(Frames) /\ next \in Nat \cup {None}
      /\ st \in [Counters -> Nat] /\ queued \in Nat /\ played \in Nat
      BY DEF PInv, ReceiverTypeOK, Frames
<1>2. s \in Stream /\ (next # None => next <= s)
      BY <1>1, PopKeepsOrder
<1>3. PICK rebuilt \in (IF n > 0 THEN BOOLEAN ELSE {FALSE}) :
         LET r == IF rebuilt THEN 1 ELSE 0
         IN  /\ out' = out \o Fill(s, rebuilt)
             /\ Write(n + 1, Plus(Plus(st, "recovered", r), "concealed", n - r))
      BY DEF PopSmallest, Play
<1> DEFINE f == Fill(s, rebuilt)
           r == IF rebuilt THEN 1 ELSE 0
           c1 == Plus(st, "recovered", r)
           c == Plus(c1, "concealed", n - r)
<1>4. rebuilt \in BOOLEAN /\ (rebuilt => n > 0)
      BY <1>3
<1>5. /\ n \in Nat /\ r \in Nat /\ r <= n
      /\ f \in Seq(Frames) /\ Len(f) = n + 1
      /\ {i \in DOMAIN f : f[i].how = "decoded"} = (n + 1)..(n + 1)
      /\ {i \in DOMAIN f : f[i].how = "recovered"} = (IF rebuilt THEN n..n ELSE 1..0)
      /\ {i \in DOMAIN f : f[i].how = "concealed"} = 1..(n - r)
      BY <1>1, <1>2, <1>4, FillIs
<1>6. out' = out \o f /\ Write(n + 1, c)
      BY <1>3
<1> HIDE DEF s, n, f
<1>7. \A h : Made(h) = MadeOf(out, h) /\ Made(h)' = MadeOf(out \o f, h)
      BY <1>6 DEF Made, MadeOf
<1>8. Made("decoded")' = Made("decoded") + 1
  <2>1. MadeOf(out \o f, "decoded")
           = MadeOf(out, "decoded") + (IF n + 1 > n + 1 THEN 0 ELSE (n + 1) - (n + 1) + 1)
    <3>1. /\ n + 1 \in Nat /\ n + 1 >= 1 /\ n + 1 <= Len(f)
          /\ {i \in DOMAIN f : f[i].how = "decoded"} = (n + 1)..(n + 1)
          BY <1>5
    <3>2. out \in Seq(Frames) /\ f \in Seq(Frames)
          BY <1>1, <1>5
    <3>3. QED BY <3>1, <3>2, CountAppended
  <2>2. (IF n + 1 > n + 1 THEN 0 ELSE (n + 1) - (n + 1) + 1) = 1
        BY <1>5
  <2>3. QED BY <1>7, <2>1, <2>2
<1>9. Made("recovered")' = Made("recovered") + r
  <2>1. CASE rebuilt
    <3>1. n >= 1 /\ n <= Len(f) /\ n > 0
          BY <2>1, <1>4, <1>5 DEF n
    <3>2. MadeOf(out \o f, "recovered")
             = MadeOf(out, "recovered") + (IF n > n THEN 0 ELSE n - n + 1)
          BY <2>1, <3>1, <1>1, <1>5, CountAppended, SMTT(60)
    <3>3. (IF n > n THEN 0 ELSE n - n + 1) = 1 /\ r = 1
          BY <1>5, <2>1
    <3>4. QED BY <1>7, <3>2, <3>3
  <2>2. CASE ~rebuilt
    <3>1. {i \in DOMAIN f : f[i].how = "recovered"} = 1..0 /\ 0 <= Len(f) /\ 1 >= 1
          BY <2>2, <1>5
    <3>2. MadeOf(out \o f, "recovered")
             = MadeOf(out, "recovered") + (IF 1 > 0 THEN 0 ELSE 0 - 1 + 1)
          BY <3>1, <1>1, <1>5, CountAppended
    <3>3. (IF 1 > 0 THEN 0 ELSE 0 - 1 + 1) = 0 /\ r = 0
          BY <2>2
    <3>4. QED BY <1>7, <3>2, <3>3
  <2>3. QED BY <2>1, <2>2
<1>10. Made("concealed")' = Made("concealed") + (n - r)
  <2>1. n - r \in Nat /\ n - r <= Len(f) /\ 1 >= 1
        BY <1>5
  <2>2. MadeOf(out \o f, "concealed")
           = MadeOf(out, "concealed") + (IF 1 > n - r THEN 0 ELSE (n - r) - 1 + 1)
    <3> DEFINE k == n - r
    <3>1. {i \in DOMAIN f : f[i].how = "concealed"} = 1..k /\ k \in Nat /\ k <= Len(f)
          BY <1>5, <2>1
    <3>2. out \in Seq(Frames) /\ f \in Seq(Frames) /\ 1 \in Nat /\ 1 >= 1
          BY <1>1, <1>5
    <3> HIDE DEF k
    <3>3. MadeOf(out \o f, "concealed") = MadeOf(out, "concealed") + (IF 1 > k THEN 0 ELSE k - 1 + 1)
          BY <3>1, <3>2, CountAppended
    <3>4. QED BY <3>3 DEF k
  <2>3. (IF 1 > n - r THEN 0 ELSE (n - r) - 1 + 1) = n - r
        BY <2>1
  <2>4. QED BY <1>7, <2>2, <2>3
<1>11. /\ c1 \in [Counters -> Nat] /\ c1["recovered"] = st["recovered"] + r
       /\ \A d \in Counters : d # "recovered" => c1[d] = st[d]
  <2>1. "recovered" \in Counters /\ st \in [Counters -> Nat]
        BY <1>1, CountersAre
  <2>2. r \in Nat
        BY <1>5
  <2> HIDE DEF r
  <2>3. QED BY <2>1, <2>2, PlusIs
<1> HIDE DEF c1, r
<1>12. /\ c \in [Counters -> Nat] /\ c["concealed"] = c1["concealed"] + (n - r)
       /\ \A d \in Counters : d # "concealed" => c[d] = c1[d]
  <2>1. n - r \in Nat /\ "concealed" \in Counters
        BY <1>5, CountersAre
  <2>2. QED BY <2>1, <1>11, PlusIs
<1> HIDE DEF c
<1>13. /\ queued' \in Nat /\ played' \in Nat /\ st' \in [Counters -> Nat]
       /\ \A d \in Counters : d # "skipped" => st'[d] = c[d]
       /\ sink = "open" => played' + st'["skipped"] = played + c["skipped"] + (n + 1)
  <2>1. n + 1 \in Nat
        BY <1>5
  <2>2. QED BY <2>1, <1>1, <1>6, <1>12, WriteIs
<1>14. /\ st'["recovered"] = st["recovered"] + r
       /\ st'["concealed"] = st["concealed"] + (n - r)
       /\ \A d \in {"received", "expected", "incoming_dropped", "late"} : st'[d] = st[d]
       /\ c["skipped"] = st["skipped"] /\ st["skipped"] \in Nat
       BY <1>1, <1>11, <1>12, <1>13, CountersAre
<1>15. Len(out') = Len(out) + n + 1
  <2>1. Len(out \o f) = Len(out) + Len(f) /\ Len(out) \in Nat
    <3>1. out \in Seq(Frames) /\ f \in Seq(Frames)
          BY <1>1, <1>5
    <3>2. QED BY <3>1
  <2>2. n \in Nat /\ Len(f) = n + 1
        BY <1>5
  <2>3. QED BY <2>1, <2>2, <1>6
<1>16. sink = "open" => played' + st'["skipped"] = played + st["skipped"] + n + 1
  <2>1. n \in Nat /\ played \in Nat
        BY <1>1, <1>5
  <2>2. sink = "open" => played' + st'["skipped"] = played + c["skipped"] + (n + 1)
        BY <1>13
  <2>3. c["skipped"] = st["skipped"] /\ st["skipped"] \in Nat
        BY <1>14
  <2>4. QED BY <2>1, <2>2, <2>3
<1>17. QED BY <1>5, <1>8, <1>9, <1>10, <1>13, <1>14, <1>15, <1>16

LEMMA MadeIsNat ==
    ASSUME out \in Seq(Frames), NEW h
    PROVE  Made(h) \in Nat
<1>1. IsFiniteSet(1..Len(out)) /\ DOMAIN out = 1..Len(out)
  <2>1. Len(out) \in Int /\ 1 \in Int
        OBVIOUS
  <2>2. QED BY <2>1, FS_Interval
<1>2. IsFiniteSet({i \in DOMAIN out : out[i].how = h})
      BY <1>1, FS_Subset
<1>3. QED BY <1>2, FS_CardinalityType DEF Made

LEMMA BufferFinite ==
    ASSUME jb \subseteq Stream
    PROVE  IsFiniteSet(jb) /\ Cardinality(jb) \in Nat
<1>1. IsFiniteSet(Stream)
  <2>1. 0 \in Int /\ Slots - 1 \in Int
        BY ReceiverAssumption
  <2>2. QED BY <2>1, FS_Interval DEF Stream
<1>2. IsFiniteSet(jb)
      BY <1>1, FS_Subset
<1>3. QED BY <1>2, FS_CardinalityType

LEMMA PopKeeps ==
    ASSUME PInv, jb # {}, PopSmallest, UNCHANGED rx, rx \in {"popping", "flushing"}
    PROVE  PInv'
<1>1. /\ OrderOK' /\ out' \in Seq(Frames) /\ next' \in Nat
      /\ Min(jb) \in jb /\ jb' = jb \ {Min(jb)} /\ last' = Min(jb)
      BY PopKeepsOrder
<1>2. PICK n \in Nat, r \in Nat :
             /\ r <= n
             /\ Made("decoded")' = Made("decoded") + 1
             /\ Made("recovered")' = Made("recovered") + r
             /\ Made("concealed")' = Made("concealed") + (n - r)
             /\ Len(out') = Len(out) + n + 1
             /\ queued' \in Nat /\ played' \in Nat /\ st' \in [Counters -> Nat]
             /\ st'["recovered"] = st["recovered"] + r
             /\ st'["concealed"] = st["concealed"] + (n - r)
             /\ \A c \in {"received", "expected", "incoming_dropped", "late"} : st'[c] = st[c]
             /\ sink = "open" => played' + st'["skipped"] = played + st["skipped"] + n + 1
      BY PopCounts
<1>3. UNCHANGED <<depth, cur, arrived, meter, sink, stop, main, telemetry, torn, rx>>
      BY DEF PopSmallest
<1>4. ReceiverTypeOK
      BY DEF PInv
<1>5. ReceiverTypeOK'
      BY <1>1, <1>2, <1>3, <1>4 DEF ReceiverTypeOK, Frames
<1>6. ~Handled /\ ~Handled' /\ Handling' = Handling /\ Handling = 0
      BY <1>3 DEF Handled, Handling
<1>7. InHand'
      BY <1>1, <1>3, <1>6 DEF PInv, InHand
<1>8. LossAccount'
      BY <1>2, <1>3, <1>6 DEF PInv, LossAccount, Shown
<1>9. EveryDatagramCountedOnce'
  <2>1. /\ jb \subseteq Stream /\ out \in Seq(Frames)
        /\ \A c \in Counters : st[c] \in Nat
        BY <1>4 DEF ReceiverTypeOK, Frames
  <2>2. Cardinality(jb') = Cardinality(jb) - 1 /\ Cardinality(jb) \in Nat
    <3>1. IsFiniteSet(jb) /\ Cardinality(jb) \in Nat
          BY <2>1, BufferFinite
    <3>2. QED BY <3>1, <1>1, FS_RemoveElement
  <2>3. Made("decoded") \in Nat
        BY <2>1, MadeIsNat
  <2>4. EveryDatagramCountedOnce
        BY DEF PInv
  <2>5. rx \notin {"received", "measured"} /\ rx' \notin {"received", "measured"}
        BY <1>6 DEF Handled
  <2>6. /\ st'["received"] = st["received"] /\ st'["incoming_dropped"] = st["incoming_dropped"]
        /\ st'["late"] = st["late"]
        /\ st["received"] \in Nat /\ st["incoming_dropped"] \in Nat /\ st["late"] \in Nat
        BY <1>2, <2>1, CountersAre
  <2>7. /\ st["received"] = st["incoming_dropped"] + st["late"] + Made("decoded") + Cardinality(jb)
        /\ st["recovered"] = Made("recovered") /\ st["concealed"] = Made("concealed")
        /\ sink = "open" => played + st["skipped"] = Len(out)
        BY <2>2, <2>3, <2>4, <2>5, <2>6 DEF EveryDatagramCountedOnce
  <2>8. st'["received"] = st'["incoming_dropped"] + st'["late"] + Made("decoded")' + Cardinality(jb')
        BY <1>2, <2>2, <2>3, <2>6, <2>7, SMTT(60)
  <2>9. st'["recovered"] = Made("recovered")' /\ st'["concealed"] = Made("concealed")'
        BY <1>2, <2>7
  <2>10. sink' = "open" => played' + st'["skipped"] = Len(out')
         BY <1>2, <1>3, <2>1, <2>7
  <2>11. Made("decoded")' \in Nat /\ Cardinality(jb') \in Nat /\ Cardinality(jb)' = Cardinality(jb')
    <3>1. Made("decoded")' \in Nat
          BY <1>2, <2>3
    <3>2. jb' \subseteq Stream
          BY <1>5 DEF ReceiverTypeOK
    <3>3. IsFiniteSet(jb) /\ jb' \subseteq jb
          BY <1>1, <2>1, BufferFinite
    <3>4. Cardinality(jb') \in Nat
          BY <3>3, FS_Subset, FS_CardinalityType
    <3>5. QED BY <3>1, <3>4
  <2>12. QED BY <2>5, <2>6, <2>8, <2>9, <2>10, <2>11 DEF EveryDatagramCountedOnce
<1>10. QED BY <1>1, <1>5, <1>7, <1>8, <1>9 DEF PInv

(* The other actions leave what was played alone.                            *)
LEMMA OrderStays ==
    ASSUME OrderOK, UNCHANGED <<jb, last, next, out>>
    PROVE  OrderOK'
<1>1. PlayedInOrder'
      BY DEF OrderOK, PlayedInOrder
<1>2. QED BY <1>1 DEF OrderOK

LEMMA MadeStays ==
    ASSUME out' = out
    PROVE  \A h : Made(h)' = Made(h)
BY DEF Made

(* The counters that the accounts are about, as numbers. *)
LEMMA CountersTyped ==
    ASSUME PInv
    PROVE  /\ st \in [Counters -> Nat] /\ telemetry.prev \in [Counters -> Nat]
           /\ telemetry.lost \in Nat /\ torn \in Nat
           /\ \A c \in Counters : st[c] \in Nat /\ telemetry.prev[c] \in Nat
           /\ Made("decoded") \in Nat /\ Cardinality(jb) \in Nat
           /\ played \in Nat /\ queued \in Nat
<1>1. /\ st \in [Counters -> Nat]
      /\ telemetry \in [prev : [Counters -> Nat], lost : Nat, rows : Nat]
      /\ torn \in Nat /\ jb \subseteq Stream /\ out \in Seq(Frames)
      /\ played \in Nat /\ queued \in Nat
      BY DEF PInv, ReceiverTypeOK, Frames
<1>2. telemetry.prev \in [Counters -> Nat] /\ telemetry.lost \in Nat
      BY <1>1
<1>3. QED BY <1>1, <1>2, MadeIsNat, BufferFinite

LEMMA PInvInit == ReceiverInit => PInv
<1> SUFFICES ASSUME ReceiverInit PROVE PInv
    OBVIOUS
<1> USE DEF ReceiverInit
<1>1. Zeros \in [Counters -> Nat] /\ \A c \in Counters : Zeros[c] = 0
      BY DEF Zeros
<1>2. ReceiverTypeOK
  <2>1. st \in [Counters -> Nat]
        BY <1>1
  <2>2. telemetry \in [prev : [Counters -> Nat], lost : Nat, rows : Nat]
        BY <1>1
  <2>3. meter \in [top : Stream \cup {None}, low : Stream \cup {None}]
        OBVIOUS
  <2>4. out \in Seq([slot : Stream, how : {"decoded", "recovered", "concealed"}])
        OBVIOUS
  <2>5. QED BY <2>1, <2>2, <2>3, <2>4 DEF ReceiverTypeOK
<1>3. OrderOK
      BY DEF OrderOK, PlayedInOrder, None
<1>4. InHand
      BY DEF InHand, Handled
<1>5. \A h : Made(h) = 0
  <2> SUFFICES ASSUME NEW h PROVE Made(h) = 0
      OBVIOUS
  <2>1. {i \in DOMAIN out : out[i].how = h} = {}
        OBVIOUS
  <2>2. QED BY <2>1, FS_EmptySet DEF Made
<1>6. EveryDatagramCountedOnce
  <2>1. Cardinality(jb) = 0
        BY FS_EmptySet
  <2>2. st["received"] = 0 /\ st["incoming_dropped"] = 0 /\ st["late"] = 0
        BY <1>1, CountersAre
  <2>3. st["recovered"] = 0 /\ st["concealed"] = 0 /\ st["skipped"] = 0 /\ Len(out) = 0
        BY <1>1, CountersAre
  <2>4. QED BY <1>5, <2>1, <2>2, <2>3 DEF EveryDatagramCountedOnce
<1>7. LossAccount
  <2>1. /\ Zeros["received"] = 0 /\ Zeros["incoming_dropped"] = 0
        /\ Zeros["late"] = 0 /\ Zeros["expected"] = 0
        BY <1>1, CountersAre
  <2>2. Shown(telemetry.prev) = 0 /\ telemetry.lost = 0 /\ torn = 0 /\ Handling = 0
        BY <2>1 DEF Shown, Handling, Handled
  <2>3. /\ telemetry.lost + torn - 0 >= Shown(telemetry.prev)
        /\ st["received"] - st["incoming_dropped"] - Handling
              >= telemetry.prev["received"] - telemetry.prev["incoming_dropped"] - 0
        BY <2>1, <2>2
  <2>4. QED BY <2>3 DEF LossAccount
<1>8. QED BY <1>2, <1>3, <1>4, <1>6, <1>7 DEF PInv

(* An action that touches none of what PInv speaks of but the place of the   *)
(* thread, and begins or ends no datagram.                                   *)
LEMMA QuietKeeps ==
    ASSUME PInv, ReceiverTypeOK', Handled' <=> Handled,
           UNCHANGED <<cur, arrived, jb, last, next, st, played, telemetry, out, torn>>,
           sink' = "open" => sink = "open"
    PROVE  PInv'
<1>1. OrderOK'
      BY OrderStays DEF PInv
<1>2. InHand'
      BY DEF PInv, InHand
<1>3. Handling' = Handling
      BY DEF Handling
<1>4. EveryDatagramCountedOnce'
  <2>1. Made("decoded")' = Made("decoded") /\ Made("recovered")' = Made("recovered")
        /\ Made("concealed")' = Made("concealed")
        BY MadeStays
  <2>2. (rx' \in {"received", "measured"}) <=> (rx \in {"received", "measured"})
        BY DEF Handled
  <2>3. QED BY <2>1, <2>2 DEF PInv, EveryDatagramCountedOnce
<1>5. LossAccount'
      BY <1>3 DEF PInv, LossAccount, Shown
<1>6. QED BY <1>1, <1>2, <1>4, <1>5 DEF PInv

(* recvfrom: a datagram in hand is one more received, and owed to a counter. *)
LEMMA ReceiveKeeps ==
    ASSUME PInv, NEW s \in Stream, Receive(s)
    PROVE  PInv'
<1>1. UNCHANGED <<meter, jb, last, depth, next, queued, played, sink, stop, main, telemetry,
                  out, torn>>
      BY DEF Receive, buffer, speaker, history
<1>2. ~Handled /\ Handling = 0
      BY DEF Receive, Handled, Handling
<1>3. ReceiverTypeOK
      BY DEF PInv
<1>4. OrderOK'
      BY <1>1, OrderStays DEF PInv
<1>5. Made("decoded")' = Made("decoded") /\ Made("recovered")' = Made("recovered")
        /\ Made("concealed")' = Made("concealed")
      BY <1>1, MadeStays
<1>6. CASE s \notin arrived
  <2>1. /\ arrived' = arrived \cup {s} /\ rx' = "received" /\ cur' = s
        /\ st' = Plus(st, "received", 1)
        BY <1>6 DEF Receive
  <2>2. /\ st' \in [Counters -> Nat] /\ st'["received"] = st["received"] + 1
        /\ \A c \in Counters : c # "received" => st'[c] = st[c]
    <3>1. st \in [Counters -> Nat] /\ "received" \in Counters /\ 1 \in Nat
          BY CountersTyped, CountersAre
    <3>2. QED BY <2>1, <3>1, PlusIs
  <2>3. ReceiverTypeOK'
        BY <1>1, <1>3, <2>1, <2>2 DEF ReceiverTypeOK
  <2>4. Handled' /\ Handling' = 1
        BY <2>1 DEF Handled, Handling
  <2>5. InHand'
        BY <1>1, <1>6, <2>1 DEF PInv, InHand
  <2>6. EveryDatagramCountedOnce'
    <3>1. /\ st["received"] \in Nat /\ st["incoming_dropped"] \in Nat /\ st["late"] \in Nat
          /\ Made("decoded") \in Nat /\ Cardinality(jb) \in Nat
          BY CountersTyped, CountersAre
    <3>2. st["received"] = st["incoming_dropped"] + st["late"] + Made("decoded") + Cardinality(jb)
          BY <1>2, <3>1 DEF PInv, EveryDatagramCountedOnce, Handled
    <3>3. /\ st'["received"] = st["received"] + 1 /\ st'["late"] = st["late"]
          /\ st'["incoming_dropped"] = st["incoming_dropped"]
          /\ st'["recovered"] = st["recovered"] /\ st'["concealed"] = st["concealed"]
          /\ st'["skipped"] = st["skipped"]
          BY <2>2, CountersAre
    <3>4. st'["received"] = st'["incoming_dropped"] + st'["late"] + Made("decoded")'
                            + Cardinality(jb)' + 1
          BY <1>1, <1>5, <3>1, <3>2, <3>3
    <3>5. rx' \in {"received", "measured"}
          BY <2>1
    <3>6. st'["recovered"] = Made("recovered")' /\ st'["concealed"] = Made("concealed")'
          BY <1>5, <3>3 DEF PInv, EveryDatagramCountedOnce
    <3>7. sink' = "open" => played' + st'["skipped"] = Len(out')
          BY <1>1, <3>3 DEF PInv, EveryDatagramCountedOnce
    <3>8. QED BY <3>4, <3>5, <3>6, <3>7 DEF EveryDatagramCountedOnce
  <2>7. LossAccount'
        BY <1>1, <1>2, <2>2, <2>4, CountersTyped, CountersAre DEF PInv, LossAccount, Shown
  <2>8. QED BY <1>4, <2>3, <2>5, <2>6, <2>7 DEF PInv
<1>7. CASE s \in arrived
  <2>1. UNCHANGED <<rx, cur, arrived>> /\ st' = Plus(st, "rejects", 1)
        BY <1>7 DEF Receive
  <2>2. /\ st' \in [Counters -> Nat]
        /\ \A c \in Counters : c # "rejects" => st'[c] = st[c]
    <3>1. st \in [Counters -> Nat] /\ "rejects" \in Counters /\ 1 \in Nat
          BY CountersTyped, CountersAre
    <3>2. QED BY <2>1, <3>1, PlusIs
  <2>3. ReceiverTypeOK'
        BY <1>1, <1>3, <2>1, <2>2 DEF ReceiverTypeOK
  <2>4. Handling' = Handling /\ (Handled' <=> Handled)
        BY <2>1 DEF Handled, Handling
  <2>5. InHand'
        BY <1>1, <2>1, <2>4 DEF PInv, InHand
  <2>6. EveryDatagramCountedOnce'
        BY <1>1, <1>5, <2>1, <2>2, CountersAre DEF PInv, EveryDatagramCountedOnce
  <2>7. LossAccount'
        BY <1>1, <2>2, <2>4, CountersAre DEF PInv, LossAccount, Shown
  <2>8. QED BY <1>4, <2>3, <2>5, <2>6, <2>7 DEF PInv
<1>8. QED BY <1>6, <1>7

(* RxMeter: the span it measures only grows.                                 *)
LEMMA MeasureKeeps ==
    ASSUME PInv, Measure
    PROVE  PInv'
<1>1. /\ UNCHANGED <<cur, arrived, jb, last, depth, next, queued, played, sink, stop, main,
                     telemetry, out, torn>>
      /\ rx = "received" /\ rx' = "measured"
      BY DEF Measure, buffer, speaker, history
<1>2. ReceiverTypeOK /\ meter \in [top : Stream \cup {None}, low : Stream \cup {None}]
      BY DEF PInv, ReceiverTypeOK
<1>3. cur \in Stream
  <2>1. cur \in arrived /\ arrived \subseteq Stream
        BY <1>1 DEF PInv, ReceiverTypeOK, InHand, Handled
  <2>2. QED BY <2>1
<1>4. Stream \subseteq Nat /\ None = -1
      BY ReceiverAssumption DEF Stream, None
<1> DEFINE top == meter.top
           low == meter.low
<1>5. /\ top \in Stream \cup {None} /\ low \in Stream \cup {None}
      /\ top \in Int /\ low \in Int /\ cur \in Int /\ cur >= 0
  <2>1. meter.top \in Stream \cup {None} /\ meter.low \in Stream \cup {None}
        BY <1>2
  <2>2. Stream \cup {None} \subseteq Int
        BY <1>4
  <2>3. meter.top \in Int /\ meter.low \in Int
        BY <2>1, <2>2
  <2>4. cur \in Int /\ cur >= 0
        BY <1>3, <1>4
  <2>5. QED BY <2>1, <2>3, <2>4
<1>6. /\ meter' = [top |-> Max({top, cur}), low |-> IF low = None THEN cur ELSE Min({low, cur})]
      /\ st' = Plus(st, "expected",
                    IF top = None THEN 1 ELSE Max({0, cur - top}) + Max({0, low - cur}))
      BY DEF Measure, Arrive
<1> HIDE DEF top, low
<1>7. Max({top, cur}) \in Stream /\ Min({low, cur}) \in Stream \cup {None}
  <2>1. Max({top, cur}) = IF top >= cur THEN top ELSE cur
        BY <1>5, MaxOfTwo
  <2>2. Min({low, cur}) = IF low <= cur THEN low ELSE cur
        BY <1>5, MinOfTwo
  <2>3. QED BY <1>3, <1>4, <1>5, <2>1, <2>2
<1>8. (IF top = None THEN 1 ELSE Max({0, cur - top}) + Max({0, low - cur})) \in Nat
  <2>1. cur - top \in Int /\ low - cur \in Int /\ 0 \in Int
        BY <1>5
  <2>2. Max({0, cur - top}) = IF 0 >= cur - top THEN 0 ELSE cur - top
        BY <2>1, MaxOfTwo
  <2>3. Max({0, low - cur}) = IF 0 >= low - cur THEN 0 ELSE low - cur
        BY <2>1, MaxOfTwo
  <2>4. Max({0, cur - top}) \in Nat /\ Max({0, low - cur}) \in Nat
        BY <2>1, <2>2, <2>3
  <2>5. QED BY <2>4
<1> DEFINE wider == IF top = None THEN 1 ELSE Max({0, cur - top}) + Max({0, low - cur})
<1>9. /\ st' \in [Counters -> Nat]
      /\ \A c \in Counters : c # "expected" => st'[c] = st[c]
  <2>1. st \in [Counters -> Nat] /\ "expected" \in Counters /\ wider \in Nat
        BY <1>8, CountersTyped, CountersAre
  <2>2. st' = Plus(st, "expected", wider)
        BY <1>6
  <2> HIDE DEF wider
  <2>3. QED BY <2>1, <2>2, PlusIs
<1>10. ReceiverTypeOK'
  <2>1. meter' \in [top : Stream \cup {None}, low : Stream \cup {None}]
        BY <1>3, <1>6, <1>7
  <2>2. QED BY <1>1, <1>2, <1>9, <2>1 DEF ReceiverTypeOK
<1>11. Handling' = Handling /\ (Handled' <=> Handled)
       BY <1>1 DEF Handled, Handling
<1>12. InHand'
       BY <1>1, <1>11 DEF PInv, InHand
<1>13. EveryDatagramCountedOnce'
  <2>1. Made("decoded")' = Made("decoded") /\ Made("recovered")' = Made("recovered")
        /\ Made("concealed")' = Made("concealed")
        BY <1>1, MadeStays
  <2>2. QED BY <1>1, <1>9, <2>1, CountersAre DEF PInv, EveryDatagramCountedOnce
<1>14. LossAccount'
       BY <1>1, <1>9, <1>11, CountersAre DEF PInv, LossAccount, Shown
<1>15. QED BY <1>1, <1>10, <1>12, <1>13, <1>14, OrderStays DEF PInv

(* A datagram taken by the knob or come too late: one counter takes it over. *)
LEMMA DropKeeps ==
    ASSUME PInv, NEW c \in {"incoming_dropped", "late"},
           rx = "measured", rx' = "waiting", cur' = None, depth' \in Depths,
           st' = Plus(st, c, 1),
           UNCHANGED <<arrived, meter, jb, last, next, queued, played, sink, stop, main,
                       telemetry, out, torn>>
    PROVE  PInv'
<1>1. /\ st' \in [Counters -> Nat] /\ st'[c] = st[c] + 1
      /\ \A d \in Counters : d # c => st'[d] = st[d]
  <2>1. st \in [Counters -> Nat] /\ c \in Counters /\ 1 \in Nat
        BY CountersTyped, CountersAre
  <2>2. QED BY <2>1, PlusIs
<1>2. ReceiverTypeOK'
      BY <1>1 DEF PInv, ReceiverTypeOK
<1>3. OrderOK'
      BY OrderStays DEF PInv
<1>4. Handled /\ Handling = 1 /\ ~Handled' /\ Handling' = 0
      BY DEF Handled, Handling
<1>5. InHand'
      BY <1>4 DEF PInv, InHand
<1>6. /\ st["received"] \in Nat /\ st["incoming_dropped"] \in Nat /\ st["late"] \in Nat
      /\ Made("decoded") \in Nat /\ Cardinality(jb) \in Nat
      BY CountersTyped, CountersAre
<1>7. /\ st'["received"] = st["received"]
      /\ st'["recovered"] = st["recovered"] /\ st'["concealed"] = st["concealed"]
      /\ st'["skipped"] = st["skipped"]
      /\ st'["incoming_dropped"] + st'["late"] = st["incoming_dropped"] + st["late"] + 1
      /\ st'["incoming_dropped"] \in Nat /\ st'["late"] \in Nat
      /\ st'["incoming_dropped"] <= st["incoming_dropped"] + 1
      BY <1>1, <1>6, CountersAre
<1>8. EveryDatagramCountedOnce'
  <2>1. Made("decoded")' = Made("decoded") /\ Made("recovered")' = Made("recovered")
        /\ Made("concealed")' = Made("concealed")
        BY MadeStays
  <2>2. st["received"] = st["incoming_dropped"] + st["late"] + Made("decoded") + Cardinality(jb) + 1
        BY <1>4, <1>6 DEF PInv, EveryDatagramCountedOnce, Handled
  <2>3. st'["received"] = st'["incoming_dropped"] + st'["late"] + Made("decoded")' + Cardinality(jb)'
        BY <1>6, <1>7, <2>1, <2>2
  <2>4. rx' \notin {"received", "measured"} /\ st'["received"] \in Nat
        BY <1>6, <1>7
  <2>5. st'["recovered"] = Made("recovered")' /\ st'["concealed"] = Made("concealed")'
        BY <1>7, <2>1 DEF PInv, EveryDatagramCountedOnce
  <2>6. sink' = "open" => played' + st'["skipped"] = Len(out')
        BY <1>7 DEF PInv, EveryDatagramCountedOnce
  <2>7. Made("decoded")' \in Nat /\ Cardinality(jb)' \in Nat
        BY <1>6, <2>1
  <2>8. QED BY <1>7, <2>3, <2>4, <2>5, <2>6, <2>7 DEF EveryDatagramCountedOnce
<1>9. LossAccount'
  <2>1. PICK owed \in {0, 1} :
          /\ telemetry.lost + torn - owed >= Shown(telemetry.prev)
          /\ st["received"] - st["incoming_dropped"] - Handling
                >= telemetry.prev["received"] - telemetry.prev["incoming_dropped"] - owed
        BY DEF PInv, LossAccount
  <2>2. telemetry.prev["received"] \in Nat /\ telemetry.prev["incoming_dropped"] \in Nat
        BY CountersTyped, CountersAre
  <2>3. st'["received"] - st'["incoming_dropped"] - 0
            >= telemetry.prev["received"] - telemetry.prev["incoming_dropped"] - owed
        BY <1>4, <1>6, <1>7, <2>1, <2>2
  <2>4. Shown(telemetry.prev)' = Shown(telemetry.prev)
        BY DEF Shown
  <2>5. QED BY <1>4, <2>1, <2>3, <2>4 DEF LossAccount
<1>10. QED BY <1>2, <1>3, <1>5, <1>8, <1>9 DEF PInv

(* A datagram in time waits in the buffer, where it was not before. *)
LEMMA PushKeeps ==
    ASSUME PInv, Push
    PROVE  PInv'
<1>1. /\ rx = "measured" /\ ~Late(cur) /\ jb' = jb \cup {s \in {cur} : s > last}
      /\ depth' \in Depths /\ rx' = "popping" /\ cur' = None
      /\ UNCHANGED <<arrived, meter, last, next, st, queued, played, sink, stop, main,
                     telemetry, out, torn>>
      BY DEF Push, speaker, history
<1>2. cur \in arrived /\ cur \notin jb /\ cur \in Stream /\ jb \subseteq Stream
      BY <1>1 DEF PInv, ReceiverTypeOK, InHand, Handled
<1>3. /\ next \in Nat \cup {None} /\ last = (IF next = None THEN None ELSE next - 1)
      /\ cur \in Nat
  <2>1. Stream \subseteq Nat
        BY ReceiverAssumption DEF Stream
  <2>2. QED BY <1>2, <2>1 DEF PInv, ReceiverTypeOK, OrderOK
<1>4. cur > last
      BY <1>1, <1>3 DEF Late, None
<1>5. jb' = jb \cup {cur}
      BY <1>1, <1>4
<1>6. ReceiverTypeOK'
      BY <1>1, <1>2, <1>5 DEF PInv, ReceiverTypeOK
<1>7. OrderOK'
  <2>1. PlayedInOrder'
        BY <1>1 DEF PInv, OrderOK, PlayedInOrder
  <2>2. \A s \in jb' : s > last
        BY <1>4, <1>5 DEF PInv, OrderOK
  <2>3. QED BY <1>1, <2>1, <2>2 DEF PInv, OrderOK
<1>8. Handled /\ Handling = 1 /\ ~Handled' /\ Handling' = 0
      BY <1>1 DEF Handled, Handling
<1>9. InHand'
      BY <1>1, <1>2, <1>5, <1>8 DEF PInv, InHand
<1>10. /\ st["received"] \in Nat /\ st["incoming_dropped"] \in Nat /\ st["late"] \in Nat
       /\ Made("decoded") \in Nat /\ Cardinality(jb) \in Nat
       BY CountersTyped, CountersAre
<1>11. Cardinality(jb') = Cardinality(jb) + 1
  <2>1. IsFiniteSet(jb)
        BY <1>2, BufferFinite
  <2>2. QED BY <1>2, <1>5, <2>1, FS_AddElement
<1>12. EveryDatagramCountedOnce'
  <2>1. Made("decoded")' = Made("decoded") /\ Made("recovered")' = Made("recovered")
        /\ Made("concealed")' = Made("concealed")
        BY <1>1, MadeStays
  <2>2. st["received"] = st["incoming_dropped"] + st["late"] + Made("decoded") + Cardinality(jb) + 1
        BY <1>8, <1>10 DEF PInv, EveryDatagramCountedOnce, Handled
  <2>3. st'["received"] = st'["incoming_dropped"] + st'["late"] + Made("decoded")' + Cardinality(jb')
        BY <1>1, <1>10, <1>11, <2>1, <2>2
  <2>4. rx' \notin {"received", "measured"} /\ Made("decoded")' \in Nat
        /\ Cardinality(jb') \in Nat /\ st' = st
        BY <1>1, <1>10, <1>11, <2>1
  <2>5. st'["recovered"] = Made("recovered")' /\ st'["concealed"] = Made("concealed")'
        BY <1>1, <2>1 DEF PInv, EveryDatagramCountedOnce
  <2>6. sink' = "open" => played' + st'["skipped"] = Len(out')
        BY <1>1 DEF PInv, EveryDatagramCountedOnce
  <2>7. QED BY <1>10, <2>3, <2>4, <2>5, <2>6 DEF EveryDatagramCountedOnce
<1>13. LossAccount'
  <2>1. PICK owed \in {0, 1} :
          /\ telemetry.lost + torn - owed >= Shown(telemetry.prev)
          /\ st["received"] - st["incoming_dropped"] - Handling
                >= telemetry.prev["received"] - telemetry.prev["incoming_dropped"] - owed
        BY DEF PInv, LossAccount
  <2>2. telemetry.prev["received"] \in Nat /\ telemetry.prev["incoming_dropped"] \in Nat
        BY CountersTyped, CountersAre
  <2>3. st["received"] - st["incoming_dropped"] - 0
            >= telemetry.prev["received"] - telemetry.prev["incoming_dropped"] - owed
        BY <1>8, <1>10, <2>1, <2>2
  <2>4. Shown(telemetry.prev)' = Shown(telemetry.prev)
        BY <1>1 DEF Shown
  <2>5. QED BY <1>1, <1>8, <2>1, <2>3, <2>4 DEF LossAccount
<1>14. QED BY <1>6, <1>7, <1>9, <1>12, <1>13 DEF PInv

(* A telemetry row: what it shows and what it owes to the next one.          *)
LEMMA SampleKeeps ==
    ASSUME PInv, Sample
    PROVE  PInv'
<1>1. /\ telemetry' = [prev |-> st, lost |-> telemetry.lost + IntervalLost,
                       rows |-> telemetry.rows + 1]
      /\ torn' = torn + Handling
      /\ UNCHANGED <<rx, cur, arrived, meter, jb, last, depth, next, st, queued, played, sink,
                     stop, main, out>>
  <2>1. torn \in Nat
        BY CountersTyped
  <2>2. torn' = torn + Handling
        BY <2>1 DEF Sample, Handling, Handled
  <2>3. QED BY <2>2 DEF Sample, buffer, speaker
<1>2. /\ st \in [Counters -> Nat] /\ telemetry.prev \in [Counters -> Nat]
      /\ telemetry.lost \in Nat /\ torn \in Nat
      /\ \A c \in Counters : st[c] \in Nat /\ telemetry.prev[c] \in Nat
      BY CountersTyped
<1> DEFINE dE == Delta("expected")
           dX == Delta("received")
           dD == Delta("incoming_dropped")
           dL == Delta("late")
           P == telemetry.prev
           taken == dX - dD
           told == Delivered
<1>3. /\ dE \in Int /\ dX \in Int /\ dD \in Int /\ dL \in Int
      /\ dE = st["expected"] - P["expected"] /\ dX = st["received"] - P["received"]
      /\ dD = st["incoming_dropped"] - P["incoming_dropped"] /\ dL = st["late"] - P["late"]
      BY <1>2, CountersAre DEF Delta
<1>4. told = (IF 0 >= taken THEN 0 ELSE taken)
  <2>1. taken \in Int /\ 0 \in Int /\ Delivered = Max({0, taken})
        BY <1>3 DEF Delivered
  <2> HIDE DEF taken
  <2>2. QED BY <2>1, MaxOfTwo
<1> HIDE DEF told
<1>5. told \in Int /\ taken \in Int
      BY <1>3, <1>4
<1> HIDE DEF taken
<1>6. IntervalLost \in Nat /\ IntervalLost >= dE - told + dL
  <2> DEFINE x == dE - told + dL
  <2>1. x \in Int /\ 0 \in Int /\ IntervalLost = Max({0, x})
        BY <1>3, <1>5 DEF IntervalLost, told
  <2> HIDE DEF x
  <2>2. IntervalLost = IF 0 >= x THEN 0 ELSE x
        BY <2>1, MaxOfTwo
  <2>3. IntervalLost \in Nat /\ IntervalLost >= x
        BY <2>1, <2>2
  <2>4. QED BY <2>3 DEF x
<1>7. ReceiverTypeOK'
  <2>1. telemetry \in [prev : [Counters -> Nat], lost : Nat, rows : Nat] /\ telemetry.rows \in Nat
        BY DEF PInv, ReceiverTypeOK
  <2>2. telemetry' \in [prev : [Counters -> Nat], lost : Nat, rows : Nat]
        BY <1>1, <1>2, <1>6, <2>1
  <2>3. torn' \in Nat
        BY <1>1, <1>2 DEF Handling
  <2>4. QED BY <1>1, <2>2, <2>3 DEF PInv, ReceiverTypeOK
<1>8. OrderOK'
      BY <1>1, OrderStays DEF PInv
<1>9. InHand' /\ Handling' = Handling
      BY <1>1 DEF PInv, InHand, Handled, Handling
<1>10. EveryDatagramCountedOnce'
  <2>1. Made("decoded")' = Made("decoded") /\ Made("recovered")' = Made("recovered")
        /\ Made("concealed")' = Made("concealed")
        BY <1>1, MadeStays
  <2>2. QED BY <1>1, <2>1 DEF PInv, EveryDatagramCountedOnce
<1>11. PICK owed \in {0, 1} :
          /\ telemetry.lost + torn - owed >= Shown(telemetry.prev)
          /\ st["received"] - st["incoming_dropped"] - Handling
                >= telemetry.prev["received"] - telemetry.prev["incoming_dropped"] - owed
       BY DEF PInv, LossAccount
<1>12. /\ P["received"] \in Nat /\ P["incoming_dropped"] \in Nat /\ P["late"] \in Nat
       /\ P["expected"] \in Nat /\ st["received"] \in Nat /\ st["incoming_dropped"] \in Nat
       /\ st["late"] \in Nat /\ st["expected"] \in Nat /\ Handling \in {0, 1}
       BY <1>2, CountersAre DEF Handling
<1>13. /\ Shown(P) = P["expected"] - (P["received"] - P["incoming_dropped"]) + P["late"]
       /\ Shown(st) = st["expected"] - (st["received"] - st["incoming_dropped"]) + st["late"]
       BY DEF Shown
<1>14. Shown(st) - Shown(P) = dE - taken + dL /\ Shown(st) \in Int /\ Shown(P) \in Int
       BY <1>3, <1>12, <1>13 DEF taken
<1>15. told <= taken + owed
  <2>1. taken >= Handling - owed
        BY <1>3, <1>11, <1>12 DEF taken
  <2>2. QED BY <1>4, <1>5, <1>12, <2>1
<1>16. telemetry.lost + IntervalLost + torn >= Shown(st)
       BY <1>2, <1>3, <1>5, <1>6, <1>11, <1>14, <1>15
<1>17. LossAccount'
  <2>1. telemetry'.lost = telemetry.lost + IntervalLost /\ telemetry'.prev = st
        BY <1>1
  <2>2. telemetry'.lost + torn' - Handling >= Shown(st)
        BY <1>1, <1>2, <1>6, <1>12, <1>16, <2>1
  <2>3. Shown(telemetry.prev)' = Shown(st)
        BY <2>1 DEF Shown
  <2>4. st'["received"] - st'["incoming_dropped"] - Handling'
             >= telemetry'.prev["received"] - telemetry'.prev["incoming_dropped"] - Handling
        BY <1>1, <1>9, <1>12, <2>1
  <2>5. QED BY <1>12, <2>2, <2>3, <2>4 DEF LossAccount
<1>18. QED BY <1>7, <1>8, <1>9, <1>10, <1>17 DEF PInv

LEMMA PInvStep == PInv /\ [ReceiverNext]_receiverVars => PInv'
<1> SUFFICES ASSUME PInv, [ReceiverNext]_receiverVars PROVE PInv'
    OBVIOUS
<1> USE DEF buffer, speaker, history
<1>1. CASE UNCHANGED receiverVars
  <2>1. UNCHANGED <<rx, cur, arrived, meter, jb, last, depth, next, st, queued, played, sink,
                    stop, main, telemetry, out, torn>>
        BY <1>1 DEF receiverVars
  <2>2. ReceiverTypeOK' /\ (Handled' <=> Handled)
        BY <2>1 DEF PInv, ReceiverTypeOK, Handled
  <2>3. QED BY <2>1, <2>2, QuietKeeps
<1>2. CASE \E s \in Stream : Receive(s)
      BY <1>2, ReceiveKeeps
<1>3. CASE Measure
      BY <1>3, MeasureKeeps
<1>4. CASE DropIncoming
  <2>1. depth' \in Depths
        BY <1>4 DEF DropIncoming, PInv, ReceiverTypeOK
  <2>2. QED BY <1>4, <2>1, DropKeeps DEF DropIncoming
<1>5. CASE DropLate
      BY <1>5, DropKeeps DEF DropLate
<1>6. CASE Push
      BY <1>6, PushKeeps
<1>7. CASE Pop
  <2>1. jb # {}
    <3>1. Depths \subseteq Nat \ {0} /\ depth \in Depths
          BY ReceiverAssumption DEF PInv, ReceiverTypeOK
    <3>2. Cardinality(jb) >= depth /\ depth \in Nat \ {0}
          BY <1>7, <3>1 DEF Pop
    <3>3. jb = {} => Cardinality(jb) = 0
          BY FS_EmptySet
    <3>4. QED BY <3>2, <3>3
  <2>2. QED BY <1>7, <2>1, PopKeeps DEF Pop
<1>8. CASE PopNothing
  <2>1. ReceiverTypeOK' /\ (Handled' <=> Handled)
        BY <1>8 DEF PopNothing, PInv, ReceiverTypeOK, Handled
  <2>2. QED BY <1>8, <2>1, QuietKeeps DEF PopNothing
<1>9. CASE LeaveLoop
  <2>1. ReceiverTypeOK' /\ (Handled' <=> Handled)
        BY <1>9 DEF LeaveLoop, PInv, ReceiverTypeOK, Handled
  <2>2. QED BY <1>9, <2>1, QuietKeeps DEF LeaveLoop
<1>10. CASE SocketFails
  <2>1. ReceiverTypeOK' /\ (Handled' <=> Handled)
        BY <1>10 DEF SocketFails, PInv, ReceiverTypeOK, Handled
  <2>2. QED BY <1>10, <2>1, QuietKeeps DEF SocketFails
<1>11. CASE Flush
       BY <1>11, PopKeeps DEF Flush
<1>12. CASE FlushEnds
  <2>1. ReceiverTypeOK' /\ (Handled' <=> Handled)
        BY <1>12 DEF FlushEnds, PInv, ReceiverTypeOK, Handled
  <2>2. QED BY <1>12, <2>1, QuietKeeps DEF FlushEnds
<1>13. CASE StopAsked
  <2>1. ReceiverTypeOK' /\ (Handled' <=> Handled)
        BY <1>13 DEF StopAsked, PInv, ReceiverTypeOK, Handled
  <2>2. QED BY <1>13, <2>1, QuietKeeps DEF StopAsked
<1>14. CASE SenderEnds
  <2>1. ReceiverTypeOK' /\ (Handled' <=> Handled)
        BY <1>14 DEF SenderEnds, PInv, ReceiverTypeOK, Handled
  <2>2. QED BY <1>14, <2>1, QuietKeeps DEF SenderEnds
<1>15. CASE CloseSink
  <2>1. ReceiverTypeOK' /\ (Handled' <=> Handled) /\ sink' = "closed"
        BY <1>15 DEF CloseSink, PInv, ReceiverTypeOK, Handled
  <2>2. QED BY <1>15, <2>1, QuietKeeps DEF CloseSink
<1>16. CASE Sample
       BY <1>16, SampleKeeps
<1>17. CASE Ended
  <2>1. UNCHANGED receiverVars
        BY <1>17 DEF Ended
  <2>2. QED BY <1>1, <2>1
<1>18. QED BY <1>1, <1>2, <1>3, <1>4, <1>5, <1>6, <1>7, <1>8, <1>9, <1>10, <1>11, <1>12,
             <1>13, <1>14, <1>15, <1>16, <1>17 DEF ReceiverNext, ReceiverThread

LEMMA PInvHolds == ReceiverSpec => []PInv
<1>1. QED BY PInvInit, PInvStep, PTL DEF ReceiverSpec

(* The receiver's variables keep their types for any stream, delays, stall   *)
(* bound and telemetry (demo._receiver_loop).                                *)
THEOREM ReceiverTypes == ReceiverSpec => []ReceiverTypeOK
<1>1. PInv => ReceiverTypeOK
      BY DEF PInv
<1>2. QED BY <1>1, PInvHolds, PTL

(* Whatever the network does and however the delay knob is turned, no slot   *)
(* is heard twice or out of order, and none is skipped but in a stall longer *)
(* than MAX_GAP (playout.py, jitter.py).                                     *)
THEOREM AlwaysPlayedInOrder == ReceiverSpec => []PlayedInOrder
<1>1. PInv => PlayedInOrder
      BY DEF PInv, OrderOK
<1>2. QED BY <1>1, PInvHolds, PTL

(* Every received datagram is in exactly one counter, every repaired slot in *)
(* one, and every frame made is played or counted as skipped (demo.Stats).   *)
THEOREM ReceiverAccounts == ReceiverSpec => []EveryDatagramCountedOnce
<1>1. PInv => EveryDatagramCountedOnce
      BY DEF PInv
<1>2. QED BY <1>1, PInvHolds, PTL

(* Reordering cannot hide loss from the rows: only samples taken in the      *)
(* middle of a datagram can, by one each (telemetry.py).                     *)
THEOREM LossIsShown == ReceiverSpec => []LossNotHidden
<1>1. PInv => LossNotHidden
  <2> SUFFICES ASSUME PInv PROVE LossNotHidden
      OBVIOUS
  <2>1. PICK owed \in {0, 1} : telemetry.lost + torn - owed >= Shown(telemetry.prev)
        BY DEF PInv, LossAccount
  <2>2. telemetry.lost \in Nat /\ torn \in Nat
        BY CountersTyped
  <2>3. Shown(telemetry.prev) \in Int
    <3>1. /\ telemetry.prev["received"] \in Nat /\ telemetry.prev["incoming_dropped"] \in Nat
          /\ telemetry.prev["late"] \in Nat /\ telemetry.prev["expected"] \in Nat
          BY CountersTyped, CountersAre
    <3>2. QED BY <3>1 DEF Shown
  <2>4. telemetry.lost + torn >= Shown(telemetry.prev)
        BY <2>1, <2>2, <2>3
  <2>5. QED BY <2>4 DEF LossNotHidden, Shown
<1>2. QED BY <1>1, PInvHolds, PTL

=============================================================================
