--------------------------- MODULE Keyring_proof ----------------------------
(***************************************************************************)
(* Lemmas on the anti-replay window and on the key ring as values, for     *)
(* every window size and retirement time: what accepting a number, purging *)
(* and advancing do, and which key a datagram meets.                       *)
(***************************************************************************)
EXTENDS Keyring, FiniteSetTheorems, TLAPS

-----------------------------------------------------------------------------
(* The window. *)

(* What the two branches of accept() do to the bits: the bit of every offset *)
(* of the new window is set iff it was set for that number, or the number is *)
(* the accepted one.                                                         *)
LEMMA AcceptBits ==
    ASSUME NEW w \in Windows, NEW s \in Seqs, Check(w, s),
           NEW i \in Offsets
    PROVE  LET v == Accept(w, s)
               n == v.top - i
           IN  i \in v.bits <=> \/ n = s
                                \/ w.top - n \in w.bits
<1> DEFINE v == Accept(w, s)
           n == v.top - i
<1> USE WindowAssumption
<1>0. w.top \in Int /\ s \in Int /\ i \in Int /\ i >= 0 /\ w.bits \in SUBSET Offsets
      /\ w = [top |-> w.top, bits |-> w.bits]
      BY DEF Windows, Seqs, Offsets
<1>1. CASE s > w.top
  <2>1. v.top = s /\ v.bits = Slide(w, s)
        BY <1>1 DEF Accept
  <2>2. CASE s - w.top >= WindowSize
    <3>1. v.bits = {0}
          BY <2>1, <2>2 DEF Slide
    <3>2. \A k \in w.bits : k # w.top - n
          BY <1>0, <2>1, <2>2 DEF Offsets
    <3>3. QED BY <3>1, <3>2, <2>1, <1>0
  <2>3. CASE s - w.top < WindowSize
    <3>1. v.bits = ({k + (s - w.top) : k \in w.bits} \cup {0}) \cap Offsets
          BY <2>1, <2>3, <1>0 DEF Slide
    <3>2. i \in v.bits <=> i = 0 \/ \E k \in w.bits : i = k + (s - w.top)
          BY <3>1
    <3>3. (\E k \in w.bits : i = k + (s - w.top)) <=> w.top - n \in w.bits
          BY <1>0, <2>1 DEF Offsets
    <3>4. i = 0 <=> n = s
          BY <1>0, <2>1
    <3>5. QED BY <3>2, <3>3, <3>4
  <2>4. QED BY <2>2, <2>3, <1>0
<1>2. CASE ~(s > w.top)
  <2>1. v.top = w.top /\ v.bits = w.bits \cup {w.top - s}
        BY <1>2, <1>0 DEF Accept
  <2>2. QED BY <2>1, <1>0
<1>3. QED BY <1>1, <1>2

LEMMA AcceptType ==
    ASSUME NEW w \in Windows, NEW s \in Seqs, Check(w, s)
    PROVE  /\ Accept(w, s) \in Windows
           /\ Accept(w, s).top = IF s > w.top THEN s ELSE w.top
<1> USE WindowAssumption
<1>1. CASE s > w.top
  <2>1. Slide(w, s) \in SUBSET Offsets
        BY DEF Slide, Offsets
  <2>2. QED BY <1>1, <2>1 DEF Accept, Windows
<1>2. CASE ~(s > w.top)
  <2>1. w.top - s \in Offsets
        BY <1>2 DEF Check, Windows, Seqs, Offsets
  <2>2. QED BY <1>2, <2>1 DEF Accept, Windows
<1>3. QED BY <1>1, <1>2

(* What the window tells of one number, if it still covers it. *)
Seen(w, n) == n <= w.top /\ w.top - n \in w.bits

LEMMA SeenDecides ==
    ASSUME NEW w \in Windows, NEW n \in Seqs, w.top - n < WindowSize
    PROVE  Check(w, n) <=> ~Seen(w, n)
BY WindowAssumption DEF Check, Seen, Windows, Seqs, Offsets

(* Accepting s adds s and forgets nothing that the window still covers.      *)
LEMMA AcceptRecords ==
    ASSUME NEW w \in Windows, NEW s \in Seqs, Check(w, s), NEW n \in Seqs,
           Accept(w, s).top - n < WindowSize
    PROVE  Seen(Accept(w, s), n) <=> n = s \/ Seen(w, n)
<1> DEFINE v == Accept(w, s)
           i == v.top - n
<1> USE WindowAssumption
<1>0. /\ w.top \in Int /\ s \in Int /\ n \in Int /\ v.top \in Int
      /\ w.bits \in SUBSET Offsets /\ s <= v.top /\ w.top <= v.top
      BY AcceptType DEF Windows, Seqs
<1>1. CASE n <= v.top
  <2>1. i \in Offsets /\ v.top - i = n
        BY <1>0, <1>1 DEF Offsets
  <2>2. i \in v.bits <=> n = s \/ w.top - n \in w.bits
        BY <2>1, AcceptBits
  <2>3. w.top - n \in w.bits => n <= w.top
        BY <1>0 DEF Offsets
  <2>4. QED BY <1>1, <2>2, <2>3 DEF Seen
<1>2. CASE ~(n <= v.top)
      BY <1>0, <1>2 DEF Seen
<1>3. QED BY <1>1, <1>2

(* Accepting s keeps the window a mirror. *)
LEMMA AcceptMirrors ==
    ASSUME NEW w \in Windows, NEW seen \in SUBSET Seqs, NEW s \in Seqs,
           Mirrors(w, seen), Check(w, s)
    PROVE  Mirrors(Accept(w, s), seen \cup {s})
<1> DEFINE v == Accept(w, s)
           now == seen \cup {s}
<1> USE WindowAssumption
<1>1. v \in Windows /\ v.top = IF s > w.top THEN s ELSE w.top
      BY AcceptType
<1>2. /\ w.top \in Int /\ s \in Int /\ v.top \in Int /\ s >= 0
      /\ seen \in SUBSET Int /\ w.bits \in SUBSET Offsets
      BY <1>1 DEF Windows, Seqs
<1>3. ASSUME NEW i \in Offsets
      PROVE  i \in v.bits <=> v.top - i \in now
  <2> DEFINE n == v.top - i
  <2>0. i \in Int /\ i >= 0 /\ i < WindowSize /\ n \in Int
        BY <1>2 DEF Offsets
  <2>1. i \in v.bits <=> n = s \/ w.top - n \in w.bits
        BY AcceptBits
  <2>2. w.top - n \in w.bits <=> n \in seen
    <3>1. CASE w.top - n \in Offsets
      <4>1. w.top - (w.top - n) = n
            BY <1>2, <2>0
      <4>2. QED BY <3>1, <4>1 DEF Mirrors
    <3>2. CASE w.top - n \notin Offsets
      <4>1. w.top - n \notin w.bits
            BY <3>2, <1>2
      <4>2. n > w.top
            BY <3>2, <2>0, <1>1, <1>2 DEF Offsets
      <4>3. n \notin seen
            BY <4>2, <1>2, <2>0 DEF Mirrors
      <4>4. QED BY <4>1, <4>3
    <3>3. QED BY <3>1, <3>2
  <2>3. QED BY <2>1, <2>2
<1>4. \A a \in now : a <= v.top
      BY <1>1, <1>2 DEF Mirrors
<1>5. v.top \in now
  <2>1. CASE s > w.top
        BY <2>1, <1>1
  <2>2. CASE ~(s > w.top)
    <3>1. w.top # -1
          BY <2>2, <1>2
    <3>2. w.top \in seen
          BY <3>1 DEF Mirrors
    <3>3. QED BY <3>2, <2>2, <1>1
  <2>3. QED BY <2>1, <2>2
<1>6. QED BY <1>3, <1>4, <1>5 DEF Mirrors

(* A mirror lets a number in iff it is new and less than WindowSize below    *)
(* every number seen.                                                        *)
LEMMA MirrorDecides ==
    ASSUME NEW w \in Windows, NEW seen \in SUBSET Seqs, NEW s \in Seqs, Mirrors(w, seen)
    PROVE  Check(w, s) <=> s \notin seen /\ \A a \in seen : a - s < WindowSize
<1> USE WindowAssumption
<1>0. w.top \in Int /\ s \in Int /\ s >= 0 /\ seen \in SUBSET Int
      BY DEF Windows, Seqs
<1>1. CASE seen = {}
      BY <1>0, <1>1 DEF Mirrors, Check
<1>2. CASE seen # {}
  <2>1. w.top \in seen /\ \A a \in seen : a <= w.top
        BY <1>2 DEF Mirrors
  <2>2. (\A a \in seen : a - s < WindowSize) <=> w.top - s < WindowSize
        BY <2>1, <1>0
  <2>3. CASE s > w.top
        BY <2>1, <2>2, <2>3, <1>0 DEF Check
  <2>4. CASE ~(s > w.top) /\ w.top - s < WindowSize
    <3>1. w.top - s \in Offsets /\ w.top - (w.top - s) = s
          BY <2>4, <1>0 DEF Offsets
    <3>2. w.top - s \in w.bits <=> s \in seen
          BY <3>1 DEF Mirrors
    <3>3. QED BY <2>2, <2>4, <3>2 DEF Check
  <2>5. CASE ~(s > w.top) /\ ~(w.top - s < WindowSize)
        BY <2>2, <2>5 DEF Check
  <2>6. QED BY <2>3, <2>4, <2>5
<1>3. QED BY <1>1, <1>2

-----------------------------------------------------------------------------
(* The ring. *)

(* What makes a ring good, and what the invariant says of it.                *)
GoodRing(r) ==
    /\ IsRing(r)
    /\ r.gen \in DOMAIN r.recv /\ DOMAIN r.expires = DOMAIN r.recv \ {r.gen}
    /\ r.send = r.gen /\ r.sendSecret = r.gen /\ r.recvSecret = r.gen
    /\ \A g \in DOMAIN r.recv : r.recv[g] = g /\ r.gen - 3 <= g /\ g <= r.gen

LEMMA PurgeKeeps ==
    ASSUME NEW r, GoodRing(r), NEW t \in Nat
    PROVE  LET s == Purge(r, t)
           IN  /\ GoodRing(s)
               /\ s.window = r.window /\ s.gen = r.gen /\ s.lastSent = r.lastSent
               /\ DOMAIN s.recv \subseteq DOMAIN r.recv
               /\ DOMAIN s.expires = {g \in DOMAIN r.expires : t < r.expires[g]}
               /\ \A g \in DOMAIN s.expires : s.expires[g] = r.expires[g]
<1> DEFINE old == {g \in DOMAIN r.expires : t >= r.expires[g]}
           s == Purge(r, t)
<1>1. /\ s = [f \in Fields |-> s[f]]
      /\ s.gen = r.gen /\ s.sendSecret = r.sendSecret /\ s.recvSecret = r.recvSecret
      /\ s.send = r.send /\ s.lastSent = r.lastSent /\ s.window = r.window
      /\ s.recv = Without(r.recv, old) /\ s.expires = Without(r.expires, old)
      BY DEF GoodRing, IsRing, Fields, Purge
<1>2. /\ DOMAIN s.recv = DOMAIN r.recv \ old /\ DOMAIN s.expires = DOMAIN r.expires \ old
      /\ \A g \in DOMAIN s.recv : s.recv[g] = r.recv[g]
      /\ \A g \in DOMAIN s.expires : s.expires[g] = r.expires[g]
      BY <1>1 DEF Without
<1>3. r.gen \notin old
      BY DEF GoodRing
<1>4. IsRing(s)
      BY <1>1, <1>2 DEF GoodRing, IsRing
<1>5. DOMAIN s.expires = {g \in DOMAIN r.expires : t < r.expires[g]}
      BY <1>2 DEF GoodRing, IsRing
<1>6. QED BY <1>1, <1>2, <1>3, <1>4, <1>5 DEF GoodRing

LEMMA AdvanceKeeps ==
    ASSUME NEW r, GoodRing(r), NEW t \in Nat
    PROVE  LET s == Advance(r, t)
           IN  /\ GoodRing(s)
               /\ s.window = r.window /\ s.gen = r.gen + 1 /\ s.lastSent = r.lastSent
               /\ DOMAIN s.expires = (DOMAIN r.expires \cup {r.gen}) \ {r.gen - 3}
               /\ \A g \in DOMAIN s.expires :
                     s.expires[g] = IF g = r.gen THEN t + RetireAfter ELSE r.expires[g]
<1> DEFINE s == Advance(r, t)
<1> USE RetireAssumption
<1>0. r.gen \in Nat /\ r.gen + 1 \in Nat /\ r.gen - 3 \in Int /\ t + RetireAfter \in Nat
      BY DEF GoodRing, IsRing
<1>1. /\ s = [f \in Fields |-> s[f]]
      /\ s.gen = r.gen + 1 /\ s.sendSecret = r.sendSecret + 1
      /\ s.recvSecret = r.recvSecret + 1
      /\ s.send = r.sendSecret + 1 /\ s.lastSent = r.lastSent /\ s.window = r.window
      /\ s.recv = With(Without(r.recv, {r.gen - 3}), r.gen + 1, r.recvSecret + 1)
      /\ s.expires = Without(With(r.expires, r.gen, t + RetireAfter), {r.gen - 3})
      BY DEF GoodRing, IsRing, Fields, Advance
<1>2. /\ DOMAIN s.recv = (DOMAIN r.recv \ {r.gen - 3}) \cup {r.gen + 1}
      /\ s.recv[r.gen + 1] = r.recvSecret + 1
      /\ \A g \in DOMAIN s.recv : g # r.gen + 1 => s.recv[g] = r.recv[g]
      BY <1>1 DEF With, Without
<1>3. /\ DOMAIN s.expires = (DOMAIN r.expires \cup {r.gen}) \ {r.gen - 3}
      /\ \A g \in DOMAIN s.expires :
            s.expires[g] = IF g = r.gen THEN t + RetireAfter ELSE r.expires[g]
      BY <1>1 DEF With, Without
<1>4. DOMAIN s.expires = DOMAIN s.recv \ {s.gen}
  <2>1. r.gen + 1 \notin DOMAIN r.recv
        BY <1>0 DEF GoodRing, IsRing
  <2>2. r.gen # r.gen - 3 /\ r.gen \in DOMAIN r.recv /\ r.gen + 1 # r.gen
        BY <1>0 DEF GoodRing
  <2>3. DOMAIN r.expires \cup {r.gen} = DOMAIN r.recv
        BY DEF GoodRing
  <2>4. QED BY <1>1, <1>2, <1>3, <2>1, <2>2, <2>3
<1>5. \A g \in DOMAIN s.recv : s.recv[g] = g /\ s.gen - 3 <= g /\ g <= s.gen /\ g \in Nat
  <2> SUFFICES ASSUME NEW g \in DOMAIN s.recv
               PROVE  s.recv[g] = g /\ s.gen - 3 <= g /\ g <= s.gen /\ g \in Nat
      OBVIOUS
  <2>1. CASE g = r.gen + 1
        BY <2>1, <1>0, <1>1, <1>2 DEF GoodRing
  <2>2. CASE g # r.gen + 1
    <3>1. g \in DOMAIN r.recv /\ g # r.gen - 3 /\ s.recv[g] = r.recv[g]
          BY <2>2, <1>2
    <3>2. r.recv[g] = g /\ r.gen - 3 <= g /\ g <= r.gen /\ g \in Nat
          BY <3>1 DEF GoodRing, IsRing
    <3>3. QED BY <3>1, <3>2, <1>0, <1>1
  <2>3. QED BY <2>1, <2>2
<1>6. \A g \in DOMAIN s.expires : g \in Nat /\ s.expires[g] \in Nat
      BY <1>0, <1>3 DEF GoodRing, IsRing
<1>7. IsRing(s)
      BY <1>0, <1>1, <1>5, <1>6 DEF GoodRing, IsRing
<1>8. QED BY <1>1, <1>2, <1>3, <1>4, <1>5, <1>7 DEF GoodRing

(* rotation_ready(): with one key left, no older one is alive.               *)
LEMMA ReadyHasNoOldKeys ==
    ASSUME NEW r, GoodRing(r), Cardinality(DOMAIN r.recv) = 1
    PROVE  DOMAIN r.expires = {}
<1>1. r.gen \in Nat /\ DOMAIN r.recv \subseteq (r.gen - 3)..r.gen
      BY DEF GoodRing, IsRing
<1>2. IsFiniteSet((r.gen - 3)..r.gen)
      BY <1>1, FS_Interval
<1>3. IsFiniteSet(DOMAIN r.recv)
      BY <1>1, <1>2, FS_Subset
<1>4. PICK g : DOMAIN r.recv = {g}
      BY <1>3, FS_Singleton
<1>5. QED BY <1>4 DEF GoodRing

(* Of the live generations at most one has the tag of g, if g is none of the *)
(* next three.                                                               *)
LEMMA TagFindsKey ==
    ASSUME NEW r, GoodRing(r), NEW g \in DOMAIN r.recv
    PROVE  LiveFor(r, Tag(g)) = {g} /\ Named(r, Tag(g)) = g
<1>1. r.gen \in Nat /\ g \in Nat /\ r.gen - 3 <= g /\ g <= r.gen
      BY DEF GoodRing, IsRing
<1>2. ASSUME NEW h \in DOMAIN r.recv, Tag(h) = Tag(g)
      PROVE  h = g
  <2>1. h \in Nat /\ r.gen - 3 <= h /\ h <= r.gen
        BY DEF GoodRing, IsRing
  <2>2. h % 4 = g % 4
        BY <1>2 DEF Tag
  <2>3. QED BY <1>1, <2>1, <2>2
<1>3. LiveFor(r, Tag(g)) = {g}
      BY <1>2 DEF LiveFor
<1>4. QED BY <1>1, <1>3 DEF Named

(* A datagram under a live key is judged by the replay window alone.         *)
LEMMA LiveKeyVerdict ==
    ASSUME NEW r, GoodRing(r), NEW t \in Nat, NEW dg, dg.ours = TRUE,
           dg.tag = Tag(dg.key), dg.key \in DOMAIN Purge(r, t).recv
    PROVE  Verdict(r, dg, t) = IF Check(r.window, dg.seq) THEN "ok" ELSE "replay"
<1> DEFINE s == Purge(r, t)
<1>1. GoodRing(s) /\ s.window = r.window
      BY PurgeKeeps
<1>2. LiveFor(s, dg.tag) # {} /\ Named(s, dg.tag) = dg.key
      BY <1>1, TagFindsKey
<1>3. s.recv[dg.key] = dg.key
      BY <1>1 DEF GoodRing
<1>4. QED BY <1>1, <1>2, <1>3 DEF Verdict

(* One under the generation after the current one finds no key, as long as   *)
(* the generation that shares its tag is gone.                               *)
LEMMA NextKeyVerdict ==
    ASSUME NEW r, GoodRing(r), NEW t \in Nat, NEW dg, dg.ours = TRUE,
           dg.tag = Tag(dg.key), dg.key = r.gen + 1,
           r.gen - 3 \notin DOMAIN Purge(r, t).recv
    PROVE  Verdict(r, dg, t) = "no_key"
<1> DEFINE s == Purge(r, t)
<1>1. GoodRing(s) /\ s.gen = r.gen /\ r.gen \in Nat
      BY PurgeKeeps, SMTT(60) DEF GoodRing, IsRing
<1>2. ASSUME NEW h \in DOMAIN s.recv, Tag(h) = dg.tag
      PROVE  FALSE
  <2>1. h \in Nat /\ r.gen - 3 <= h /\ h <= r.gen
        BY <1>1 DEF GoodRing, IsRing
  <2>2. h % 4 = (r.gen + 1) % 4
        BY <1>2 DEF Tag
  <2>3. h = r.gen - 3
        BY <1>1, <2>1, <2>2
  <2>4. QED BY <2>3
<1>3. LiveFor(s, dg.tag) = {}
      BY <1>2 DEF LiveFor
<1>4. QED BY <1>3 DEF Verdict

(* open_() changes nothing but what has expired and, if the datagram is      *)
(* good, the window.                                                         *)
LEMMA OpenEffect ==
    ASSUME NEW r, GoodRing(r), NEW t \in Nat, NEW dg, dg.ours = TRUE, dg.seq \in Seqs
    PROVE  LET s == Open(r, dg, t)
               p == Purge(r, t)
           IN  /\ GoodRing(s)
               /\ s.gen = p.gen /\ s.lastSent = p.lastSent
               /\ s.recv = p.recv /\ s.expires = p.expires
               /\ Verdict(r, dg, t) = "ok" => /\ Check(r.window, dg.seq)
                                              /\ s.window = Accept(r.window, dg.seq)
               /\ Verdict(r, dg, t) # "ok" => s.window = r.window
<1> DEFINE s == Open(r, dg, t)
           p == Purge(r, t)
<1>1. GoodRing(p) /\ p.window = r.window
      BY PurgeKeeps
<1>2. Verdict(r, dg, t) # "wrong_session"
      BY DEF Verdict
<1>3. CASE Verdict(r, dg, t) = "ok"
  <2>1. Check(r.window, dg.seq)
        BY <1>3, <1>1 DEF Verdict
  <2>2. s = [p EXCEPT !.window = Accept(r.window, dg.seq)]
        BY <1>1, <1>3 DEF Open
  <2>3. Accept(r.window, dg.seq) \in Windows
        BY <2>1, <1>1, AcceptType DEF GoodRing, IsRing
  <2>4. /\ s = [f \in Fields |-> s[f]] /\ s.window = Accept(r.window, dg.seq)
        /\ s.gen = p.gen /\ s.lastSent = p.lastSent /\ s.recv = p.recv
        /\ s.expires = p.expires /\ s.send = p.send
        /\ s.sendSecret = p.sendSecret /\ s.recvSecret = p.recvSecret
        BY <2>2, <1>1 DEF GoodRing, IsRing, Fields
  <2>5. GoodRing(s)
        BY <2>3, <2>4, <1>1, ZenonT(60) DEF GoodRing, IsRing
  <2>6. QED BY <1>3, <2>1, <2>4, <2>5
<1>4. CASE Verdict(r, dg, t) # "ok"
  <2>1. s = p
        BY <1>2, <1>4 DEF Open
  <2>2. QED BY <2>1, <1>1, <1>4
<1>5. QED BY <1>3, <1>4

=============================================================================
