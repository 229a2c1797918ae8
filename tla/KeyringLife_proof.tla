------------------------- MODULE KeyringLife_proof --------------------------
(***************************************************************************)
(* A key ring under any calls whatever, for every retirement time, number  *)
(* of generations and window size: a tag names one key, keys and           *)
(* retirement times go together, both secrets follow the generation, the   *)
(* window decides exactly, and no number is accepted twice.                *)
(***************************************************************************)
EXTENDS KeyringLife, Keyring_proof

LEMMA IInvIsGood ==
    IInv <=> /\ GoodRing(ring) /\ now \in Nat /\ deliveries \in Nat
             /\ heard \in SUBSET Seqs /\ Mirrors(ring.window, heard)
BY DEF IInv, GoodRing, TypeOK, OldKeysExpire, KeysMatchGenerations, SecretsMatchGenerations,
       Recent

LEMMA IInvInit == Init => IInv
<1> SUFFICES ASSUME Init PROVE IInv
    OBVIOUS
<1>1. IsRing(NewRing)
      BY DEF NewRing, IsRing, Fields, NewWindow, Windows
<1>2. GoodRing(NewRing)
      BY <1>1 DEF GoodRing, NewRing
<1>3. Mirrors(ring.window, heard)
      BY DEF Init, NewRing, NewWindow, Mirrors
<1>4. QED BY <1>2, <1>3, IInvIsGood DEF Init

LEMMA IInvStep == IInv /\ [Next]_vars => IInv'
<1> SUFFICES ASSUME IInv, [Next]_vars PROVE IInv'
    OBVIOUS
<1>0. /\ GoodRing(ring) /\ now \in Nat /\ heard \in SUBSET Seqs /\ deliveries \in Nat
      /\ Mirrors(ring.window, heard)
      BY IInvIsGood
<1> DEFINE Good == GoodRing(ring') /\ now' \in Nat /\ heard' \in SUBSET Seqs
                   /\ Mirrors(ring'.window, heard') /\ deliveries' \in Nat
<1>a. Good => IInv'
      BY DEF IInv, GoodRing, TypeOK, OldKeysExpire, KeysMatchGenerations,
             SecretsMatchGenerations, Recent
<1>1. CASE Tick
      BY <1>1, <1>0, <1>a DEF Tick, history
<1>2. CASE AskReady
      BY <1>2, <1>0, <1>a, PurgeKeeps DEF AskReady, history
<1>3. CASE PressRotate
  <2>1. GoodRing(Purge(ring, now)) /\ Purge(ring, now).window = ring.window
        BY <1>0, PurgeKeeps
  <2>2. GoodRing(ring') /\ ring'.window = ring.window
        BY <1>3, <1>0, <2>1, AdvanceKeeps DEF PressRotate, RotateNext
  <2>3. QED BY <1>3, <1>0, <1>a, <2>2 DEF PressRotate, history
<1>4. ASSUME NEW seq \in Seqs, SealFrame(seq) PROVE IInv'
  <2>1. GoodRing(ring') /\ ring'.window = ring.window
        BY <1>4, <1>0 DEF SealFrame, Seal, GoodRing, IsRing, Fields
  <2>2. QED BY <1>4, <1>0, <1>a, <2>1 DEF SealFrame, history
<1>5. ASSUME NEW dg \in Datagrams, OpenDatagram(dg) PROVE IInv'
  <2> DEFINE s == Purge(ring, now)
  <2>1. GoodRing(s) /\ s.window = ring.window
        BY <1>0, PurgeKeeps
  <2>2. dg.seq \in Seqs
        BY DEF Datagrams
  <2>3. CASE Verdict(ring, dg, now) = "wrong_session"
        BY <2>3, <1>0, <1>5, <1>a DEF OpenDatagram, Open, history
  <2>4. CASE Verdict(ring, dg, now) = "ok"
    <3>1. Check(s.window, dg.seq)
          BY <2>4 DEF Verdict
    <3>2. /\ ring' = [s EXCEPT !.window = Accept(s.window, dg.seq)]
          /\ heard' = heard \cup {dg.seq} /\ deliveries' = deliveries + 1
          BY <1>5, <2>4 DEF OpenDatagram, Open
    <3>3. s.window \in Windows
          BY <2>1 DEF GoodRing, IsRing
    <3>4. /\ Accept(s.window, dg.seq) \in Windows
          /\ Mirrors(Accept(s.window, dg.seq), heard \cup {dg.seq})
          BY <3>1, <3>3, <2>1, <2>2, <1>0, AcceptType, AcceptMirrors
    <3>5. ring'.window = Accept(s.window, dg.seq) /\ GoodRing(ring')
          BY <3>2, <3>4, <2>1 DEF GoodRing, IsRing, Fields
    <3>6. QED BY <3>2, <3>4, <3>5, <2>2, <1>0, <1>5, <1>a DEF OpenDatagram
  <2>5. CASE Verdict(ring, dg, now) \notin {"wrong_session", "ok"}
    <3>1. ring' = s /\ heard' = heard /\ deliveries' = deliveries
          BY <1>5, <2>5 DEF OpenDatagram, Open, history
    <3>2. QED BY <3>1, <2>1, <1>0, <1>5, <1>a DEF OpenDatagram
  <2>6. QED BY <2>3, <2>4, <2>5
<1>6. ASSUME NEW g \in 0..MaxGen, PeerRotates(g) PROVE IInv'
  <2>1. GoodRing(Purge(ring, now)) /\ Purge(ring, now).window = ring.window
        BY <1>0, PurgeKeeps
  <2>2. GoodRing(ring') /\ ring'.window = ring.window
        BY <1>6, <1>0, <2>1, AdvanceKeeps DEF PeerRotates, RotateTo
  <2>3. QED BY <1>6, <1>0, <1>a, <2>2 DEF PeerRotates, history
<1>7. CASE UNCHANGED vars
      BY <1>7, <1>0, <1>a DEF vars, history
<1>8. QED BY <1>1, <1>2, <1>3, <1>4, <1>5, <1>6, <1>7 DEF Next

(* The ring keeps its shape: every field of its type, for any bounds.        *)
THEOREM TypeCorrect == Spec => []TypeOK
<1>1. IInv => TypeOK
      BY DEF IInv
<1>2. QED BY <1>1, IInvInit, IInvStep, PTL DEF Spec

(* A tag names one key, however fast the peer rotates (keyring.py:114-117).  *)
THEOREM TagsAreUnambiguous == Spec => []TagNamesOneKey
<1>1. IInv => TagNamesOneKey
  <2> SUFFICES ASSUME IInv, NEW g \in DOMAIN ring.recv, NEW h \in DOMAIN ring.recv,
                      Tag(g) = Tag(h)
               PROVE  g = h
      BY DEF TagNamesOneKey
  <2>1. /\ g \in Nat /\ h \in Nat /\ ring.gen \in Nat
        /\ ring.gen - 3 <= g /\ g <= ring.gen /\ ring.gen - 3 <= h /\ h <= ring.gen
        BY DEF IInv, Recent, TypeOK, IsRing
  <2>2. g % 4 = h % 4
        BY DEF Tag
  <2>3. QED BY <2>1, <2>2
<1>2. QED BY <1>1, IInvInit, IInvStep, PTL DEF Spec

(* Retirement never deletes a key that is not there, nor the current one     *)
(* (keyring.py:123-128).                                                     *)
THEOREM OldKeysHaveExpiry == Spec => []OldKeysExpire
<1>1. IInv => OldKeysExpire
      BY DEF IInv
<1>2. QED BY <1>1, IInvInit, IInvStep, PTL DEF Spec

(* A generation's keys are those of as many ratchet steps.                   *)
THEOREM KeysFollowGenerations == Spec => []KeysMatchGenerations
<1>1. IInv => KeysMatchGenerations
      BY DEF IInv
<1>2. QED BY <1>1, IInvInit, IInvStep, PTL DEF Spec

(* No sequence number is accepted twice in the life of a ring.               *)
THEOREM ReplaysAreRejected == Spec => []NoReplayAcrossKeys
<1>1. IInv => NoReplayAcrossKeys
  <2> SUFFICES ASSUME IInv, NEW s \in heard, NEW dg \in Datagrams, dg.seq = s
               PROVE  Verdict(ring, dg, now) # "ok"
      BY DEF NoReplayAcrossKeys
  <2>1. /\ GoodRing(ring) /\ now \in Nat /\ heard \in SUBSET Seqs
        /\ Mirrors(ring.window, heard)
        BY IInvIsGood
  <2>2. Purge(ring, now).window = ring.window /\ ring.window \in Windows
        BY <2>1, PurgeKeeps DEF GoodRing, IsRing
  <2>3. ~Check(Purge(ring, now).window, dg.seq)
        BY <2>1, <2>2, MirrorDecides
  <2>4. QED BY <2>3 DEF Verdict
<1>2. QED BY <1>1, IInvInit, IInvStep, PTL DEF Spec


LEMMA IInvExact == IInv => WindowExact
<1> SUFFICES ASSUME IInv PROVE WindowExact
    OBVIOUS
<1>1. heard \in SUBSET Seqs /\ Mirrors(ring.window, heard) /\ ring.window \in Windows
      BY IInvIsGood DEF GoodRing, IsRing
<1>2. QED BY <1>1, MirrorDecides DEF WindowExact, Promise!Fresh

(* For every window size, through any rotations, the window decides exactly  *)
(* as an unbounded memory of all accepted numbers would (replay.py:1-5).     *)
THEOREM WindowIsExact == Spec => []WindowExact
<1>1. QED BY IInvInit, IInvStep, IInvExact, PTL DEF Spec

LEMMA PromiseStep == IInv /\ [Next]_vars => [Promise!Next]_<<heard, deliveries>>
<1> SUFFICES ASSUME IInv, [Next]_vars PROVE [Promise!Next]_<<heard, deliveries>>
    OBVIOUS
<1>1. ASSUME NEW dg \in Datagrams, OpenDatagram(dg)
      PROVE  [Promise!Next]_<<heard, deliveries>>
  <2>1. CASE Verdict(ring, dg, now) = "ok"
    <3>1. GoodRing(ring) /\ now \in Nat
          BY IInvIsGood
    <3>2. Check(ring.window, dg.seq)
          BY <2>1, <3>1, PurgeKeeps DEF Verdict
    <3>3. dg.seq \in Seqs /\ Promise!Fresh(dg.seq)
          BY <3>2, IInvExact DEF WindowExact, Datagrams
    <3>4. heard' = heard \cup {dg.seq} /\ deliveries' = deliveries + 1
          BY <1>1, <2>1 DEF OpenDatagram
    <3>5. Promise!Next
          BY <3>3, <3>4 DEF Promise!Deliver, Promise!Next
    <3>6. QED BY <3>5
  <2>2. CASE Verdict(ring, dg, now) # "ok"
        BY <1>1, <2>2 DEF OpenDatagram, history
  <2>3. QED BY <2>1, <2>2
<1>2. CASE Tick \/ AskReady \/ PressRotate
      BY <1>2 DEF Tick, AskReady, PressRotate, history
<1>3. ASSUME NEW seq \in Seqs, SealFrame(seq) PROVE UNCHANGED history
      BY <1>3 DEF SealFrame
<1>4. ASSUME NEW g \in 0..MaxGen, PeerRotates(g) PROVE UNCHANGED history
      BY <1>4 DEF PeerRotates
<1>5. CASE UNCHANGED vars
      BY <1>5 DEF vars, history
<1>6. QED BY <1>1, <1>2, <1>3, <1>4, <1>5 DEF Next, history

(* For every window size, whatever happens to the ring, each acceptance is a *)
(* step of AtMostOnce: its number is new.                                    *)
THEOREM RingImplementsAtMostOnce == Spec => AtMostOnceAccept
<1>1. Init => Promise!Init
      BY DEF Init, Promise!Init
<1>2. QED BY <1>1, PromiseStep, IInvInit, IInvStep, PTL DEF Spec, AtMostOnceAccept, Promise!Spec

=============================================================================
