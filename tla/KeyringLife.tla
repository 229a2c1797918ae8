---------------------------- MODULE KeyringLife -----------------------------
(***************************************************************************)
(* One key ring under any sequence of calls: local presses, ROTATE         *)
(* messages of any generation, voice frames to seal, datagrams with any    *)
(* tag, number and key, while time passes.                                 *)
(***************************************************************************)
EXTENDS Keyring

CONSTANTS MaxGen,       (* bound on the generations, and on those a peer   *)
                        (* may name                                        *)
          MaxTime       (* bound on the clock                              *)

ASSUME BoundsAssumption == MaxGen \in Nat /\ MaxTime \in Nat

VARIABLES ring, now,
          heard,        (* history: every number accepted                  *)
          deliveries    (* history: how many datagrams were accepted       *)

history == <<heard, deliveries>>
vars == <<ring, now, history>>

Datagrams == [ours : BOOLEAN, seq : Seqs, tag : Tags, key : 0..MaxGen]

Init == ring = NewRing /\ now = 0 /\ heard = {} /\ deliveries = 0

Tick ==
    /\ now < MaxTime
    /\ now' = now + 1
    /\ UNCHANGED <<ring, history>>

SealFrame(seq) ==
    /\ CanSeal(ring, seq)
    /\ ring' = Seal(ring, seq)
    /\ UNCHANGED <<now, history>>

OpenDatagram(dg) ==
    /\ ring' = Open(ring, dg, now)
    /\ IF Verdict(ring, dg, now) = "ok"
       THEN heard' = heard \cup {dg.seq} /\ deliveries' = deliveries + 1
       ELSE UNCHANGED history
    /\ UNCHANGED now

(* rotation_ready(): asking already forgets what has expired.                *)
AskReady ==
    /\ ring' = Purge(ring, now)
    /\ UNCHANGED <<now, history>>

PressRotate ==
    /\ ring.gen < MaxGen
    /\ ring' = RotateNext(ring, now)
    /\ UNCHANGED <<now, history>>

PeerRotates(g) ==
    /\ ring.gen < MaxGen
    /\ ring' = RotateTo(ring, g, now)
    /\ UNCHANGED <<now, history>>

Next ==
    \/ Tick \/ AskReady \/ PressRotate
    \/ \E seq \in Seqs : SealFrame(seq)
    \/ \E dg \in Datagrams : OpenDatagram(dg)
    \/ \E g \in 0..MaxGen : PeerRotates(g)

Spec == Init /\ [][Next]_vars

-----------------------------------------------------------------------------
TypeOK == IsRing(ring) /\ now \in Nat /\ heard \in SUBSET Seqs /\ deliveries \in Nat

(* A tag never names two keys, so one AEAD attempt is enough, although a     *)
(* peer may rotate far faster than keys retire (keyring.py:3-5, 114-117).    *)
TagNamesOneKey ==
    \A g, h \in DOMAIN ring.recv : Tag(g) = Tag(h) => g = h

(* Every key but the current one has a retirement time and no time is left   *)
(* without its key: keyring.py:128 never deletes a key that is not there,    *)
(* and the current key never retires.                                        *)
OldKeysExpire == ring.gen \in DOMAIN ring.recv /\ DOMAIN ring.expires = DOMAIN ring.recv \ {ring.gen}

(* The keys of a generation are the same wherever it was reached: both       *)
(* secrets are ratcheted exactly once per generation, and each generation's  *)
(* receive key is the one its peer seals under.                              *)
KeysMatchGenerations ==
    /\ ring.send = ring.gen
    /\ \A g \in DOMAIN ring.recv : ring.recv[g] = g

Promise == INSTANCE AtMostOnce WITH accepted <- heard, Span <- WindowSize, Numbers <- Seqs

(* The window, which forgets everything WindowSize below its top, decides    *)
(* exactly as if it remembered every number ever accepted: a number is let   *)
(* in iff it is new and less than WindowSize below the highest (the capped   *)
(* shift of replay.py:33, the >> and << of lines 24 and 36).                 *)
WindowExact == \A s \in Seqs : Check(ring.window, s) <=> Promise!Fresh(s)

(* Whatever rotations come in between, a ring implements at-most-once        *)
(* acceptance: every datagram it lets in carries a number that is new        *)
(* (replay.py:1-5, keyring.py:79-97).                                        *)
AtMostOnceAccept == Promise!Spec

(* No number is accepted twice in the life of a ring, whatever generations   *)
(* its copies claim: one replay window covers every generation.              *)
NoReplayAcrossKeys ==
    \A s \in heard, dg \in Datagrams : dg.seq = s => Verdict(ring, dg, now) # "ok"

-----------------------------------------------------------------------------
(* Why a tag names one key: only four neighbouring generations can be alive. *)
Recent == \A g \in DOMAIN ring.recv : ring.gen - 3 <= g /\ g <= ring.gen

SecretsMatchGenerations ==
    ring.sendSecret = ring.gen /\ ring.recvSecret = ring.gen

IInv ==
    /\ TypeOK /\ OldKeysExpire /\ KeysMatchGenerations /\ SecretsMatchGenerations
    /\ Recent /\ Mirrors(ring.window, heard)

=============================================================================
