------------------------------ MODULE Keyring -------------------------------
(***************************************************************************)
(* One side's voice keys (hpqv.keyring.Keyring) as a value with one        *)
(* operator per method.  Each method holds the ring's lock throughout, so  *)
(* each operator is one atomic change.                                     *)
(*                                                                         *)
(* A secret is the number of times it was ratcheted, and the keys derived  *)
(* from it are that number too: what matters of a key here is whether the  *)
(* two ends hold the same one.  Time is counted in ticks.                  *)
(***************************************************************************)
EXTENDS ReplayWindow, FiniteSets

CONSTANT RetireAfter    (* RETIRE_AFTER                                    *)

ASSUME RetireAssumption == RetireAfter \in Nat \ {0}

Tags == 0..3

Tag(g) == g % 4

(* Dictionaries. *)
Without(f, S) == [k \in DOMAIN f \ S |-> f[k]]
With(f, key, v) == [k \in DOMAIN f \cup {key} |-> IF k = key THEN v ELSE f[k]]

NewRing ==
    [gen        |-> 0,
     sendSecret |-> 0,                  (* _send_secret                     *)
     recvSecret |-> 0,                  (* _recv_secret                     *)
     send       |-> 0,                  (* _send: the key of our datagrams  *)
     recv       |-> [g \in {0} |-> 0],  (* _recv: generation -> key         *)
     expires    |-> [g \in {} |-> 0],   (* _expires: generation -> time     *)
     lastSent   |-> -1,
     window     |-> NewWindow]

(* _purge_expired *)
Purge(r, now) ==
    LET old == {g \in DOMAIN r.expires : now >= r.expires[g]}
    IN  [r EXCEPT !.expires = Without(@, old), !.recv = Without(@, old)]

(* Mutant: the generation four back keeps its slot. *)
AdvanceKeepsFourBack(r, now) ==
    [r EXCEPT !.gen        = r.gen + 1,
              !.expires    = With(@, r.gen, now + RetireAfter),
              !.sendSecret = @ + 1,
              !.recvSecret = @ + 1,
              !.send       = r.sendSecret + 1,
              !.recv       = With(@, r.gen + 1, r.recvSecret + 1)]

(* Mutant: the control round trip is left out of the retirement time.        *)
AdvanceRetiresEarly(r, now) ==
    [r EXCEPT !.gen        = r.gen + 1,
              !.expires    = Without(With(@, r.gen, now + RetireAfter - 1), {r.gen - 3}),
              !.sendSecret = @ + 1,
              !.recvSecret = @ + 1,
              !.send       = r.sendSecret + 1,
              !.recv       = With(Without(@, {r.gen - 3}), r.gen + 1, r.recvSecret + 1)]

(* _advance: retire the current generation, give up the one whose tag the    *)
(* next one takes, ratchet both secrets.                                     *)
Advance(r, now) ==
    [r EXCEPT !.gen        = r.gen + 1,
              !.expires    = Without(With(@, r.gen, now + RetireAfter), {r.gen - 3}),
              !.sendSecret = @ + 1,
              !.recvSecret = @ + 1,
              !.send       = r.sendSecret + 1,
              !.recv       = With(Without(@, {r.gen - 3}), r.gen + 1, r.recvSecret + 1)]

(* rotation_ready(): no older generation is alive. *)
Ready(r, now) == Cardinality(DOMAIN Purge(r, now).recv) = 1

RotateNext(r, now) ==
    LET s == Purge(r, now)
    IN  IF Cardinality(DOMAIN s.recv) # 1 THEN s ELSE Advance(s, now)

RotateTo(r, g, now) ==
    LET s == Purge(r, now)
    IN  IF g # s.gen + 1 THEN s ELSE Advance(s, now)

-----------------------------------------------------------------------------
(* Datagrams: whether the header is well formed and names this session, its  *)
(* tag and number, and the key the rest is sealed under.                     *)

CanSeal(r, seq) == seq > r.lastSent /\ seq \in Seqs

Datagram(r, seq) == [ours |-> TRUE, seq |-> seq, tag |-> Tag(r.gen), key |-> r.send]

Seal(r, seq) == [r EXCEPT !.lastSent = seq]

LiveFor(r, tag) == {g \in DOMAIN r.recv : Tag(g) = tag}

(* live[0]: generations enter the dictionary in ascending order.             *)
Named(r, tag) == CHOOSE g \in LiveFor(r, tag) : \A h \in LiveFor(r, tag) : g <= h

(* Mutant: the key of the current generation, whatever the tag.              *)
VerdictIgnoresTag(r, dg, now) ==
    LET s == Purge(r, now)
    IN  IF ~dg.ours THEN "wrong_session"
        ELSE IF ~Check(s.window, dg.seq) THEN "replay"
        ELSE IF s.recv[s.gen] # dg.key THEN "auth" ELSE "ok"

(* open_(): why the datagram is rejected, or "ok"; exactly one key is tried. *)
Verdict(r, dg, now) ==
    LET s == Purge(r, now)
    IN  IF ~dg.ours THEN "wrong_session"
        ELSE IF LiveFor(s, dg.tag) = {} THEN "no_key"
        ELSE IF ~Check(s.window, dg.seq) THEN "replay"
        ELSE IF s.recv[Named(s, dg.tag)] # dg.key THEN "auth"
        ELSE "ok"

(* open_(): the ring afterwards.  Only a verified datagram moves the window. *)
Open(r, dg, now) ==
    LET s == Purge(r, now)
    IN  CASE Verdict(r, dg, now) = "wrong_session" -> r
          [] Verdict(r, dg, now) = "ok" -> [s EXCEPT !.window = Accept(@, dg.seq)]
          [] OTHER -> s

-----------------------------------------------------------------------------
(* The shape of a ring. *)
Fields == {"gen", "sendSecret", "recvSecret", "send", "recv", "expires", "lastSent",
           "window"}

IsRing(r) ==
    /\ r = [f \in Fields |-> r[f]]
    /\ r.gen \in Nat /\ r.sendSecret \in Nat /\ r.recvSecret \in Nat /\ r.send \in Nat
    /\ \A g \in DOMAIN r.recv : g \in Nat /\ r.recv[g] \in Nat
    /\ \A g \in DOMAIN r.expires : g \in Nat /\ r.expires[g] \in Nat
    /\ r.lastSent \in Seqs \cup {-1} /\ r.window \in Windows

=============================================================================
