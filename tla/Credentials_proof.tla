------------------------- MODULE Credentials_proof --------------------------
(***************************************************************************)
(* What a device proves itself with, and how.                              *)
(*                                                                         *)
(* The application directory, for any number of programs, starts, friends  *)
(* and changes, and whatever fails or crashes: one identity, a store that  *)
(* is whole at every moment, and friends that stay.                        *)
(*                                                                         *)
(* The channel, for any payloads and any number of messages: a caller      *)
(* returns only when it was accepted, calls run only between pinned keys,  *)
(* voice keys are handed out once, to calls only, and recv() returns the   *)
(* frames the peer sent, in order, losing none while the channel stands.   *)
(***************************************************************************)
EXTENDS Credentials, SequenceTheorems, WellFoundedInduction, TLAPS

(* The program that created the key file and has not ended is its only       *)
(* owner; no other program removes or fills it, unless one that may not      *)
(* create a key file removes the one that is there.                          *)
Saving == {"write_key", "create_cert", "write_cert", "undo"}

KeyHasOwner ==
    "denied" \notin Faults =>
    \A p \in Programs : pc[p] \in Saving => key # NoFile /\ key.id = Mine(p)

(* A certificate file, once there, is never removed, so it names the one     *)
(* identity that can be loaded.                                              *)
CertDecides ==
    /\ \A p \in Programs : pc[p] = "write_cert" => crt # NoFile
    /\ \A a \in loaded : crt # NoFile /\ a = crt.id

(* Who is still saving has not written its certificate, so whoever removes   *)
(* its key leaves no complete identity behind.                               *)
CertOfOwner ==
    \A p \in Programs :
        /\ \A n \in Int : n > runs[p] => crt.id # <<p, n>>
        /\ pc[p] \in {"start", "new", "create_key", "write_key", "create_cert"} =>
              crt.id # Mine(p)
        /\ pc[p] = "write_cert" => crt.id = Mine(p) /\ ~crt.whole
        /\ pc[p] = "undo" => crt.id # Mine(p) \/ ~crt.whole

IdentityInv == IdentityTypeOK /\ KeyHasOwner /\ CertDecides /\ CertOfOwner

LEMMA NobodyIsNoId == NoFile \notin Files
<1>1. "nobody" \notin Programs
      BY FilesAssumption
<1>2. QED BY <1>1 DEF NoFile, Files, Ids

LEMMA IdentityInvInit == IdentityInit => IdentityInv
<1> SUFFICES ASSUME IdentityInit PROVE IdentityInv
    OBVIOUS
<1>1. 1 \in 1..MaxRuns
      BY FilesAssumption
<1>2. IdentityTypeOK
      BY <1>1 DEF IdentityInit, IdentityTypeOK, Ended
<1>3. CertOfOwner
      BY FilesAssumption DEF IdentityInit, CertOfOwner, NoFile, Mine
<1>4. QED BY <1>2, <1>3 DEF IdentityInit, IdentityInv, KeyHasOwner, CertDecides, Saving

(* What a whole file and a new one are. *)
LEMMA Filled ==
    ASSUME NEW f \in Files
    PROVE  /\ [f EXCEPT !.whole = TRUE] \in Files
           /\ [f EXCEPT !.whole = TRUE] # NoFile
           /\ [f EXCEPT !.whole = TRUE].id = f.id
BY DEF Files, NoFile

LEMMA Created ==
    ASSUME IdentityTypeOK, NEW p \in Programs
    PROVE  /\ Mine(p) \in Ids
           /\ [id |-> Mine(p), whole |-> FALSE] \in Files
           /\ [id |-> Mine(p), whole |-> FALSE] # NoFile
<1>1. Mine(p) \in Ids
      BY DEF IdentityTypeOK, Mine, Ids
<1>2. [id |-> Mine(p), whole |-> FALSE] \in Files
      BY <1>1 DEF Files
<1>3. [id |-> Mine(p), whole |-> FALSE] # NoFile
      BY <1>2, NobodyIsNoId
<1>4. QED BY <1>1, <1>2, <1>3

LEMMA IdentityTypeStep ==
    ASSUME IdentityInv, NEW p \in Programs, Step(p)
    PROVE  IdentityTypeOK'
<1> USE DEF IdentityTypeOK, At, Ended
<1>0. IdentityTypeOK
      BY DEF IdentityInv
<1>1. CASE LooksForKey(p) \/ LooksForCert(p) \/ Undo(p) \/ Crash(p) \/ WriteCertFails(p)
      BY <1>0, <1>1 DEF LooksForKey, LooksForCert, Undo, Crash, WriteCertFails
<1>2. CASE CreateKey(p)
      BY <1>0, <1>2, Created DEF CreateKey
<1>3. CASE WriteKey(p) \/ CreateKeyRefused(p)
  <2>1. key.id = Mine(p) => key \in Files
        BY <1>0, FilesAssumption DEF NoFile, Mine
  <2>2. key' \in Files \cup {NoFile}
        BY <1>0, <1>3, <2>1, Filled DEF WriteKey, CreateKeyRefused
  <2>3. QED BY <1>0, <1>3, <2>2 DEF WriteKey, CreateKeyRefused
<1>4. CASE WriteKeyFails(p)
      BY <1>0, <1>4 DEF WriteKeyFails
<1>5. CASE CreateCert(p)
      BY <1>0, <1>5, Created DEF CreateCert
<1>6. CASE WriteCert(p)
  <2>1. crt \in Files
        BY <1>0, <1>6 DEF WriteCert, IdentityInv, CertDecides
  <2>2. crt' \in Files
        BY <1>6, <2>1, Filled DEF WriteCert
  <2>3. QED BY <1>0, <1>6, <2>2 DEF WriteCert
<1>7. CASE LoadKey(p)
      BY <1>0, <1>7 DEF LoadKey
<1>8. CASE LoadCert(p)
  <2>1. readKey[p] \in Files
        BY <1>0, <1>8 DEF LoadCert
  <2>2. readKey[p].id \in Ids
        BY <2>1 DEF Files
  <2>3. QED BY <1>0, <1>8, <2>2 DEF LoadCert
<1>9. CASE Restart(p)
  <2>1. runs[p] + 1 \in 1..MaxRuns
        BY <1>0, <1>9, FilesAssumption DEF Restart
  <2>2. QED BY <1>0, <1>9, <2>1 DEF Restart
<1>10. QED BY <1>1, <1>2, <1>3, <1>4, <1>5, <1>6, <1>7, <1>8, <1>9 DEF Step

LEMMA OwnerStep ==
    ASSUME IdentityInv, NEW p \in Programs, Step(p)
    PROVE  KeyHasOwner'
<1> SUFFICES ASSUME "denied" \notin Faults PROVE KeyHasOwner'
    BY DEF KeyHasOwner
<1> USE DEF KeyHasOwner, Saving, At, Mine
<1>0. IdentityTypeOK /\ KeyHasOwner
      BY DEF IdentityInv
(* Two owners would have given the file one name. *)
<1>a. ASSUME NEW q \in Programs, pc[p] \in Saving, pc[q] \in Saving PROVE p = q
      BY <1>0, <1>a
<1>1. CASE LooksForKey(p) \/ LooksForCert(p) \/ Crash(p) \/ WriteCertFails(p)
           \/ CreateCert(p) \/ WriteCert(p) \/ LoadKey(p) \/ LoadCert(p)
  <2>1. UNCHANGED <<key, runs>> /\ \E s : pc' = [pc EXCEPT ![p] = s]
                                          /\ (s \in Saving => pc[p] \in Saving)
        BY <1>1 DEF LooksForKey, LooksForCert, Crash, WriteCertFails, CreateCert,
                    WriteCert, LoadKey, LoadCert
  <2>2. QED BY <1>0, <2>1 DEF IdentityTypeOK
<1>2. CASE CreateKey(p)
  <2>1. CASE key = NoFile
    <3>1. key' = [id |-> Mine(p), whole |-> FALSE] /\ UNCHANGED runs
          BY <1>2, <2>1 DEF CreateKey
    <3>2. key' # NoFile /\ key'.id = Mine(p)'
          BY <1>0, <3>1, Created
    <3>3. \A q \in Programs : pc[q] \notin Saving
          BY <1>0, <2>1
    <3>4. QED BY <1>0, <1>2, <2>1, <3>2, <3>3 DEF CreateKey, IdentityTypeOK
  <2>2. CASE key # NoFile
        BY <1>0, <1>2, <2>2 DEF CreateKey, IdentityTypeOK
  <2>3. QED BY <2>1, <2>2
<1>3. CASE WriteKey(p)
  <2>1. key \in Files
        BY <1>0, <1>3 DEF WriteKey, IdentityTypeOK
  <2>2. key' # NoFile /\ key'.id = key.id
        BY <1>3, <2>1, Filled, NobodyIsNoId DEF WriteKey
  <2>3. QED BY <1>0, <1>3, <2>2 DEF WriteKey, IdentityTypeOK
<1>4. CASE WriteKeyFails(p) \/ Undo(p)
  <2>1. pc[p] \in Saving /\ UNCHANGED runs /\ pc' = [pc EXCEPT ![p] = "failed"]
        BY <1>4 DEF WriteKeyFails, Undo
  <2>2. \A q \in Programs : pc'[q] \notin Saving
        BY <1>0, <1>a, <2>1 DEF IdentityTypeOK
  <2>3. QED BY <2>2
<1>5. CASE Restart(p)
  <2>1. pc[p] \in Ended /\ UNCHANGED key /\ pc' = [pc EXCEPT ![p] = "start"]
        /\ runs' = [runs EXCEPT ![p] = @ + 1]
        BY <1>5 DEF Restart
  <2>2. ASSUME NEW q \in Programs, pc'[q] \in Saving
        PROVE  q # p /\ pc[q] \in Saving /\ runs'[q] = runs[q]
        BY <1>0, <2>1, <2>2 DEF IdentityTypeOK
  <2>3. QED BY <1>0, <2>1, <2>2
<1>6. QED BY <1>1, <1>2, <1>3, <1>4, <1>5 DEF Step, CreateKeyRefused

(* The certificate file stays, and keeps its name. *)
LEMMA CertStays ==
    ASSUME IdentityInv, NEW p \in Programs, Step(p), crt # NoFile
    PROVE  crt' # NoFile /\ crt'.id = crt.id
<1>0. crt \in Files
      BY DEF IdentityInv, IdentityTypeOK
<1>1. CASE WriteCert(p)
      BY <1>0, <1>1, Filled DEF WriteCert
<1>2. CASE ~WriteCert(p)
  <2>1. UNCHANGED crt
        BY <1>2 DEF Step, LooksForKey, LooksForCert, CreateKey, CreateKeyRefused, WriteKey, WriteKeyFails,
                    CreateCert, WriteCertFails, Undo, LoadKey, LoadCert, Crash, Restart
  <2>2. QED BY <2>1
<1>3. QED BY <1>1, <1>2

LEMMA CertStep ==
    ASSUME IdentityInv, NEW p \in Programs, Step(p)
    PROVE  CertDecides'
<1>0. IdentityTypeOK /\ CertDecides
      BY DEF IdentityInv
<1>1. ASSUME NEW q \in Programs, pc'[q] = "write_cert" PROVE crt' # NoFile
  <2>1. CASE crt # NoFile
        BY <2>1, CertStays
  <2>2. CASE CreateCert(p) /\ crt = NoFile
        BY <1>0, <2>2, Created DEF CreateCert
  <2>3. CASE ~CreateCert(p)
    <3>1. \E s : pc' = [pc EXCEPT ![p] = s] /\ s # "write_cert"
          BY <2>3 DEF Step, At, LooksForKey, LooksForCert, CreateKey, CreateKeyRefused, WriteKey, WriteKeyFails,
                      WriteCert, WriteCertFails, Undo, LoadKey, LoadCert, Crash, Restart
    <3>2. pc[q] = "write_cert"
          BY <1>0, <1>1, <3>1 DEF IdentityTypeOK
    <3>3. QED BY <1>0, <3>2, CertStays DEF CertDecides
  <2>4. QED BY <2>1, <2>2, <2>3
<1>2. ASSUME NEW a \in loaded' PROVE crt' # NoFile /\ a = crt'.id
  <2>1. CASE a \in loaded
        BY <1>0, <2>1, CertStays DEF CertDecides
  <2>2. CASE a \notin loaded
    <3>1. loaded' # loaded
          BY <1>2, <2>2
    <3>2. LoadCert(p) /\ loaded' = loaded \cup {readKey[p].id}
          BY <3>1 DEF Step, LooksForKey, LooksForCert, CreateKey, CreateKeyRefused, WriteKey, WriteKeyFails,
                      CreateCert, WriteCert, WriteCertFails, Undo, LoadKey, LoadCert,
                      Crash, Restart
    <3>3. crt # NoFile /\ readKey[p].id = crt.id /\ UNCHANGED crt
          BY <3>1, <3>2 DEF LoadCert, Fits
    <3>4. QED BY <1>2, <2>2, <3>2, <3>3
  <2>3. QED BY <2>1, <2>2
<1>3. QED BY <1>1, <1>2 DEF CertDecides

LEMMA CertOfOwnerStep ==
    ASSUME IdentityInv, NEW p \in Programs, Step(p)
    PROVE  CertOfOwner'
<1> USE DEF CertOfOwner, At, Mine
<1>0. IdentityTypeOK /\ CertOfOwner
      BY DEF IdentityInv
<1>1. CASE UNCHANGED <<crt, runs>> /\ ~CreateCert(p)
  <2>1. PICK s : /\ pc' = [pc EXCEPT ![p] = s]
                 /\ s \in {"new", "create_key", "write_key", "create_cert"} =>
                       pc[p] \in {"start", "new", "create_key", "write_key"}
                 /\ s = "undo" => pc[p] = "write_cert"
                 /\ s \notin {"start", "write_cert"}
        BY <1>0, <1>1 DEF IdentityTypeOK, Step, LooksForKey, LooksForCert, CreateKey, CreateKeyRefused, WriteKey, WriteKeyFails,
                    WriteCert, WriteCertFails, Undo, LoadKey, LoadCert, Crash, Restart
  <2>2. QED BY <1>0, <1>1, <2>1 DEF IdentityTypeOK
<1>2. CASE CreateCert(p)
  <2>1. CASE crt = NoFile
    <3>1. crt'.id = <<p, runs[p]>> /\ crt'.whole = FALSE /\ UNCHANGED runs
          BY <1>2, <2>1 DEF CreateCert
    <3>2. pc' = [pc EXCEPT ![p] = "write_cert"]
          BY <1>2, <2>1 DEF CreateCert
    <3>3. runs[p] \in Int
          BY <1>0 DEF IdentityTypeOK
    <3>4. \A q \in Programs : pc[q] # "write_cert"
          BY <2>1 DEF IdentityInv, CertDecides
    <3>5. QED BY <1>0, <3>1, <3>2, <3>3, <3>4 DEF IdentityTypeOK
  <2>2. CASE crt # NoFile
        BY <1>0, <1>2, <2>2 DEF CreateCert, IdentityTypeOK
  <2>3. QED BY <2>1, <2>2
<1>3. CASE WriteCert(p)
  <2>1. crt'.id = crt.id /\ UNCHANGED runs /\ pc' = [pc EXCEPT ![p] = "load_key"]
        BY <1>0, <1>3, Filled DEF WriteCert, IdentityInv, CertDecides, IdentityTypeOK
  <2>2. crt.id = <<p, runs[p]>>
        BY <1>0, <1>3 DEF WriteCert
  <2>3. QED BY <1>0, <2>1, <2>2 DEF IdentityTypeOK
<1>4. CASE Restart(p)
  <2>1. /\ UNCHANGED crt /\ pc' = [pc EXCEPT ![p] = "start"]
        /\ runs' = [runs EXCEPT ![p] = @ + 1]
        BY <1>4 DEF Restart
  <2>2. runs[p] \in Int /\ runs'[p] = runs[p] + 1
        BY <1>0, <2>1 DEF IdentityTypeOK
  <2>3. ASSUME NEW n \in Int, n >= runs'[p] PROVE crt.id # <<p, n>>
        BY <1>0, <2>2, <2>3
  <2>4. QED BY <1>0, <2>1, <2>2, <2>3 DEF IdentityTypeOK
<1>5. QED BY <1>1, <1>2, <1>3, <1>4
          DEF Step, LooksForKey, LooksForCert, CreateKey, CreateKeyRefused, WriteKey, WriteKeyFails,
              WriteCertFails, Undo, LoadKey, LoadCert, Crash

LEMMA IdentityInvStep ==
    ASSUME IdentityInv, NEW p \in Programs, Step(p)
    PROVE  IdentityInv'
BY IdentityTypeStep, OwnerStep, CertStep, CertOfOwnerStep DEF IdentityInv

(* A complete identity is nobody's to change. *)
LEMMA CompleteStep ==
    ASSUME "denied" \notin Faults, IdentityInv, Complete, NEW p \in Programs, Step(p)
    PROVE  UNCHANGED <<key, crt>>
<1>0. /\ key \in Files /\ crt \in Files
      /\ key.whole /\ crt.whole /\ key.id = crt.id
      BY NobodyIsNoId DEF IdentityInv, IdentityTypeOK, Complete, NoFile
<1>1. key # NoFile /\ crt # NoFile
      BY <1>0, NobodyIsNoId
<1>2. ~(pc[p] \in Saving)
      BY <1>0 DEF IdentityInv, KeyHasOwner, CertOfOwner, Saving
<1>3. QED BY <1>1, <1>2 DEF Saving, At, Step, LooksForKey, LooksForCert, CreateKey, CreateKeyRefused, WriteKey,
                            WriteKeyFails, CreateCert, WriteCert, WriteCertFails, Undo,
                            LoadKey, LoadCert, Crash, Restart

-----------------------------------------------------------------------------
(* The store.  While operations do not overlap, the one that runs has read   *)
(* what is in the file, and no friend it removes counts as paired.           *)
AloneInStore ==
    /\ \A p, q \in Programs : storePc[p] # "idle" /\ storePc[q] # "idle" => p = q
    /\ \A p \in Programs :
          /\ storePc[p] \in {"create_temp", "fill_temp", "replace"} => read[p] = file.friends
          /\ storePc[p] # "idle" /\ op[p].do # "add" => op[p].friend \notin paired

(* What replaces the file has been written and synced. *)
WholeReplaces ==
    /\ file.whole
    /\ \A p \in Programs : storePc[p] = "replace" => temp[p] = "whole"

StoreInv ==
    /\ Store!TypeOK /\ WholeReplaces /\ Store!PairedStays
    /\ ~overlap => AloneInStore

LEMMA StoreInvInit == Store!Init => StoreInv
<1> SUFFICES ASSUME Store!Init PROVE StoreInv
    OBVIOUS
<1>1. begun \in 0..MaxWrites
      BY StoreAssumption DEF Store!Init
<1>2. Store!TypeOK
      BY <1>1 DEF Store!Init, Store!TypeOK
<1>3. WholeReplaces /\ Store!PairedStays
      BY DEF Store!Init, WholeReplaces, Store!PairedStays
<1>4. AloneInStore
      BY DEF Store!Init, AloneInStore
<1>5. QED BY <1>2, <1>3, <1>4 DEF StoreInv

LEMMA StoreTypeStep ==
    ASSUME Store!TypeOK, NEW p \in Programs, Store!Step(p) \/ Store!Crash(p)
    PROVE  Store!TypeOK'
<1> USE DEF Store!TypeOK, Store!Ends, Store!Ops
<1>1. CASE Store!Begin(p)
  <2>1. begun + 1 \in 0..MaxWrites
        BY <1>1, StoreAssumption DEF Store!Begin
  <2>2. PICK o \in Store!Ops :
            /\ op' = [op EXCEPT ![p] = o]
            /\ paired' = IF o.do = "remove" THEN paired \ {o.friend} ELSE paired
        BY <1>1 DEF Store!Begin
  <2>3. overlap' \in BOOLEAN
        BY <1>1 DEF Store!Begin
  <2>4. QED BY <1>1, <2>1, <2>2, <2>3 DEF Store!Begin
<1>2. CASE Store!ReadStore(p)
      BY <1>2 DEF Store!ReadStore
<1>3. CASE Store!CreateTemp(p) \/ Store!FillTemp(p)
      BY <1>3 DEF Store!CreateTemp, Store!FillTemp
<1>4. CASE Store!Replace(p)
  <2>1. op[p].do = "add" => op[p].friend \in Friends
        BY DEF Store!NoOp
  <2>2. Store!NewFriends(p) \in SUBSET Friends
        BY <2>1 DEF Store!NewFriends
  <2>3. file' \in [friends : SUBSET Friends, whole : BOOLEAN]
        BY <1>4, <2>2 DEF Store!Replace
  <2>4. paired' \subseteq Friends
        BY <1>4, <2>1 DEF Store!Replace, Store!Returns
  <2>5. QED BY <1>4, <2>3, <2>4 DEF Store!Replace, Store!Returns
<1>5. CASE Store!WriteFails(p) \/ Store!Crash(p)
      BY <1>5 DEF Store!WriteFails, Store!Crash
<1>6. QED BY <1>1, <1>2, <1>3, <1>4, <1>5 DEF Store!Step

LEMMA WholeStep ==
    ASSUME Store!TypeOK, WholeReplaces, NEW p \in Programs, Store!Step(p) \/ Store!Crash(p)
    PROVE  WholeReplaces'
<1> USE DEF Store!TypeOK, Store!Ends, WholeReplaces
<1>1. CASE Store!Begin(p) \/ Store!ReadStore(p) \/ Store!CreateTemp(p) \/ Store!FillTemp(p)
      BY <1>1 DEF Store!Begin, Store!ReadStore, Store!CreateTemp, Store!FillTemp
<1>2. CASE Store!Replace(p)
      BY <1>2 DEF Store!Replace, Store!Returns
<1>3. CASE Store!WriteFails(p) \/ Store!Crash(p)
      BY <1>3 DEF Store!WriteFails, Store!Crash
<1>4. QED BY <1>1, <1>2, <1>3 DEF Store!Step

LEMMA PairedStep ==
    ASSUME StoreInv, NEW p \in Programs, Store!Step(p) \/ Store!Crash(p), ~overlap'
    PROVE  AloneInStore' /\ (paired \subseteq file.friends)'
<1> USE DEF Store!TypeOK, Store!Ends, AloneInStore
<1>0. Store!TypeOK
      BY DEF StoreInv
<1>1. ~overlap
      BY DEF Store!Step, Store!Begin, Store!ReadStore, Store!CreateTemp, Store!FillTemp,
             Store!Replace, Store!WriteFails, Store!Crash
<1>2. AloneInStore /\ paired \subseteq file.friends
      BY <1>1 DEF StoreInv, Store!PairedStays
<1>3. CASE Store!Begin(p)
  <2>1. \A q \in Programs : storePc[q] = "idle"
        BY <1>3 DEF Store!Begin
  <2>2. PICK o \in Store!Ops :
            /\ op' = [op EXCEPT ![p] = o]
            /\ paired' = IF o.do = "remove" THEN paired \ {o.friend} ELSE paired
        BY <1>3 DEF Store!Begin
  <2>3. storePc' = [storePc EXCEPT ![p] = "read"] /\ UNCHANGED <<file, read>>
        BY <1>3 DEF Store!Begin
  <2>4. \A q \in Programs : storePc'[q] # "idle" => q = p
        BY <1>0, <2>1, <2>3
  <2>5. op'[p] = o /\ o.do \in {"add", "remove"} /\ storePc'[p] = "read"
        BY <1>0, <2>2, <2>3 DEF Store!Ops
  <2>6. paired' \subseteq paired /\ (o.do # "add" => o.friend \notin paired')
        BY <2>2, <2>5
  <2>7. QED BY <1>2, <2>3, <2>4, <2>5, <2>6
<1>4. CASE Store!ReadStore(p)
      BY <1>0, <1>2, <1>4 DEF Store!ReadStore
<1>5. CASE Store!CreateTemp(p) \/ Store!FillTemp(p)
      BY <1>0, <1>2, <1>5 DEF Store!CreateTemp, Store!FillTemp
<1>6. CASE Store!Replace(p)
  <2>1. /\ read[p] = file.friends /\ file'.friends = Store!NewFriends(p)
        /\ op[p].do # "add" => op[p].friend \notin paired
        BY <1>2, <1>6 DEF Store!Replace
  <2>2. paired' = IF op[p].do = "add" THEN paired \cup {op[p].friend} ELSE paired
        BY <1>6 DEF Store!Replace, Store!Returns
  <2>3. (paired \subseteq file.friends)'
    <3>1. CASE op[p].do = "add"
          BY <1>2, <2>1, <2>2, <3>1 DEF Store!NewFriends
    <3>2. CASE op[p].do # "add"
      <4>1. paired' = paired /\ file'.friends = file.friends \ {op[p].friend}
            BY <2>1, <2>2, <3>2 DEF Store!NewFriends
      <4>2. QED BY <1>2, <2>1, <3>2, <4>1
    <3>3. QED BY <3>1, <3>2
  <2>4. \A q \in Programs : storePc'[q] = "idle"
        BY <1>0, <1>2, <1>6 DEF Store!Replace, Store!Returns
  <2>5. QED BY <2>3, <2>4
<1>7. CASE Store!WriteFails(p) \/ Store!Crash(p)
      BY <1>0, <1>2, <1>7 DEF Store!WriteFails, Store!Crash
<1>8. QED BY <1>3, <1>4, <1>5, <1>6, <1>7 DEF Store!Step

LEMMA StoreInvStep ==
    ASSUME StoreInv, NEW p \in Programs, Store!Step(p) \/ Store!Crash(p)
    PROVE  StoreInv'
<1>1. Store!TypeOK' /\ WholeReplaces'
      BY StoreTypeStep, WholeStep DEF StoreInv
<1>2. ~overlap' => AloneInStore' /\ (paired \subseteq file.friends)'
      BY PairedStep
<1>3. QED BY <1>1, <1>2 DEF StoreInv, Store!PairedStays

-----------------------------------------------------------------------------
FilesInv == IdentityInv /\ StoreInv

LEMMA FilesInvInit == FilesInit => FilesInv
BY IdentityInvInit, StoreInvInit DEF FilesInit, FilesInv

LEMMA IdentityUntouched ==
    ASSUME IdentityInv, UNCHANGED identityVars
    PROVE  IdentityInv'
BY DEF IdentityInv, IdentityTypeOK, KeyHasOwner, CertDecides, CertOfOwner, identityVars, Mine

LEMMA StoreUntouched ==
    ASSUME StoreInv, UNCHANGED storeVars
    PROVE  StoreInv'
BY DEF StoreInv, Store!TypeOK, WholeReplaces, Store!PairedStays, AloneInStore, storeVars

LEMMA FilesInvStep == FilesInv /\ [FilesNext]_filesVars => FilesInv'
<1> SUFFICES ASSUME FilesInv, [FilesNext]_filesVars PROVE FilesInv'
    OBVIOUS
<1>0. IdentityInv /\ StoreInv
      BY DEF FilesInv
<1>1. ASSUME NEW p \in Programs, UsesIdentity(p) PROVE FilesInv'
      BY <1>0, <1>1, IdentityInvStep, StoreUntouched DEF UsesIdentity, FilesInv
<1>2. ASSUME NEW p \in Programs, UsesStore(p) PROVE FilesInv'
      BY <1>0, <1>2, StoreInvStep, IdentityUntouched DEF UsesStore, FilesInv
<1>3. ASSUME NEW p \in Programs, CrashesInStore(p) PROVE FilesInv'
  <2>1. StoreInv'
        BY <1>0, <1>3, StoreInvStep DEF CrashesInStore
  <2>2. IdentityInv'
        BY <1>0, <1>3 DEF CrashesInStore, IdentityInv, IdentityTypeOK, KeyHasOwner,
                          CertDecides, CertOfOwner, Saving, Ended, Mine
  <2>3. QED BY <2>1, <2>2 DEF FilesInv
<1>4. CASE AllOver /\ UNCHANGED storeVars
      BY <1>0, <1>4, IdentityUntouched, StoreUntouched DEF AllOver, FilesInv
<1>5. CASE UNCHANGED filesVars
  <2>1. UNCHANGED identityVars /\ UNCHANGED storeVars
        BY <1>5 DEF filesVars
  <2>2. QED BY <1>0, <2>1, IdentityUntouched, StoreUntouched DEF FilesInv
<1>6. QED BY <1>1, <1>2, <1>3, <1>4, <1>5 DEF FilesNext

LEMMA FilesInvAlways == FilesSpec => []FilesInv
BY FilesInvInit, FilesInvStep, PTL DEF FilesSpec

(* However many programs race to create the identity, fail or crash, none    *)
(* ever uses another identity than the rest (identity.py:51, 158).           *)
THEOREM NobodyUsesAnother == FilesSpec => []OneIdentity
<1>1. FilesInv => OneIdentity
      BY DEF FilesInv, IdentityInv, CertDecides, OneIdentity
<1>2. QED BY <1>1, FilesInvAlways, PTL

(* A complete identity is never removed or changed, also not by a program    *)
(* that began to create one before it was there (identity.py:124-132), as    *)
(* long as the system lets the programs create files.                        *)
THEOREM CompleteIsFinal ==
    ASSUME "denied" \notin Faults
    PROVE  FilesSpec => CompleteIdentityStays
<1>1. FilesInv /\ [FilesNext]_filesVars => [Complete => UNCHANGED <<key, crt>>]_identityVars
  <2>1. SUFFICES ASSUME IdentityInv, Complete, [FilesNext]_filesVars
                 PROVE  UNCHANGED <<key, crt>> \/ UNCHANGED identityVars
        BY DEF FilesInv
  <2>2. CASE \E p \in Programs : UsesIdentity(p)
        BY <2>1, <2>2, CompleteStep DEF UsesIdentity
  <2>3. CASE \E p \in Programs : UsesStore(p) \/ CrashesInStore(p)
        BY <2>3 DEF UsesStore, CrashesInStore, identityVars
  <2>4. QED BY <2>1, <2>2, <2>3 DEF FilesNext, filesVars, identityVars, AllOver
<1>2. QED BY <1>1, FilesInvAlways, PTL DEF FilesSpec, CompleteIdentityStays

(* The file anyone reads is whole, after any failed write or crash           *)
(* (trust.py:98-118).                                                        *)
THEOREM StoreIsWhole == FilesSpec => []StoreAlwaysWhole
<1>1. FilesInv => StoreAlwaysWhole
      BY DEF FilesInv, StoreInv, WholeReplaces, StoreAlwaysWhole, Store!StoreAlwaysWhole
<1>2. QED BY <1>1, FilesInvAlways, PTL

(* A friend stays until it is forgotten, as long as no two operations        *)
(* overlap (PROTOCOL-v2.md 4b; trust.py:84, 92, 112).                        *)
THEOREM FriendsStay == FilesSpec => []PairedStays
<1>1. FilesInv => PairedStays
      BY DEF FilesInv, StoreInv, PairedStays
<1>2. QED BY <1>1, FilesInvAlways, PTL

-----------------------------------------------------------------------------
(* The channel. *)

Unit == [kind : {"hello", "flight", "finished", "alert", "bye", "v1", "data"}, val : Nat]

WireOK == wire \in [Ends -> Seq(Unit)]

NoData(s) == \A i \in 1..Len(s) : s[i].kind # "data"

(* Nothing the client could take for READY is sent before the server is done. *)
ReadyIsLast == ~Up("server") => NoData(wire["client"])

(* What an end that got this far has checked. *)
Checked ==
    /\ cfg \in Configs
    /\ phase["client"] \in {"awaiting", "up"} =>
          mode["client"] = cfg.offer /\ Verified("client")
    /\ phase["server"] = "up" =>
          mode["server"] = cfg.offer /\ Verified("server") /\ CallAllowed("server", cfg.offer)
    /\ Up("client") => Up("server")

(* Keys exist on a call's channel that is up, until they are taken. *)
KeysOnce ==
    /\ \A e \in Ends : keys[e] # "none" => Up(e) /\ mode[e] = ALPN
    /\ \A e \in Ends : handed[e] = IF keys[e] = "taken" THEN 1 ELSE 0

CInv == TypeOK /\ WireOK /\ ReadyIsLast /\ Checked /\ KeysOnce

LEMMA CInvInit == Init => CInv
<1> SUFFICES ASSUME Init PROVE CInv
    OBVIOUS
<1>1. TypeOK
      BY DEF Init, TypeOK, Ends
<1>2. WireOK /\ ReadyIsLast
      BY DEF Init, WireOK, ReadyIsLast, NoData, Ends
<1>3. Checked
      BY DEF Init, Checked, Up, Ends
<1>4. KeysOnce
      BY DEF Init, KeysOnce, Ends
<1>5. QED BY <1>1, <1>2, <1>3, <1>4 DEF CInv

-----------------------------------------------------------------------------
(* Types. *)

LEMMA Others ==
    /\ Other("client") = "server" /\ Other("server") = "client"
    /\ \A e \in Ends : Other(e) \in Ends /\ Other(e) # e
BY DEF Other, Ends

LEMMA Units ==
    /\ \A a \in Nat : Hello(a) \in Unit /\ Flight(a) \in Unit
    /\ Finished \in Unit /\ Alert \in Unit /\ CloseNotify \in Unit /\ V1Record \in Unit
BY DEF Unit, Hello, Flight, Finished, Alert, CloseNotify, V1Record

LEMMA DataUnits ==
    ASSUME NEW bytes \in Seq(Nat)
    PROVE  Data(bytes) \in Seq(Unit) /\ Len(Data(bytes)) = Len(bytes)
<1>1. \A i \in 1..Len(bytes) : [kind |-> "data", val |-> bytes[i]] \in Unit
      BY DEF Unit
<1>2. Data(bytes) = [i \in 1..Len(bytes) |-> [kind |-> "data", val |-> bytes[i]]]
      BY DEF Data
<1>3. QED BY <1>1, <1>2

LEMMA Frames ==
    ASSUME NEW p \in Payloads
    PROVE  Frame(p) \in Seq(Nat)
<1>1. p \in Seq(0..255) /\ 0..255 \subseteq Nat
      BY ChannelAssumption
<1>2. p \in Seq(Nat)
      BY <1>1, SeqMonotonic
<1>3. QED BY <1>2 DEF Frame

LEMMA ReadyUnits == Data(READY) \in Seq(Unit)
<1>1. READY \in Seq(Nat)
      BY DEF READY
<1>2. QED BY <1>1, DataUnits

(* What is cut off, taken from or added to a wire leaves it a wire. *)
LEMMA Cuts ==
    ASSUME NEW s \in Seq(Unit), NEW m \in Nat, NEW n \in Nat, m >= 1, n <= Len(s)
    PROVE  /\ SubSeq(s, m, n) \in Seq(Unit)
           /\ NoData(s) => NoData(SubSeq(s, m, n))
BY DEF NoData

LEMMA Adds ==
    ASSUME NEW s \in Seq(Unit), NEW t \in Seq(Unit)
    PROVE  /\ s \o t \in Seq(Unit)
           /\ NoData(s) /\ NoData(t) => NoData(s \o t)
BY DEF NoData

LEMMA Tails ==
    ASSUME NEW s \in Seq(Unit), s # <<>>
    PROVE  /\ Tail(s) \in Seq(Unit) /\ Head(s) \in Unit
           /\ NoData(s) => NoData(Tail(s))
BY DEF NoData

-----------------------------------------------------------------------------
(* establish() *)

LEMMA RefuseStep ==
    ASSUME CInv, NEW e \in Ends, phase[e] # "up",
           Refuse(e, <<>>) \/ Refuse(e, <<Alert>>)
    PROVE  CInv'
<1> USE DEF Refuse, CInv
<1>1. TypeOK'
      BY DEF TypeOK, ledger, input
<1>2. WireOK' /\ ReadyIsLast'
  <2>1. PICK t \in {<<>>, <<Alert>>} :
            wire' = [wire EXCEPT ![e] = <<>>, ![Other(e)] = @ \o t]
        BY DEF Refuse
  <2>2. <<>> \in Seq(Unit) /\ t \in Seq(Unit) /\ NoData(<<>>) /\ NoData(t)
    <3>1. NoData(<<>>) /\ NoData(<<Alert>>)
          BY DEF NoData, Alert
    <3>2. <<>> \in Seq(Unit) /\ <<Alert>> \in Seq(Unit)
          BY Units
    <3>3. QED BY <2>1, <3>1, <3>2
  <2>3. /\ wire[Other(e)] \in Seq(Unit) /\ Other(e) \in Ends /\ Other(e) # e
        BY Others DEF WireOK
  <2>4. /\ wire[Other(e)] \o t \in Seq(Unit)
        /\ NoData(wire[Other(e)]) => NoData(wire[Other(e)] \o t)
        BY <2>2, <2>3, Adds
  <2>5. WireOK'
        BY <2>1, <2>2, <2>3, <2>4 DEF WireOK
  <2>6. NoData(wire["client"]) => NoData(wire'["client"])
        BY <2>1, <2>2, <2>3, <2>4 DEF WireOK, Ends
  <2>7. Up("server") = Up("server")'
        BY DEF Up, TypeOK, Ends
  <2>8. QED BY <2>5, <2>6, <2>7 DEF ReadyIsLast
<1>3. Checked'
      BY DEF Checked, TypeOK, Up, Verified, CallAllowed, AllowUnknown, Own, Peer, Other, Ends
<1>4. KeysOnce'
      BY DEF KeysOnce, TypeOK, Up, input, ledger, Ends
<1>5. QED BY <1>1, <1>2, <1>3, <1>4

LEMMA Offers == cfg \in Configs => cfg.offer \in {ALPN, PAIR_ALPN}
BY DEF Configs

LEMMA ReplyWires ==
    ASSUME WireOK, NEW e \in Ends, wire[e] # <<>>, NEW units \in Seq(Unit),
           wire' = [wire EXCEPT ![e] = Tail(@), ![Other(e)] = @ \o units]
    PROVE  /\ WireOK'
           /\ NoData(wire["client"]) /\ (e = "client" \/ NoData(units)) => NoData(wire'["client"])
<1>1. /\ wire[e] \in Seq(Unit) /\ wire[Other(e)] \in Seq(Unit)
      /\ Other(e) \in Ends /\ Other(e) # e
      BY Others DEF WireOK
<1>2. /\ Tail(wire[e]) \in Seq(Unit)
      /\ NoData(wire[e]) => NoData(Tail(wire[e]))
      BY <1>1, Tails
<1>3. /\ wire[Other(e)] \o units \in Seq(Unit)
      /\ NoData(wire[Other(e)]) /\ NoData(units) => NoData(wire[Other(e)] \o units)
      BY <1>1, Adds
<1>4. WireOK'
      BY <1>1, <1>2, <1>3 DEF WireOK
<1>5. CASE e = "client"
  <2>1. wire'["client"] = Tail(wire["client"])
        BY <1>1, <1>5, Others DEF WireOK, Ends
  <2>2. QED BY <1>2, <1>4, <1>5, <2>1
<1>6. CASE e = "server"
  <2>1. wire'["client"] = wire["client"] \o units
        BY <1>1, <1>6, Others DEF WireOK, Ends
  <2>2. QED BY <1>3, <1>4, <1>6, <2>1, Others
<1>7. QED BY <1>4, <1>5, <1>6 DEF Ends

(* The first message of each side. *)
LEMMA StartStep ==
    ASSUME CInv, NEW e \in Ends, Start(e)
    PROVE  CInv'
<1> USE DEF Start, CInv
<1>1. TypeOK'
      BY DEF TypeOK, ledger, input, Ends
<1>2. WireOK' /\ ReadyIsLast'
  <2>1. /\ V1Record \in Unit
        /\ cfg.offer \in {ALPN, PAIR_ALPN}
        BY Units, Offers DEF Checked
  <2>2. Hello(cfg.offer) \in Unit
        BY <2>1, Units DEF ALPN, PAIR_ALPN
  <2>a. \E u \in Unit : wire' = wire \/ wire' = [wire EXCEPT !.server = <<u>>]
        BY <2>1, <2>2
  <2>3. /\ wire' \in [Ends -> Seq(Unit)]
        /\ wire'["client"] = wire["client"]
    <3>1. PICK u \in Unit : wire' = wire \/ wire' = [wire EXCEPT !.server = <<u>>]
          BY <2>a
    <3>2. <<u>> \in Seq(Unit) /\ wire \in [Ends -> Seq(Unit)]
          BY <3>1 DEF WireOK
    <3>3. CASE wire' = wire
          BY <3>2, <3>3
    <3>4. CASE wire' = [wire EXCEPT !.server = <<u>>]
          BY <3>2, <3>4 DEF Ends
    <3>5. QED BY <3>1, <3>3, <3>4
  <2>4. Up("server") = Up("server")'
        BY DEF Up, TypeOK, Ends
  <2>5. QED BY <2>3, <2>4 DEF WireOK, ReadyIsLast
<1>3. Checked'
      BY DEF Checked, TypeOK, Up, Verified, CallAllowed, AllowUnknown, Own, Peer, Other, Ends
<1>4. KeysOnce'
      BY DEF KeysOnce, TypeOK, Up, input, ledger, Ends
<1>5. QED BY <1>1, <1>2, <1>3, <1>4

LEMMA ServerAnswersStep ==
    ASSUME CInv, ServerAnswers
    PROVE  CInv'
<1> DEFINE a == Head(wire["server"]).val
<1>0. /\ phase["server"] = "accepting" /\ wire["server"] # <<>> /\ "server" \in Ends
      /\ Other("server") = "client"
      BY Others DEF ServerAnswers, Reads, Ends
<1>1. CASE Refuse("server", <<Alert>>)
      BY <1>0, <1>1, RefuseStep
<1>2. CASE Reply("server", a, <<Flight(a)>>, "flight_sent") /\ UNCHANGED <<mode, keys>>
  <2>1. TypeOK'
        BY <1>2 DEF CInv, TypeOK, Reply, ledger, input
  <2>2. a \in Nat
        BY <1>0, Tails DEF CInv, WireOK, Unit
  <2>3. <<Flight(a)>> \in Seq(Unit) /\ NoData(<<Flight(a)>>)
        BY <2>2, Units DEF NoData, Flight
  <2>4. WireOK' /\ (NoData(wire["client"]) => NoData(wire'["client"]))
        BY <1>0, <1>2, <2>3, ReplyWires DEF CInv, Reply
  <2>5. ~Up("server") /\ ~Up("server")'
        BY <1>0, <1>2 DEF CInv, TypeOK, Reply, Up
  <2>6. ReadyIsLast'
        BY <2>4, <2>5 DEF CInv, ReadyIsLast
  <2>7. Checked' /\ KeysOnce'
        BY <1>0, <1>2 DEF CInv, Checked, KeysOnce, Reply, TypeOK, Up, Verified, CallAllowed, AllowUnknown, Own, Peer,
                          Other, input, ledger, Ends
  <2>8. QED BY <2>1, <2>4, <2>6, <2>7 DEF CInv
<1>3. QED BY <1>1, <1>2 DEF ServerAnswers

LEMMA ClientVerifiesStep ==
    ASSUME CInv, ClientVerifies
    PROVE  CInv'
<1>0. /\ phase["client"] = "hello_sent" /\ wire["client"] # <<>> /\ "client" \in Ends
      BY DEF ClientVerifies, Reads, Ends
<1>1. CASE Refuse("client", <<Alert>>)
      BY <1>0, <1>1, RefuseStep
<1>2. CASE /\ Verified("client")
           /\ Reply("client", 0, <<Finished>>, "awaiting")
           /\ mode' = [mode EXCEPT !.client = cfg.offer]
           /\ UNCHANGED keys
  <2>0. cfg.offer \in {ALPN, PAIR_ALPN}
        BY Offers DEF CInv, Checked
  <2>1. TypeOK'
        BY <1>2, <2>0 DEF CInv, TypeOK, Reply, ledger, input, Ends
  <2>2. <<Finished>> \in Seq(Unit)
        BY Units
  <2>3. WireOK' /\ (NoData(wire["client"]) => NoData(wire'["client"]))
        BY <1>0, <1>2, <2>2, ReplyWires DEF CInv, Reply
  <2>4. Up("server") = Up("server")'
        BY <1>2 DEF CInv, TypeOK, Reply, Up, Ends
  <2>5. ReadyIsLast'
        BY <2>3, <2>4 DEF CInv, ReadyIsLast
  <2>6. Checked'
        BY <1>0, <1>2 DEF CInv, Checked, Reply, TypeOK, Up, Verified, CallAllowed, AllowUnknown, Own, Peer,
                          Other, Ends
  <2>7. KeysOnce'
        BY <1>0, <1>2 DEF CInv, KeysOnce, Reply, TypeOK, Up, ledger, Ends
  <2>8. QED BY <2>1, <2>3, <2>5, <2>6, <2>7 DEF CInv
<1>3. QED BY <1>1, <1>2 DEF ClientVerifies

LEMMA ServerAcceptsStep ==
    ASSUME CInv, ServerAccepts
    PROVE  CInv'
<1>0. /\ phase["server"] = "flight_sent" /\ wire["server"] # <<>> /\ "server" \in Ends
      BY DEF ServerAccepts, Reads, Ends
<1>1. CASE Refuse("server", <<>>) \/ Refuse("server", <<Alert>>)
      BY <1>0, <1>1, RefuseStep
<1>2. CASE /\ Verified("server") /\ CallAllowed("server", cfg.offer)
           /\ Reply("server", 0, Data(READY), "up")
           /\ mode' = [mode EXCEPT !.server = cfg.offer]
           /\ keys' = [keys EXCEPT !.server = KeysFor(cfg.offer)]
  <2>0. cfg.offer \in {ALPN, PAIR_ALPN} /\ KeysFor(cfg.offer) \in {"none", "there"}
        BY Offers DEF CInv, Checked, KeysFor
  <2>1. TypeOK'
        BY <1>2, <2>0 DEF CInv, TypeOK, Reply, ledger, input, Ends
  <2>2. WireOK'
        BY <1>0, <1>2, ReadyUnits, ReplyWires DEF CInv, Reply
  <2>3. Up("server")'
        BY <1>2 DEF CInv, TypeOK, Reply, Up, Ends
  <2>4. ReadyIsLast'
        BY <2>3 DEF ReadyIsLast
  <2>5. Checked'
        BY <1>0, <1>2 DEF CInv, Checked, Reply, TypeOK, Up, Verified, CallAllowed, AllowUnknown, Own, Peer,
                          Other, Ends
  <2>6. KeysOnce'
        BY <1>0, <1>2 DEF CInv, KeysOnce, KeysFor, Reply, TypeOK, Up, ledger, Ends, ALPN, PAIR_ALPN
  <2>7. QED BY <2>1, <2>2, <2>4, <2>5, <2>6 DEF CInv
<1>3. QED BY <1>1, <1>2 DEF ServerAccepts, Selected

(* The client is done only with something the server sent when it was done.  *)
LEMMA AwaitReadyStep ==
    ASSUME CInv, AwaitReady
    PROVE  CInv'
<1>0. PICK n \in 1..Len(wire["client"]) :
        LET new == SubSeq(wire["client"], 1, n)
            try == TryFrame(rbuf["client"], bio["client"] \o new)
        IN  /\ \A i \in 1..n : new[i].kind = "data"
            /\ wire' = [wire EXCEPT !.client = SubSeq(@, n + 1, Len(@))]
            /\ IF try.frame = READY
               THEN /\ phase' = [phase EXCEPT !.client = "up"]
                    /\ keys' = [keys EXCEPT !.client = KeysFor(mode["client"])]
               ELSE UNCHANGED <<phase, keys>>
      BY DEF AwaitReady
<1>1. /\ phase["client"] = "awaiting"
      /\ UNCHANGED <<cfg, mode, shut, cut, state, reader, ledger>>
      /\ \/ /\ phase' = [phase EXCEPT !.client = "up"]
            /\ keys' = [keys EXCEPT !.client = KeysFor(mode["client"])]
         \/ UNCHANGED <<phase, keys>>
      BY <1>0 DEF AwaitReady
<1>2. wire["client"] \in Seq(Unit) /\ "client" \in Ends
      BY DEF CInv, WireOK, Ends
<1>3. Up("server")
  <2>1. wire["client"][1].kind = "data"
        BY <1>0, <1>2
  <2>2. 1 \in 1..Len(wire["client"])
        BY <1>0, <1>2
  <2>3. ~NoData(wire["client"])
        BY <2>1, <2>2 DEF NoData
  <2>4. QED BY <2>3 DEF CInv, ReadyIsLast
<1>4. Up("server")'
      BY <1>1, <1>3 DEF CInv, TypeOK, Up, Ends
<1>5. KeysFor(mode["client"]) \in {"none", "there"}
      BY DEF KeysFor
<1>6. TypeOK'
      BY <1>1, <1>5 DEF CInv, TypeOK, ledger, Ends
<1>7. WireOK' /\ ReadyIsLast'
  <2>1. SubSeq(wire["client"], n + 1, Len(wire["client"])) \in Seq(Unit)
        BY <1>2, Cuts
  <2>2. QED BY <1>0, <1>4, <2>1 DEF CInv, WireOK, ReadyIsLast, Ends
<1>8. Checked'
      BY <1>1, <1>4 DEF CInv, Checked, TypeOK, Up, Verified, CallAllowed, AllowUnknown, Own, Peer, Other, Ends
<1>9. KeysOnce'
      BY <1>1, <1>5 DEF CInv, KeysOnce, KeysFor, TypeOK, Up, ledger, Ends
<1>10. QED BY <1>6, <1>7, <1>8, <1>9 DEF CInv

-----------------------------------------------------------------------------
(* The channel in use, and the network. *)

(* A step of an end that is up changes neither what was checked nor keys.    *)
LEMMA InUse ==
    ASSUME CInv, UNCHANGED <<cfg, phase, mode, keys, handed>>,
           TypeOK', WireOK', NoData(wire["client"]) => NoData(wire'["client"]) \/ Up("server")
    PROVE  CInv'
BY DEF CInv, ReadyIsLast, Checked, KeysOnce, Up, Verified, CallAllowed, AllowUnknown, Own, Peer

LEMMA SendStep ==
    ASSUME CInv, NEW e \in Ends, NEW p \in Payloads, Send(e, p)
    PROVE  CInv'
<1>1. TypeOK'
      BY DEF CInv, TypeOK, Send, setup, input
<1>2. UNCHANGED <<cfg, phase, mode, keys, handed>> /\ Up(e)
      BY DEF Send, setup, Usable
<1>3. CASE UNCHANGED wire
      BY <1>1, <1>2, <1>3, InUse DEF CInv, WireOK
<1>4. CASE wire' = [wire EXCEPT ![Other(e)] = @ \o Data(Frame(p))]
  <2>1. Data(Frame(p)) \in Seq(Unit) /\ Other(e) \in Ends /\ wire[Other(e)] \in Seq(Unit)
        BY Frames, DataUnits, Others DEF CInv, WireOK
  <2>2. wire[Other(e)] \o Data(Frame(p)) \in Seq(Unit)
        BY <2>1, Adds
  <2>3. WireOK'
        BY <1>4, <2>2 DEF CInv, WireOK
  <2>4. Up("server")
        BY <1>2 DEF CInv, Checked, Ends
  <2>5. QED BY <1>1, <1>2, <2>3, <2>4, InUse
<1>5. QED BY <1>3, <1>4 DEF Send

LEMMA RecvWaitsStep ==
    ASSUME CInv, NEW e \in Ends, RecvWaits(e)
    PROVE  CInv'
<1>1. TypeOK' /\ UNCHANGED <<cfg, phase, mode, keys, handed>>
      BY DEF CInv, TypeOK, RecvWaits, setup, ledger
<1>2. CASE UNCHANGED wire
      BY <1>1, <1>2, InUse DEF CInv, WireOK
<1>3. ASSUME NEW n \in 1..Len(wire[e]),
             wire' = [wire EXCEPT ![e] = SubSeq(@, n + 1, Len(@))]
      PROVE  CInv'
  <2>1. wire[e] \in Seq(Unit) /\ Len(wire[e]) \in Nat /\ n + 1 \in Nat /\ n + 1 >= 1
        BY <1>3 DEF CInv, WireOK
  <2>2. /\ SubSeq(wire[e], n + 1, Len(wire[e])) \in Seq(Unit)
        /\ NoData(wire[e]) => NoData(SubSeq(wire[e], n + 1, Len(wire[e])))
        BY <2>1, Cuts
  <2>3. WireOK' /\ (NoData(wire["client"]) => NoData(wire'["client"]))
        BY <1>3, <2>2 DEF CInv, WireOK, Ends
  <2>4. QED BY <1>1, <2>3, InUse
<1>4. QED BY <1>2, <1>3 DEF RecvWaits

LEMMA RecvStep ==
    ASSUME CInv, NEW e \in Ends, RecvTry(e) \/ RecvFeeds(e)
    PROVE  CInv'
<1>1. TypeOK' /\ UNCHANGED <<cfg, phase, mode, keys, handed, wire>>
  <2>1. CASE RecvTry(e)
        BY <2>1 DEF CInv, TypeOK, RecvTry, setup, net
  <2>2. CASE RecvFeeds(e)
        BY <2>2 DEF CInv, TypeOK, RecvFeeds, setup, net, ledger
  <2>3. QED BY <2>1, <2>2
<1>2. QED BY <1>1, InUse DEF CInv, WireOK

LEMMA TakeMediaKeysStep ==
    ASSUME CInv, NEW e \in Ends, TakeMediaKeys(e)
    PROVE  CInv'
<1> USE DEF TakeMediaKeys, CInv
<1>1. handed[e] = 0
      BY DEF KeysOnce
<1>2. handed' = [handed EXCEPT ![e] = 1] /\ keys' = [keys EXCEPT ![e] = "taken"]
      BY <1>1
<1>3. TypeOK'
      BY <1>2 DEF TypeOK, setup, net, input
<1>4. KeysOnce'
      BY <1>2 DEF KeysOnce, TypeOK, Up, setup
<1>5. WireOK' /\ ReadyIsLast' /\ Checked'
      BY DEF WireOK, ReadyIsLast, Checked, Up, Verified, CallAllowed, AllowUnknown, Own, Peer,
             setup, net
<1>6. QED BY <1>3, <1>4, <1>5

LEMMA CloseStep ==
    ASSUME CInv, NEW e \in Ends, Close(e)
    PROVE  CInv'
<1> DEFINE out == IF CanSend(e) THEN Append(wire[Other(e)], CloseNotify) ELSE wire[Other(e)]
<1>1. TypeOK' /\ UNCHANGED <<cfg, phase, mode, keys, handed>> /\ Up(e)
      BY DEF CInv, TypeOK, Close, setup, input, ledger
<1>2. Up("server")
      BY <1>1 DEF CInv, Checked, Ends
<1>3. out \in Seq(Unit) /\ Other(e) \in Ends
  <2>1. wire[Other(e)] \in Seq(Unit) /\ Other(e) \in Ends /\ CloseNotify \in Unit
        BY Others, Units DEF CInv, WireOK
  <2>2. QED BY <2>1
<1>4. PICK n \in 0..Len(out) : wire' = [wire EXCEPT ![Other(e)] = SubSeq(out, 1, n)]
  <2>1. SubSeq(out, 1, Len(out)) = out /\ Len(out) \in Nat
        BY <1>3
  <2>2. \/ wire' = [wire EXCEPT ![Other(e)] = out]
        \/ \E n \in 0..Len(out) : wire' = [wire EXCEPT ![Other(e)] = SubSeq(out, 1, n)]
        BY DEF Close
  <2>3. QED BY <2>1, <2>2
<1>5. WireOK'
  <2>1. SubSeq(out, 1, n) \in Seq(Unit)
        BY <1>3, <1>4, Cuts
  <2>2. QED BY <1>3, <1>4, <2>1 DEF CInv, WireOK
<1>6. QED BY <1>1, <1>2, <1>5, InUse

LEMMA ResetStep ==
    ASSUME CInv, Reset
    PROVE  CInv'
<1>1. TypeOK' /\ UNCHANGED <<cfg, phase, mode, keys, handed>>
      BY DEF CInv, TypeOK, Reset, setup, input, ledger
<1>2. PICK n \in 0..Len(wire["client"]), m \in 0..Len(wire["server"]) :
            wire' = [client |-> SubSeq(wire["client"], 1, n),
                     server |-> SubSeq(wire["server"], 1, m)]
      BY DEF Reset
<1>3. wire["client"] \in Seq(Unit) /\ wire["server"] \in Seq(Unit)
      BY DEF CInv, WireOK, Ends
<1>4. /\ SubSeq(wire["client"], 1, n) \in Seq(Unit) /\ SubSeq(wire["server"], 1, m) \in Seq(Unit)
      /\ NoData(wire["client"]) => NoData(SubSeq(wire["client"], 1, n))
      BY <1>2, <1>3, Cuts
<1>5. WireOK' /\ (NoData(wire["client"]) => NoData(wire'["client"]))
  <2>1. wire'["client"] = SubSeq(wire["client"], 1, n)
        BY <1>2
  <2>2. wire' = [e \in Ends |-> IF e = "client" THEN SubSeq(wire["client"], 1, n)
                                                ELSE SubSeq(wire["server"], 1, m)]
        BY <1>2 DEF Ends
  <2>3. wire' \in [Ends -> Seq(Unit)]
        BY <1>4, <2>2
  <2>4. QED BY <1>4, <2>1, <2>3 DEF WireOK
<1>6. QED BY <1>1, <1>5, InUse

-----------------------------------------------------------------------------
LEMMA CInvStep == CInv /\ [Next]_vars => CInv'
<1> SUFFICES ASSUME CInv, [Next]_vars PROVE CInv'
    OBVIOUS
<1>1. CASE Handshake
  <2>1. CASE ServerMeetsV1
    <3>1. phase["server"] # "up" /\ Refuse("server", <<>>) /\ "server" \in Ends
          BY <2>1 DEF ServerMeetsV1, Ends
    <3>2. QED BY <3>1, RefuseStep
  <2>2. QED BY <1>1, <2>1, ServerAnswersStep, ClientVerifiesStep, ServerAcceptsStep,
               AwaitReadyStep DEF Handshake
<1>2. ASSUME NEW e \in Ends, Establish(e) PROVE CInv'
  <2>1. CASE Start(e)
        BY <2>1, StartStep
  <2>2. CASE ~Start(e)
    <3>1. phase[e] # "up" /\ Refuse(e, <<>>)
          BY <1>2, <2>2 DEF Establish, OwnKeyPinned, PeerRefused, Timeout, Establishing
    <3>2. QED BY <3>1, RefuseStep
  <2>3. QED BY <2>1, <2>2
<1>3. ASSUME NEW e \in Ends, Use(e) PROVE CInv'
      BY <1>3, SendStep, RecvStep, RecvWaitsStep, TakeMediaKeysStep, CloseStep DEF Use
<1>4. CASE Reset
      BY <1>4, ResetStep
<1>5. CASE UNCHANGED vars
  <2>1. TypeOK' /\ WireOK' /\ UNCHANGED <<cfg, phase, mode, keys, handed, wire>>
        BY <1>5 DEF CInv, TypeOK, WireOK, vars, setup, net, input, ledger
  <2>2. QED BY <2>1, InUse
<1>6. QED BY <1>1, <1>2, <1>3, <1>4, <1>5 DEF Next, Over

LEMMA CInvAlways == Spec => []CInv
BY CInvInit, CInvStep, PTL DEF Spec

(* When establish() returns at the caller, the listener has accepted it, in  *)
(* the same mode, for any keys, pins and interruptions (secure.py:269-271).  *)
THEOREM CallerWasAccepted == Spec => []CallerReturnsAccepted
<1>1. CInv => CallerReturnsAccepted
      BY DEF CInv, Checked, CallerReturnsAccepted, Up
<1>2. QED BY <1>1, CInvAlways, PTL

(* Calls run between ends that pinned each other, and only those get voice   *)
(* keys, once (secure.py:263-265, 402-414).                                  *)
THEOREM OnlyPinnedPeersCall == Spec => []CallsArePinned
<1>1. CInv => CallsArePinned
  <2>1. SUFFICES ASSUME CInv PROVE CallsArePinned
        OBVIOUS
  <2>2. ALPN # PAIR_ALPN
        BY DEF ALPN, PAIR_ALPN
  <2>3. ASSUME NEW e \in Ends, Up(e), mode[e] = ALPN
        PROVE  Peer(e) \in cfg.pins[e] /\ Peer(e) # Own(e)
    <3>1. CASE e = "client"
          BY <2>1, <2>2, <2>3, <3>1 DEF CInv, Checked, Up, Verified, AllowUnknown
    <3>2. CASE e = "server"
          BY <2>1, <2>3, <3>2 DEF CInv, Checked, Up, Verified, CallAllowed
    <3>3. QED BY <3>1, <3>2 DEF Ends
  <2>4. \A e \in Ends : handed[e] <= (IF Up(e) /\ mode[e] = ALPN THEN 1 ELSE 0)
        BY <2>1 DEF CInv, KeysOnce
  <2>5. QED BY <2>3, <2>4 DEF CallsArePinned
<1>2. QED BY <1>1, CInvAlways, PTL

-----------------------------------------------------------------------------
(* What FlattenSeq makes of a sequence of frames. *)

(* The least counterexample, with which the inductions below are made.       *)
LEMMA LeastNat ==
    ASSUME NEW N, N \subseteq Nat, N # {}
    PROVE  \E n \in N : \A m \in Nat : m < n => m \notin N
<1> DEFINE R == OpToRel(<, Nat)
<1>1. \A x, y \in Nat : <<y, x>> \in R <=> y < x
      BY DEF OpToRel
<1>2. IsWellFoundedOn(R, Nat)
      BY NatLessThanWellFounded
<1> HIDE DEF R
<1>3. PICK n \in N : \A m \in N : ~(<<m, n>> \in R)
      BY <1>2, WFMin
<1>4. QED BY <1>1, <1>3

ByteString == Seq(Nat)

(* The function by which FlattenSeq is defined. *)
Flattens(f, s) ==
    f = [i \in 1..Len(s) |-> IF i = 1 THEN s[i] ELSE f[i - 1] \o s[i]]

LEMMA FlattensUpTo ==
    ASSUME NEW s
    PROVE  \A n \in Nat : \E f : f = [i \in 1..n |-> IF i = 1 THEN s[i] ELSE f[i - 1] \o s[i]]
<1> DEFINE P(n) == \E f : f = [i \in 1..n |-> IF i = 1 THEN s[i] ELSE f[i - 1] \o s[i]]
           N == {n \in Nat : ~P(n)}
<1> SUFFICES N = {}
    OBVIOUS
<1> SUFFICES ASSUME N # {} PROVE FALSE
    OBVIOUS
<1>1. PICK n \in N : \A m \in Nat : m < n => m \notin N
  <2>1. N \subseteq Nat
        OBVIOUS
  <2> HIDE DEF N
  <2>2. QED BY <2>1, LeastNat
<1>2. n # 0
  <2> DEFINE f == [i \in 1..0 |-> s[1]]
  <2>1. f = [i \in 1..0 |-> IF i = 1 THEN s[i] ELSE f[i - 1] \o s[i]]
        OBVIOUS
  <2> HIDE DEF f
  <2>2. P(0)
        BY <2>1
  <2>3. QED BY <2>2
<1>3. n - 1 \in Nat /\ n \in Nat /\ n - 1 < n
      BY <1>2
<1>4. PICK f : f = [i \in 1..(n - 1) |-> IF i = 1 THEN s[i] ELSE f[i - 1] \o s[i]]
      BY <1>1, <1>3
<1> DEFINE g == [i \in 1..n |-> IF i = 1 THEN s[i] ELSE f[i - 1] \o s[i]]
<1>5. \A i \in 1..n : g[i] = IF i = 1 THEN s[i] ELSE f[i - 1] \o s[i]
      OBVIOUS
<1>6. g = [i \in 1..n |-> g[i]]
      OBVIOUS
<1> HIDE DEF g
<1>7. \A i \in 1..(n - 1) : g[i] = f[i]
  <2> DEFINE rhs(i) == IF i = 1 THEN s[i] ELSE f[i - 1] \o s[i]
  <2>1. f = [i \in 1..(n - 1) |-> rhs(i)] /\ \A i \in 1..n : g[i] = rhs(i)
        BY <1>4, <1>5
  <2> HIDE DEF rhs
  <2>2. \A i \in 1..(n - 1) : f[i] = rhs(i)
        BY <2>1
  <2>3. QED BY <1>3, <2>1, <2>2
<1>8. \A i \in 1..n : g[i] = IF i = 1 THEN s[i] ELSE g[i - 1] \o s[i]
  <2> SUFFICES ASSUME NEW i \in 1..n, i # 1
               PROVE  g[i] = g[i - 1] \o s[i]
      BY <1>5
  <2>1. i - 1 \in 1..(n - 1)
        BY <1>3
  <2>2. QED BY <1>5, <1>7, <2>1
<1>9. g = [i \in 1..n |-> IF i = 1 THEN s[i] ELSE g[i - 1] \o s[i]]
      BY <1>6, <1>8
<1>10. P(n)
      BY <1>9
<1>11. QED BY <1>1, <1>10

LEMMA FlatByFunction ==
    ASSUME NEW s \in Seq(ByteString)
    PROVE  \E f : Flattens(f, s) /\ Flat(s) = IF s = <<>> THEN <<>> ELSE f[Len(s)]
<1> DEFINE flatten[i \in 1..Len(s)] == IF i = 1 THEN s[i] ELSE flatten[i - 1] \o s[i]
           Q(h) == h = [i \in 1..Len(s) |-> IF i = 1 THEN s[i] ELSE h[i - 1] \o s[i]]
<1>1. Flat(s) = IF Len(s) = 0 THEN s ELSE flatten[Len(s)]
      BY DEF Flat, FlattenSeq
<1>2. flatten = CHOOSE h : Q(h)
      BY DEF flatten
<1>3. \E h : Q(h)
  <2>1. Len(s) \in Nat
        OBVIOUS
  <2>2. QED BY <2>1, FlattensUpTo, Zenon
<1>4. \A h : Q(h) <=> Flattens(h, s)
      BY DEF Flattens
<1>5. Len(s) = 0 <=> s = <<>>
      OBVIOUS
<1> HIDE DEF flatten, Q
<1>6. Q(flatten)
      BY <1>2, <1>3
<1>7. QED BY <1>1, <1>4, <1>5, <1>6

LEMMA AppendIs ==
    ASSUME NEW S, NEW s \in Seq(S), NEW x \in S, NEW t, t = Append(s, x)
    PROVE  /\ t \in Seq(S) /\ Len(t) = Len(s) + 1 /\ t # <<>> /\ Len(s) \in Nat
           /\ \A i \in 1..Len(s) : t[i] = s[i]
           /\ t[Len(s) + 1] = x
OBVIOUS

LEMMA ConsIs ==
    ASSUME NEW S, NEW s \in Seq(S), NEW x \in S, NEW t, t = <<x>> \o s
    PROVE  /\ t \in Seq(S) /\ Len(t) = Len(s) + 1 /\ t # <<>> /\ Len(s) \in Nat
           /\ t[1] = x
           /\ \A i \in 1..Len(s) : t[i + 1] = s[i]
OBVIOUS

Begins(a, c) == Len(a) <= Len(c) /\ \A i \in 1..Len(a) : c[i] = a[i]

LEMMA BeginsLonger ==
    ASSUME NEW a \in ByteString, NEW b \in ByteString, NEW x \in ByteString, Begins(a, b)
    PROVE  Begins(a, b \o x)
<1>1. /\ Len(b \o x) = Len(b) + Len(x) /\ Len(b) \in Nat /\ Len(x) \in Nat /\ Len(a) \in Nat
      /\ \A i \in 1..Len(b) : (b \o x)[i] = b[i]
      BY DEF ByteString
<1>2. QED BY <1>1 DEF Begins

LEMMA Associative ==
    ASSUME NEW a \in ByteString, NEW b \in ByteString, NEW x \in ByteString
    PROVE  (a \o b) \o x = a \o (b \o x)
BY ConcatAssociative, SMTT(60) DEF ByteString

(* f[i] is what the first i frames are together. *)
LEMMA FlattenTypes ==
    ASSUME NEW s \in Seq(ByteString), NEW f, Flattens(f, s)
    PROVE  \A i \in 1..Len(s) : f[i] \in ByteString /\ f[i] = IF i = 1 THEN s[1] ELSE f[i - 1] \o s[i]
<1>1. \A i \in 1..Len(s) : f[i] = IF i = 1 THEN s[1] ELSE f[i - 1] \o s[i]
  <2> DEFINE rhs(i) == IF i = 1 THEN s[i] ELSE f[i - 1] \o s[i]
  <2>1. f = [i \in 1..Len(s) |-> rhs(i)]
        BY DEF Flattens
  <2> HIDE DEF rhs
  <2>2. \A i \in 1..Len(s) : f[i] = rhs(i)
        BY <2>1
  <2>3. QED BY <2>2 DEF rhs
<1> DEFINE N == {n \in Nat : n \in 1..Len(s) /\ f[n] \notin ByteString}
<1>a. Len(s) \in Nat /\ 1..Len(s) \subseteq Nat
      OBVIOUS
<1>b. ASSUME N = {} PROVE \A i \in 1..Len(s) : f[i] \in ByteString
      BY <1>a, <1>b
<1> SUFFICES ASSUME N # {} PROVE FALSE
    BY <1>1, <1>b
<1>2. PICK n \in N : \A m \in Nat : m < n => m \notin N
  <2>1. N \subseteq Nat
        OBVIOUS
  <2> HIDE DEF N
  <2>2. QED BY <2>1, LeastNat
<1>3. n \in 1..Len(s) /\ s[n] \in ByteString /\ f[n] \notin ByteString
      OBVIOUS
<1>4. n # 1
      BY <1>1, <1>3
<1>5. n - 1 \in 1..Len(s) /\ n - 1 \in Nat /\ n - 1 < n
      BY <1>a, <1>3, <1>4
<1>6. f[n - 1] \in ByteString
      BY <1>2, <1>5
<1>7. f[n] = f[n - 1] \o s[n]
      BY <1>1, <1>3, <1>4
<1>8. QED BY <1>3, <1>6, <1>7 DEF ByteString

(* Two sequences of frames that begin alike are flattened alike. *)
LEMMA FlattenAlike ==
    ASSUME NEW s \in Seq(ByteString), NEW t \in Seq(ByteString), Len(s) <= Len(t),
           \A i \in 1..Len(s) : t[i] = s[i],
           NEW f, Flattens(f, s), NEW g, Flattens(g, t)
    PROVE  \A i \in 1..Len(s) : g[i] = f[i]
<1>1. /\ \A i \in 1..Len(s) : f[i] = IF i = 1 THEN s[1] ELSE f[i - 1] \o s[i]
      /\ \A i \in 1..Len(t) : g[i] = IF i = 1 THEN t[1] ELSE g[i - 1] \o t[i]
      BY FlattenTypes
<1> DEFINE N == {n \in Nat : n \in 1..Len(s) /\ g[n] # f[n]}
<1>a. Len(s) \in Nat /\ 1..Len(s) \subseteq Nat
      OBVIOUS
<1>b. ASSUME N = {} PROVE \A i \in 1..Len(s) : g[i] = f[i]
      BY <1>a, <1>b
<1> SUFFICES ASSUME N # {} PROVE FALSE
    BY <1>b
<1>2. PICK n \in N : \A m \in Nat : m < n => m \notin N
  <2>1. N \subseteq Nat
        OBVIOUS
  <2> HIDE DEF N
  <2>2. QED BY <2>1, LeastNat
<1>3. n \in 1..Len(s) /\ n \in 1..Len(t) /\ Len(s) \in Nat /\ t[n] = s[n] /\ g[n] # f[n]
      OBVIOUS
<1>4. n # 1
      BY <1>1, <1>3
<1>5. n - 1 \in 1..Len(s) /\ n - 1 \in Nat /\ n - 1 < n
      BY <1>3, <1>4
<1>6. g[n - 1] = f[n - 1]
      BY <1>2, <1>5
<1>7. QED BY <1>1, <1>3, <1>4, <1>6

LEMMA FlatType == \A s \in Seq(ByteString) : Flat(s) \in ByteString
<1> TAKE s \in Seq(ByteString)
<1>1. PICK f : Flattens(f, s) /\ Flat(s) = IF s = <<>> THEN <<>> ELSE f[Len(s)]
      BY FlatByFunction
<1>2. s # <<>> => f[Len(s)] \in ByteString
      BY <1>1, FlattenTypes
<1>3. QED BY <1>1, <1>2 DEF ByteString

LEMMA FlatAppend ==
    ASSUME NEW s \in Seq(ByteString), NEW x \in ByteString
    PROVE  Flat(Append(s, x)) = Flat(s) \o x
<1>0. SUFFICES ASSUME NEW t, t = Append(s, x)
               PROVE  Flat(t) = Flat(s) \o x
    OBVIOUS
<1>1. /\ t \in Seq(ByteString) /\ Len(t) = Len(s) + 1 /\ t # <<>> /\ Len(s) \in Nat
      /\ \A i \in 1..Len(s) : t[i] = s[i]
      /\ t[Len(s) + 1] = x
      BY <1>0, AppendIs
<1>2. PICK f : Flattens(f, s) /\ Flat(s) = IF s = <<>> THEN <<>> ELSE f[Len(s)]
      BY FlatByFunction
<1>3. PICK g : Flattens(g, t) /\ Flat(t) = IF t = <<>> THEN <<>> ELSE g[Len(t)]
      BY <1>1, FlatByFunction
<1>4. \A i \in 1..Len(s) : g[i] = f[i]
  <2>1. Len(s) <= Len(t)
        BY <1>1
  <2>2. t \in Seq(ByteString) /\ \A i \in 1..Len(s) : t[i] = s[i]
        BY <1>1
  <2>3. Flattens(f, s) /\ Flattens(g, t)
        BY <1>2, <1>3
  <2>4. QED BY <2>1, <2>2, <2>3, FlattenAlike
<1>5. g[Len(t)] = IF Len(t) = 1 THEN t[1] ELSE g[Len(t) - 1] \o t[Len(t)]
      BY <1>1, <1>3, FlattenTypes
<1>6. CASE s = <<>>
  <2>1. Flat(t) = x /\ Flat(s) = <<>>
        BY <1>1, <1>2, <1>3, <1>5, <1>6
  <2>2. QED BY <1>1, <2>1 DEF ByteString
<1>7. CASE s # <<>>
  <2>1. Len(s) >= 1 /\ Len(t) # 1 /\ Len(t) - 1 = Len(s)
        BY <1>1, <1>7
  <2>2. /\ Flat(t) = g[Len(t)] /\ Flat(s) = f[Len(s)] /\ Len(s) \in 1..Len(s)
        /\ t[Len(t)] = x
        BY <1>1, <1>2, <1>3, <1>7, <2>1
  <2>a. g[Len(t)] = g[Len(s)] \o x
        BY <1>5, <2>1, <2>2
  <2>3. QED BY <1>4, <2>2, <2>a
<1>8. QED BY <1>6, <1>7

(* What k frames are together begins what all are, and the next one follows. *)
LEMMA FlatOfPrefix ==
    ASSUME NEW s \in Seq(ByteString), NEW t \in Seq(ByteString), Len(s) <= Len(t),
           \A i \in 1..Len(s) : t[i] = s[i]
    PROVE  /\ Len(Flat(s)) <= Len(Flat(t))
           /\ \A i \in 1..Len(Flat(s)) : Flat(t)[i] = Flat(s)[i]
<1>1. PICK f : Flattens(f, s) /\ Flat(s) = IF s = <<>> THEN <<>> ELSE f[Len(s)]
      BY FlatByFunction
<1>2. PICK g : Flattens(g, t) /\ Flat(t) = IF t = <<>> THEN <<>> ELSE g[Len(t)]
      BY FlatByFunction
<1>3. \A i \in 1..Len(s) : g[i] = f[i]
  <2>1. Flattens(f, s) /\ Flattens(g, t)
        BY <1>1, <1>2
  <2>2. QED BY <2>1, FlattenAlike
<1>4. CASE s = <<>>
  <2>1. Flat(t) \in Seq(Nat) /\ Flat(s) = <<>>
        BY <1>1, <1>4, FlatType DEF ByteString
  <2>2. QED BY <2>1
<1>5. CASE s # <<>>
  <2> DEFINE k == Len(s)
             N == {m \in Nat : m \in k..Len(t) /\ ~Begins(g[k], g[m])}
  <2>1. /\ k \in 1..Len(t) /\ k \in Nat /\ Len(t) \in Nat
        /\ \A i \in 1..Len(t) : g[i] \in ByteString /\ g[i] = IF i = 1 THEN t[1] ELSE g[i - 1] \o t[i]
        BY <1>2, <1>5, FlattenTypes
  <2>2. ASSUME NEW n \in N, \A m \in Nat : m < n => m \notin N
        PROVE  FALSE
    <3>1. n \in k..Len(t) /\ ~Begins(g[k], g[n]) /\ n \in Nat
          OBVIOUS
    <3>2. n # k
      <4>1. Begins(g[k], g[k])
            BY <2>1 DEF Begins, ByteString
      <4>2. QED BY <3>1, <4>1
    <3>3. n - 1 \in k..Len(t) /\ n - 1 \in Nat /\ n - 1 < n /\ n # 1 /\ n \in 1..Len(t) /\ n - 1 \in 1..Len(t)
          BY <2>1, <3>1, <3>2
    <3>4. Begins(g[k], g[n - 1])
          BY <2>2, <3>3
    <3>5. t[n] \in ByteString
          BY <3>3, ElementOfSeq
    <3>6. g[n] = g[n - 1] \o t[n] /\ g[n - 1] \in ByteString /\ g[k] \in ByteString
          BY <2>1, <3>3
    <3>7. QED BY <3>1, <3>4, <3>5, <3>6, BeginsLonger
  <2>3. N = {}
    <3>1. N \subseteq Nat
          OBVIOUS
    <3> HIDE DEF N
    <3>2. QED BY <2>2, <3>1, LeastNat
  <2>4. Begins(g[k], g[Len(t)])
        BY <2>1, <2>3
  <2>5. t # <<>> /\ Flat(t) = g[Len(t)] /\ Flat(s) = g[k]
        BY <1>1, <1>2, <1>3, <1>5, <2>1
  <2>6. QED BY <2>4, <2>5 DEF Begins
<1>6. QED BY <1>4, <1>5

LEMMA FlatNext ==
    ASSUME NEW s \in Seq(ByteString), NEW t \in Seq(ByteString), Len(s) < Len(t),
           \A i \in 1..Len(s) : t[i] = s[i]
    PROVE  LET b == Len(Flat(s))
               x == t[Len(s) + 1]
           IN  /\ b + Len(x) <= Len(Flat(t))
               /\ \A i \in 1..Len(x) : Flat(t)[b + i] = x[i]
<1> DEFINE x == t[Len(s) + 1]
           n == Append(s, x)
<1>1. x \in ByteString /\ Flat(s) \in ByteString /\ Flat(t) \in ByteString
      BY FlatType
<1>2. n \in Seq(ByteString) /\ Len(n) <= Len(t) /\ \A i \in 1..Len(n) : t[i] = n[i]
      BY <1>1
<1>3. Flat(n) = Flat(s) \o x
      BY <1>1, FlatAppend
<1> HIDE DEF n, x
<1>4. /\ Len(Flat(n)) <= Len(Flat(t))
      /\ \A i \in 1..Len(Flat(n)) : Flat(t)[i] = Flat(n)[i]
      BY <1>2, FlatOfPrefix
<1>5. /\ Len(Flat(n)) = Len(Flat(s)) + Len(x)
      /\ \A i \in 1..Len(x) : Flat(n)[Len(Flat(s)) + i] = x[i]
      BY <1>1, <1>3 DEF ByteString
<1>6. QED BY <1>1, <1>4, <1>5 DEF x, ByteString

LEMMA FlatCons ==
    ASSUME NEW r \in ByteString, NEW s \in Seq(ByteString)
    PROVE  Flat(<<r>> \o s) = r \o Flat(s)
<1>0. SUFFICES ASSUME NEW t, t = <<r>> \o s
               PROVE  Flat(t) = r \o Flat(s)
    OBVIOUS
<1>1. /\ t \in Seq(ByteString) /\ Len(t) = Len(s) + 1 /\ Len(s) \in Nat /\ t # <<>> /\ t[1] = r
      /\ \A i \in 1..Len(s) : t[i + 1] = s[i]
      BY <1>0, ConsIs
<1>2. PICK f : Flattens(f, s) /\ Flat(s) = IF s = <<>> THEN <<>> ELSE f[Len(s)]
      BY FlatByFunction
<1>3. PICK g : Flattens(g, t) /\ Flat(t) = IF t = <<>> THEN <<>> ELSE g[Len(t)]
      BY <1>1, FlatByFunction
<1>4. \A i \in 1..Len(s) : f[i] \in ByteString /\ f[i] = IF i = 1 THEN s[1] ELSE f[i - 1] \o s[i]
      BY <1>2, FlattenTypes
<1>5. \A i \in 1..Len(t) : g[i] \in ByteString /\ g[i] = IF i = 1 THEN t[1] ELSE g[i - 1] \o t[i]
      BY <1>1, <1>3, FlattenTypes
<1> DEFINE N == {m \in Nat : m \in 1..Len(s) /\ g[m + 1] # r \o f[m]}
<1>6. N = {}
  <2> SUFFICES ASSUME N # {} PROVE FALSE
      OBVIOUS
  <2>1. PICK n \in N : \A m \in Nat : m < n => m \notin N
    <3>1. N \subseteq Nat
          OBVIOUS
    <3> HIDE DEF N
    <3>2. QED BY <3>1, LeastNat
  <2>2. n \in 1..Len(s) /\ g[n + 1] # r \o f[n] /\ n \in Nat
        OBVIOUS
  <2>3. n + 1 \in 1..Len(t) /\ n + 1 # 1 /\ (n + 1) - 1 = n /\ n \in 1..Len(t)
        BY <1>1, <2>2, SMTT(60)
  <2>4. g[n + 1] = g[n] \o s[n]
        BY <1>1, <1>5, <2>2, <2>3
  <2>5. CASE n = 1
        BY <1>1, <1>4, <1>5, <2>2, <2>3, <2>4, <2>5
  <2>6. CASE n # 1
    <3>1. n - 1 \in 1..Len(s) /\ n - 1 \in Nat /\ n - 1 < n /\ (n - 1) + 1 = n
          BY <2>2, <2>6
    <3>2. g[n] = r \o f[n - 1]
          BY <2>1, <3>1
    <3>3. f[n] = f[n - 1] \o s[n]
          BY <1>4, <2>2, <2>6
    <3>a. f[n - 1] \in ByteString
          BY <1>4, <3>1
    <3>b. s[n] \in ByteString
          BY <2>2, ElementOfSeq
    <3>4. (r \o f[n - 1]) \o s[n] = r \o (f[n - 1] \o s[n])
          BY <3>a, <3>b, Associative
    <3>5. QED BY <2>2, <2>4, <3>2, <3>3, <3>4
  <2>7. QED BY <2>5, <2>6
<1>7. CASE s = <<>>
      BY <1>1, <1>2, <1>3, <1>5, <1>7 DEF ByteString
<1>8. CASE s # <<>>
  <2>1. Len(s) \in 1..Len(s) /\ Len(t) = Len(s) + 1
        BY <1>1, <1>8
  <2>2. g[Len(s) + 1] = r \o f[Len(s)]
        BY <1>6, <2>1
  <2>3. QED BY <1>1, <1>2, <1>3, <1>8, <2>1, <2>2
<1>9. QED BY <1>7, <1>8

-----------------------------------------------------------------------------
(* Reading frames. *)

WholeFrame == {f \in ByteString : Len(f) >= 3 /\ Len(f) = 3 + f[3]}

(* Bytes that do not hold a frame yet. *)
Incomplete(b) == Len(b) < 3 \/ Len(b) < 3 + b[3]

(* Of the stream of bytes `all` b have been returned in frames; those that   *)
(* follow are in the frame buffer rb and in n data units, ahead of anything  *)
(* else in us.                                                               *)
Carries(all, b, rb, us, n) ==
    /\ n <= Len(us)
    /\ \A i \in 1..n : us[i].kind = "data"
    /\ \A i \in (n + 1)..Len(us) : us[i].kind # "data"
    /\ b + Len(rb) + n <= Len(all)
    /\ \A i \in 1..Len(rb) : rb[i] = all[b + i]
    /\ \A i \in 1..n : us[i].val = all[b + Len(rb) + i]

(* The frames returned are the first of those sent; what follows is on its   *)
(* way but for the last `missing` bytes, with `extra` units that are no data *)
(* behind it.                                                                *)
Delivers(to, from, rb, us, missing, extra) ==
    /\ Len(from) <= Len(to) /\ \A i \in 1..Len(from) : to[i] = from[i]
    /\ \E n \in Nat :
          /\ Carries(Flat(to), Len(Flat(from)), rb, us, n)
          /\ Len(us) = n + extra
          /\ Len(Flat(to)) = Len(Flat(from)) + Len(rb) + n + missing

LEMMA FramesAreStrings ==
    ASSUME NEW s \in Seq(WholeFrame)
    PROVE  s \in Seq(ByteString) /\ Flat(s) \in ByteString /\ Len(Flat(s)) \in Nat
<1>1. WholeFrame \subseteq ByteString
      BY DEF WholeFrame
<1>2. s \in Seq(ByteString)
      BY <1>1, SeqMonotonic
<1>3. Flat(s) \in ByteString
      BY <1>2, FlatType
<1>4. QED BY <1>2, <1>3 DEF ByteString

LEMMA ReadableIs ==
    ASSUME NEW units \in Seq(Unit), NEW m \in 0..Len(units),
           \A i \in 1..m : units[i].kind = "data",
           m < Len(units) => units[m + 1].kind # "data"
    PROVE  Readable(units) = SubSeq(units, 1, m)
<1> DEFINE S == {n \in 0..Len(units) : \A i \in 1..n : units[i].kind = "data"}
<1>1. m \in S
      OBVIOUS
<1>2. \A n \in S : n <= m
  <2> SUFFICES ASSUME NEW n \in S, ~(n <= m) PROVE FALSE
      OBVIOUS
  <2>1. n \in Nat /\ m + 1 \in 1..n /\ m < Len(units)
        OBVIOUS
  <2>2. QED BY <2>1
<1>3. S \subseteq Int
      OBVIOUS
<1> HIDE DEF S
<1>4. Max(S) \in S /\ \A n \in S : Max(S) >= n
      BY <1>1, <1>2, <1>3 DEF Max
<1>5. Max(S) = m
  <2>1. Max(S) \in Int /\ m \in Int /\ Max(S) <= m
        BY <1>1, <1>2, <1>3, <1>4
  <2>2. Max(S) >= m
        BY <1>1, <1>4
  <2>3. QED BY <2>1, <2>2
<1>6. QED BY <1>5 DEF Readable, S

LEMMA ReadableBytes ==
    ASSUME NEW units \in Seq(Unit), NEW m \in 0..Len(units)
    PROVE  /\ Bytes(SubSeq(units, 1, m)) \in Seq(Nat)
           /\ Len(Bytes(SubSeq(units, 1, m))) = m
           /\ \A i \in 1..m : Bytes(SubSeq(units, 1, m))[i] = units[i].val
<1> DEFINE t == SubSeq(units, 1, m)
<1>1. t \in Seq(Unit) /\ Len(t) = m /\ DOMAIN t = 1..m /\ \A i \in 1..m : t[i] = units[i]
      OBVIOUS
<1> HIDE DEF t
<1>2. ASSUME NEW i \in 1..m PROVE t[i].val \in Nat
  <2>1. t[i] \in Unit
        BY <1>1
  <2>2. QED BY <2>1 DEF Unit
<1>3. Bytes(t) = [i \in 1..m |-> t[i].val]
      BY <1>1 DEF Bytes
<1>4. Bytes(t) \in Seq(Nat) /\ Len(Bytes(t)) = m /\ \A i \in 1..m : Bytes(t)[i] = units[i].val
      BY <1>1, <1>2, <1>3
<1>5. QED BY <1>4 DEF t

LEMMA ConcatIs ==
    ASSUME NEW S, NEW s \in Seq(S), NEW t \in Seq(S), NEW u, u = s \o t
    PROVE  /\ u \in Seq(S) /\ Len(u) = Len(s) + Len(t) /\ Len(s) \in Nat /\ Len(t) \in Nat
           /\ \A i \in 1..Len(s) : u[i] = s[i]
           /\ \A i \in 1..Len(t) : u[Len(s) + i] = t[i]
OBVIOUS

(* What _try_frame does with a frame buffer and m data units. *)
LEMMA TryFrameIs ==
    ASSUME NEW rb \in Seq(Nat), Incomplete(rb), NEW units \in Seq(Unit), NEW m \in 0..Len(units),
           \A i \in 1..m : units[i].kind = "data",
           m < Len(units) => units[m + 1].kind # "data"
    PROVE  \E all \in Seq(Nat) :
              /\ Len(all) = Len(rb) + m
              /\ \A i \in 1..Len(rb) : all[i] = rb[i]
              /\ \A i \in 1..m : all[Len(rb) + i] = units[i].val
              /\ \/ /\ Incomplete(all)
                    /\ TryFrame(rb, units) = [frame |-> <<>>, rbuf |-> all,
                                              rest |-> SubSeq(units, m + 1, Len(units))]
                 \/ \E need \in Nat :
                    /\ Len(all) >= 3 /\ need = 3 + all[3] /\ Len(rb) < need /\ need <= Len(all)
                    /\ TryFrame(rb, units) =
                         [frame |-> SubSeq(all, 1, need), rbuf |-> <<>>,
                          rest |-> SubSeq(units, (need - Len(rb)) + 1, Len(units))]
<1> DEFINE data == Bytes(SubSeq(units, 1, m))
<1>1. data \in Seq(Nat) /\ Len(data) = m /\ \A i \in 1..m : data[i] = units[i].val
      BY ReadableBytes
<1>2. Readable(units) = SubSeq(units, 1, m)
      BY ReadableIs
<1>a. PICK all : all = rb \o data
      OBVIOUS
<1> DEFINE need == IF Len(all) < 3 THEN 3 ELSE 3 + all[3]
<1>3. TryFrame(rb, units) =
        [frame |-> IF Len(all) >= need THEN SubSeq(all, 1, need) ELSE <<>>,
         rbuf  |-> IF Len(all) >= need THEN <<>> ELSE all,
         rest  |-> SubSeq(units, (IF Len(all) >= need THEN need - Len(rb) ELSE Len(data)) + 1, Len(units))]
      BY <1>2, <1>a DEF TryFrame
<1> HIDE DEF data
<1>4. /\ all \in Seq(Nat) /\ Len(all) = Len(rb) + m /\ Len(rb) \in Nat /\ m \in Nat
      /\ \A i \in 1..Len(rb) : all[i] = rb[i]
      /\ \A i \in 1..m : all[Len(rb) + i] = units[i].val
  <2>1. rb \in Seq(Nat) /\ m \in Nat
        OBVIOUS
  <2>2. /\ all \in Seq(Nat) /\ Len(all) = Len(rb) + Len(data) /\ Len(rb) \in Nat
        /\ \A i \in 1..Len(rb) : all[i] = rb[i]
        /\ \A i \in 1..Len(data) : all[Len(rb) + i] = data[i]
    <3>1. data \in Seq(Nat)
          BY <1>1
    <3>2. QED BY <3>1, <1>a, <2>1, ConcatIs
  <2>3. QED BY <1>1, <2>1, <2>2
<1>5. need \in Nat /\ Len(all) \in Nat
      BY <1>4
<1>6. CASE Len(all) >= need
  <2>1. Len(all) >= 3 /\ need = 3 + all[3]
        BY <1>4, <1>5, <1>6
  <2>2. Len(rb) < need
    <3>1. CASE Len(rb) < 3
          BY <1>4, <1>5, <2>1, <3>1
    <3>2. CASE Len(rb) >= 3
      <4>1. rb[3] = all[3] /\ Len(rb) < 3 + rb[3]
            BY <1>4, <3>2 DEF Incomplete
      <4>2. QED BY <2>1, <4>1
    <3>3. QED BY <1>4, <3>1, <3>2
  <2> HIDE DEF need
  <2>3. TryFrame(rb, units) =
            [frame |-> SubSeq(all, 1, need), rbuf |-> <<>>,
             rest |-> SubSeq(units, (need - Len(rb)) + 1, Len(units))]
        BY <1>3, <1>6
  <2>4. QED BY <1>4, <1>5, <1>6, <2>1, <2>2, <2>3
<1>7. CASE Len(all) < need
  <2>1. Incomplete(all)
        BY <1>4, <1>5, <1>7 DEF Incomplete
  <2>a. ~(Len(all) >= need)
        BY <1>5, <1>7
  <2> HIDE DEF need
  <2>2. TryFrame(rb, units) = [frame |-> <<>>, rbuf |-> all, rest |-> SubSeq(units, m + 1, Len(units))]
        BY <1>1, <1>3, <2>a
  <2>3. QED BY <1>4, <2>1, <2>2
<1> HIDE DEF need
<1>8. Len(all) >= need \/ Len(all) < need
      BY <1>5
<1>9. QED BY <1>6, <1>7, <1>8

LEMMA RestIs ==
    ASSUME NEW units \in Seq(Unit), NEW later \in Seq(Unit), NEW u \in 0..Len(units)
    PROVE  LET us == units \o later
               rest == SubSeq(units, u + 1, Len(units)) \o later
           IN  /\ rest \in Seq(Unit) /\ Len(rest) = Len(us) - u /\ Len(us) = Len(units) + Len(later)
               /\ \A i \in 1..(Len(us) - u) : rest[i] = us[u + i]
<1> DEFINE r == SubSeq(units, u + 1, Len(units))
<1>1. r \in Seq(Unit) /\ Len(r) = Len(units) - u /\ \A i \in 1..(Len(units) - u) : r[i] = units[u + i]
      OBVIOUS
<1> HIDE DEF r
<1>2. PICK us, rest : us = units \o later /\ rest = r \o later
      OBVIOUS
<1>3. /\ Len(us) = Len(units) + Len(later) /\ Len(units) \in Nat /\ Len(later) \in Nat
      /\ \A i \in 1..Len(units) : us[i] = units[i]
      /\ \A i \in 1..Len(later) : us[Len(units) + i] = later[i]
      BY <1>2, ConcatIs
<1>4. /\ rest \in Seq(Unit) /\ Len(rest) = Len(r) + Len(later)
      /\ \A i \in 1..Len(r) : rest[i] = r[i]
      /\ \A i \in 1..Len(later) : rest[Len(r) + i] = later[i]
  <2>1. r \in Seq(Unit)
        BY <1>1
  <2>2. QED BY <2>1, <1>2, ConcatIs
<1>5. ASSUME NEW i \in 1..(Len(us) - u)
      PROVE  rest[i] = us[u + i]
  <2>1. CASE i <= Len(r)
        BY <1>1, <1>3, <1>4, <2>1
  <2>2. CASE i > Len(r)
    <3>1. i - Len(r) \in 1..Len(later) /\ Len(r) + (i - Len(r)) = i
          BY <1>1, <1>3, <2>2
    <3>2. u + i = Len(units) + (i - Len(r))
          BY <1>1, <1>3
    <3>3. QED BY <1>3, <1>4, <3>1, <3>2, ZenonT(60)
  <2>3. QED BY <1>1, <2>1, <2>2
<1>6. Len(rest) = Len(us) - u
      BY <1>1, <1>3, <1>4
<1>7. QED BY <1>2, <1>3, <1>4, <1>5, <1>6 DEF r

(* Once u data units are taken, the rest is carried behind them. *)
LEMMA TakenUnits ==
    ASSUME NEW B \in Seq(Nat), NEW b \in Nat, NEW rb \in Seq(Nat), NEW us \in Seq(Unit),
           NEW n \in Nat, Carries(B, b, rb, us, n),
           NEW u \in 0..n, NEW rest \in Seq(Unit), Len(rest) = Len(us) - u,
           \A i \in 1..(Len(us) - u) : rest[i] = us[u + i],
           NEW c \in Nat, NEW sb \in Seq(Nat), c + Len(sb) = b + Len(rb) + u,
           \A i \in 1..Len(sb) : sb[i] = B[c + i]
    PROVE  Carries(B, c, sb, rest, n - u)
<1>1. /\ Len(us) \in Nat /\ Len(rb) \in Nat /\ Len(sb) \in Nat /\ Len(B) \in Nat
      /\ u \in Nat /\ u <= n
      OBVIOUS
<1>2. n <= Len(us) /\ b + Len(rb) + n <= Len(B)
      BY <1>1 DEF Carries
<1>3. ASSUME NEW i \in 1..(n - u)
      PROVE  rest[i].kind = "data" /\ rest[i].val = B[c + Len(sb) + i]
  <2>1. u + i \in 1..n /\ i \in 1..(Len(us) - u)
        BY <1>1, <1>2
  <2>a. b + Len(rb) + (u + i) = c + Len(sb) + i
    <3>1. \A x, y \in Nat : x = y + u => y + (u + i) = x + i
          BY <1>1
    <3>2. c + Len(sb) \in Nat /\ b + Len(rb) \in Nat
          BY <1>1
    <3>3. QED BY <3>1, <3>2
  <2>2. us[u + i].kind = "data" /\ us[u + i].val = B[b + Len(rb) + (u + i)]
        BY <2>1 DEF Carries
  <2>3. QED BY <2>1, <2>2, <2>a
<1>4. ASSUME NEW i \in ((n - u) + 1)..Len(rest)
      PROVE  rest[i].kind # "data"
  <2>1. u + i \in (n + 1)..Len(us) /\ i \in 1..(Len(us) - u)
        BY <1>1, <1>2, SMTT(60)
  <2>2. us[u + i].kind # "data"
        BY <2>1 DEF Carries
  <2>3. QED BY <2>1, <2>2
<1>5. n - u <= Len(rest) /\ c + Len(sb) + (n - u) <= Len(B)
      BY <1>1, <1>2
<1>6. QED BY <1>3, <1>4, <1>5 DEF Carries

(* A turn of _try_frame returns the next frame that was sent, or none, and   *)
(* loses nothing of what follows.                                            *)
LEMMA TryKeeps ==
    ASSUME NEW to \in Seq(WholeFrame), NEW from \in Seq(WholeFrame),
           NEW rb \in Seq(Nat), Incomplete(rb),
           NEW units \in Seq(Unit), NEW later \in Seq(Unit),
           NEW missing \in Nat, NEW extra \in Nat,
           Delivers(to, from, rb, units \o later, missing, extra)
    PROVE  LET try == TryFrame(rb, units)
           IN  /\ try.rbuf \in Seq(Nat) /\ Incomplete(try.rbuf) /\ try.rest \in Seq(Unit)
               /\ \/ /\ try.frame = <<>>
                     /\ Delivers(to, from, try.rbuf, try.rest \o later, missing, extra)
                  \/ /\ Len(from) < Len(to) /\ try.frame = to[Len(from) + 1]
                     /\ try.frame \in WholeFrame /\ try.frame # <<>>
                     /\ Delivers(to, Append(from, try.frame), try.rbuf, try.rest \o later, missing, extra)
<1>1. PICK us : us = units \o later
      OBVIOUS
<1>2. /\ us \in Seq(Unit) /\ Len(us) = Len(units) + Len(later)
      /\ Len(units) \in Nat /\ Len(later) \in Nat
      /\ \A i \in 1..Len(units) : us[i] = units[i]
      BY <1>1, ConcatIs
<1>3. PICK B, b : B = Flat(to) /\ b = Len(Flat(from))
      OBVIOUS
<1>4. B \in Seq(Nat) /\ b \in Nat
      BY <1>3, FramesAreStrings DEF ByteString
<1>5. PICK n \in Nat : /\ Carries(B, b, rb, us, n)
                       /\ Len(us) = n + extra /\ Len(B) = b + Len(rb) + n + missing
      BY <1>1, <1>3 DEF Delivers
<1>6. /\ n <= Len(us)
      /\ \A i \in 1..n : us[i].kind = "data" /\ us[i].val = B[b + Len(rb) + i]
      /\ \A i \in (n + 1)..Len(us) : us[i].kind # "data"
      /\ b + Len(rb) + n <= Len(B)
      /\ \A i \in 1..Len(rb) : rb[i] = B[b + i]
      BY <1>5 DEF Carries
<1>7. PICK m \in 0..Len(units) : m <= n /\ (m < Len(units) => m = n)
  <2>1. CASE n <= Len(units)
    <3>1. n \in 0..Len(units) /\ n <= n
          BY <1>2, <2>1
    <3>2. QED BY <3>1
  <2>2. CASE ~(n <= Len(units))
    <3>1. Len(units) \in 0..Len(units) /\ Len(units) <= n /\ ~(Len(units) < Len(units))
          BY <1>2, <2>2
    <3>2. QED BY <3>1
  <2>3. QED BY <2>1, <2>2
<1>a. m \in Nat /\ m <= Len(units) /\ Len(rb) \in Nat /\ Len(B) \in Nat /\ n <= Len(us)
      BY <1>2, <1>4, <1>6, <1>7, SMTT(60)
<1>8. /\ \A i \in 1..m : units[i].kind = "data" /\ units[i].val = B[b + Len(rb) + i]
      /\ m < Len(units) => units[m + 1].kind # "data"
  <2>1. ASSUME NEW i \in 1..m
        PROVE  units[i].kind = "data" /\ units[i].val = B[b + Len(rb) + i]
    <3>1. i \in 1..n /\ i \in 1..Len(units)
          BY <1>2, <1>7, <1>a
    <3>2. QED BY <1>2, <1>6, <3>1
  <2>2. ASSUME m < Len(units) PROVE units[m + 1].kind # "data"
    <3>1. m + 1 \in (n + 1)..Len(us) /\ m + 1 \in 1..Len(units)
          BY <1>2, <1>7, <1>a, <2>2
    <3>2. QED BY <1>2, <1>6, <3>1
  <2>3. QED BY <2>1, <2>2
<1>9. PICK all \in Seq(Nat) :
              /\ Len(all) = Len(rb) + m
              /\ \A i \in 1..Len(rb) : all[i] = rb[i]
              /\ \A i \in 1..m : all[Len(rb) + i] = units[i].val
              /\ \/ /\ Incomplete(all)
                    /\ TryFrame(rb, units) = [frame |-> <<>>, rbuf |-> all,
                                              rest |-> SubSeq(units, m + 1, Len(units))]
                 \/ \E need \in Nat :
                    /\ Len(all) >= 3 /\ need = 3 + all[3] /\ Len(rb) < need /\ need <= Len(all)
                    /\ TryFrame(rb, units) =
                         [frame |-> SubSeq(all, 1, need), rbuf |-> <<>>,
                          rest |-> SubSeq(units, (need - Len(rb)) + 1, Len(units))]
      BY <1>8, TryFrameIs, ZenonT(60)
<1>10. /\ Len(rb) \in Nat /\ Len(all) \in Nat /\ Len(B) \in Nat /\ b + Len(all) <= Len(B)
       /\ Len(all) = Len(rb) + m
       /\ \A i \in 1..Len(rb) : all[i] = rb[i]
       /\ \A i \in 1..m : all[Len(rb) + i] = units[i].val
  <2>1. /\ Len(all) = Len(rb) + m
        /\ \A i \in 1..Len(rb) : all[i] = rb[i]
        /\ \A i \in 1..m : all[Len(rb) + i] = units[i].val
        BY <1>9
  <2>2. b + Len(rb) + n <= Len(B)
        BY <1>6
  <2>3. Len(rb) \in Nat /\ Len(all) \in Nat /\ Len(B) \in Nat
        BY <1>4
  <2>4. b \in Nat /\ m \in Nat /\ m <= n
        BY <1>4, <1>7, <1>a
  <2>5. \A p, q, l \in Nat : q = p + m /\ b + p + n <= l => b + q <= l
        BY <2>4
  <2>6. b + Len(all) <= Len(B)
        BY <2>1, <2>2, <2>3, <2>5, Zenon
  <2>7. QED BY <2>1, <2>3, <2>6
<1>11. ASSUME NEW i \in 1..Len(all)
       PROVE  all[i] = B[b + i]
  <2>1. CASE i <= Len(rb)
    <3>1. i \in 1..Len(rb)
          BY <1>10, <2>1
    <3>2. QED BY <1>6, <1>10, <3>1
  <2>2. CASE i > Len(rb)
    <3>1. i - Len(rb) \in 1..m /\ Len(rb) + (i - Len(rb)) = i /\ b + Len(rb) + (i - Len(rb)) = b + i
          BY <1>4, <1>a, <1>10, <2>2
    <3>2. all[Len(rb) + (i - Len(rb))] = units[i - Len(rb)].val
          BY <1>10, <3>1
    <3>3. units[i - Len(rb)].val = B[b + Len(rb) + (i - Len(rb))]
          BY <1>8, <3>1
    <3>4. QED BY <3>1, <3>2, <3>3
  <2>3. QED BY <1>10, <2>1, <2>2
<1>12. CASE /\ Incomplete(all)
            /\ TryFrame(rb, units) = [frame |-> <<>>, rbuf |-> all,
                                      rest |-> SubSeq(units, m + 1, Len(units))]
  <2>1. PICK r : r = SubSeq(units, m + 1, Len(units))
        OBVIOUS
  <2>2. r \in Seq(Unit)
        BY <2>1
  <2>3. PICK rest : rest = r \o later
        OBVIOUS
  <2>4. /\ rest \in Seq(Unit) /\ Len(rest) = Len(us) - m
        /\ \A i \in 1..(Len(us) - m) : rest[i] = us[m + i]
        BY <1>1, <2>1, <2>3, RestIs
  <2>5. m \in 0..n /\ b + Len(all) = b + Len(rb) + m
        BY <1>4, <1>7, <1>a, <1>10
  <2>a. us \in Seq(Unit) /\ \A i \in 1..Len(all) : all[i] = B[b + i]
        BY <1>2, <1>11
  <2>6. Carries(B, b, all, rest, n - m)
        BY <1>4, <1>5, <2>4, <2>5, <2>a, TakenUnits
  <2>7. n - m \in Nat /\ Len(rest) = (n - m) + extra /\ Len(B) = b + Len(all) + (n - m) + missing
    <3>1. Len(us) = n + extra /\ Len(B) = b + Len(rb) + n + missing
          BY <1>5
    <3>2. n - m \in Nat
          BY <2>5
    <3>3. Len(rest) = (n - m) + extra
      <4>1. Len(rest) = Len(us) - m
            BY <2>4
      <4>2. QED BY <1>a, <3>1, <4>1
    <3>4. Len(B) = b + Len(all) + (n - m) + missing
          BY <1>4, <1>a, <1>10, <3>1
    <3>5. QED BY <3>2, <3>3, <3>4
  <2>8. Delivers(to, from, all, rest, missing, extra)
    <3>1. Len(from) <= Len(to) /\ \A i \in 1..Len(from) : to[i] = from[i]
          BY DEF Delivers
    <3>2. QED BY <1>3, <2>6, <2>7, <3>1 DEF Delivers
  <2>9. QED BY <1>12, <2>1, <2>2, <2>3, <2>8
<1>13. ASSUME NEW need \in Nat,
              /\ Len(all) >= 3 /\ need = 3 + all[3] /\ Len(rb) < need /\ need <= Len(all)
              /\ TryFrame(rb, units) =
                   [frame |-> SubSeq(all, 1, need), rbuf |-> <<>>,
                    rest |-> SubSeq(units, (need - Len(rb)) + 1, Len(units))]
       PROVE  LET try == TryFrame(rb, units)
              IN  /\ try.rbuf \in Seq(Nat) /\ Incomplete(try.rbuf) /\ try.rest \in Seq(Unit)
                  /\ Len(from) < Len(to) /\ try.frame = to[Len(from) + 1]
                  /\ try.frame \in WholeFrame /\ try.frame # <<>>
                  /\ Delivers(to, Append(from, try.frame), try.rbuf, try.rest \o later, missing, extra)
  <2>1. /\ to \in Seq(ByteString) /\ from \in Seq(ByteString)
        /\ Len(from) <= Len(to) /\ \A i \in 1..Len(from) : to[i] = from[i]
        BY FramesAreStrings DEF Delivers
  <2>2. Len(from) < Len(to)
    <3>1. Len(from) # Len(to)
      <4> SUFFICES ASSUME Len(from) = Len(to) PROVE FALSE
          OBVIOUS
      <4>1. from = to
            BY <2>1, SeqEqual
      <4>2. QED BY <1>3, <1>4, <1>10, <1>13, <4>1
    <3>2. QED BY <2>1, <3>1
  <2>3. PICK x : x = to[Len(from) + 1]
        OBVIOUS
  <2>4. x \in WholeFrame
        BY <2>2, <2>3
  <2>5. x \in Seq(Nat) /\ Len(x) >= 3 /\ Len(x) = 3 + x[3]
        BY <2>4 DEF WholeFrame, ByteString
  <2>6. b + Len(x) <= Len(B) /\ \A i \in 1..Len(x) : B[b + i] = x[i]
        BY <1>3, <2>1, <2>2, <2>3, FlatNext
  <2>7. all[3] = x[3] /\ need = Len(x)
    <3>1. Len(all) >= 3 /\ need = 3 + all[3] /\ 3 \in 1..Len(all) /\ 3 \in 1..Len(x)
          BY <1>10, <1>13, <2>5
    <3>2. all[3] = B[b + 3] /\ B[b + 3] = x[3]
          BY <1>11, <2>6, <3>1
    <3>3. QED BY <2>5, <3>1, <3>2
  <2>8. SubSeq(all, 1, need) = x
    <3>1. PICK y : y = SubSeq(all, 1, need)
          OBVIOUS
    <3>a. need \in 1..Len(all)
      <4>1. need <= Len(all) /\ need \in Nat
            BY <1>13
      <4>2. Len(all) \in Nat
            OBVIOUS
      <4>3. need >= 3
            BY <2>5, <2>7
      <4>4. QED BY <4>1, <4>2, <4>3
    <3>2. y \in Seq(Nat) /\ Len(y) = need /\ \A i \in 1..need : y[i] = all[i]
          BY <3>1, <3>a, SMTT(60)
    <3>3. ASSUME NEW i \in 1..Len(y) PROVE y[i] = x[i]
      <4>1. i \in 1..need /\ need \in Nat /\ need <= Len(all) /\ Len(all) \in Nat
            BY <1>10, <3>2, <3>a
      <4>2. i \in 1..Len(all)
            BY <4>1
      <4>3. i \in 1..Len(x) /\ y[i] = all[i]
            BY <2>7, <3>2, <4>1
      <4>4. QED BY <1>11, <2>6, <4>2, <4>3
    <3>4. y = x
          BY <2>5, <2>7, <3>2, <3>3, SeqEqual
    <3>5. QED BY <3>1, <3>4
  <2>9. PICK r, u : u = need - Len(rb) /\ r = SubSeq(units, u + 1, Len(units))
        OBVIOUS
  <2>10. u \in 0..Len(units) /\ u \in 0..n /\ u \in Nat
    <3>1. need \in Nat /\ Len(rb) < need /\ need <= Len(all)
          BY <1>13
    <3>2. u \in Nat /\ u <= m
      <4>1. u = need - Len(rb)
            BY <2>9
      <4>2. Len(all) = Len(rb) + m /\ Len(rb) \in Nat /\ m \in Nat
            BY <1>10, <1>a
      <4>3. QED BY <3>1, <4>1, <4>2
    <3>3. QED BY <1>7, <1>a, <3>2
  <2>11. r \in Seq(Unit)
        BY <2>9, <2>10, SMTT(60)
  <2>12. PICK rest : rest = r \o later
        OBVIOUS
  <2>13. /\ rest \in Seq(Unit) /\ Len(rest) = Len(us) - u
         /\ \A i \in 1..(Len(us) - u) : rest[i] = us[u + i]
        BY <1>1, <2>9, <2>10, <2>12, RestIs
  <2>14. PICK longer : longer = Append(from, x)
        OBVIOUS
  <2>15. /\ longer \in Seq(WholeFrame) /\ Len(longer) = Len(from) + 1
         /\ \A i \in 1..Len(from) : longer[i] = from[i]
         /\ longer[Len(from) + 1] = x
        BY <2>4, <2>14, AppendIs
  <2>16. Len(Flat(longer)) = b + Len(x)
    <3>1. x \in ByteString /\ Flat(from) \in ByteString
          BY <2>4, FramesAreStrings DEF WholeFrame
    <3>2. Flat(longer) = Flat(from) \o x
          BY <2>1, <2>14, <3>1, FlatAppend
    <3>3. QED BY <1>3, <3>1, <3>2 DEF ByteString
  <2>17. /\ Len(longer) <= Len(to)
         /\ \A i \in 1..Len(longer) : to[i] = longer[i]
    <3>1. Len(from) \in Nat /\ Len(to) \in Nat
          OBVIOUS
    <3>2. ASSUME NEW i \in 1..Len(longer) PROVE to[i] = longer[i]
      <4>1. i \in 1..Len(from) \/ i = Len(from) + 1
            BY <2>15, <3>1
      <4>2. QED BY <2>1, <2>3, <2>15, <4>1
    <3>3. QED BY <2>2, <2>15, <3>1, <3>2
  <2>d. /\ u = Len(x) - Len(rb) /\ Len(x) \in Nat /\ Len(rb) \in Nat /\ b \in Nat
        BY <1>4, <1>10, <2>5, <2>7, <2>9
  <2>18. b + Len(x) \in Nat /\ <<>> \in Seq(Nat) /\ Len(<<>>) = 0
         /\ (b + Len(x)) + Len(<<>>) = b + Len(rb) + u
        BY <2>d
  <2>a. PICK c, sb : c = b + Len(x) /\ sb = <<>>
        OBVIOUS
  <2>b. /\ c \in Nat /\ sb \in Seq(Nat) /\ c + Len(sb) = b + Len(rb) + u
        /\ \A i \in 1..Len(sb) : sb[i] = B[c + i]
        BY <2>18, <2>a
  <2>c. us \in Seq(Unit) /\ u \in 0..n
        BY <1>2, <2>10
  <2>19. Carries(B, c, sb, rest, n - u)
        BY <1>4, <1>5, <2>13, <2>b, <2>c, TakenUnits
  <2>20. Delivers(to, longer, <<>>, rest, missing, extra)
    <3>a. Len(us) = n + extra /\ Len(B) = b + Len(rb) + n + missing /\ c + Len(sb) = b + Len(rb) + u
          BY <1>5, <2>b
    <3>b. /\ n - u \in Nat /\ u \in Nat /\ n \in Nat /\ b + Len(rb) \in Nat /\ Len(us) \in Nat
          /\ Len(rest) = Len(us) - u
          BY <1>2, <2>10, <2>13, <2>d
    <3>c. Len(rest) = (n - u) + extra
          BY <3>a, <3>b
    <3>d. Len(B) = c + Len(sb) + (n - u) + missing
          BY <3>a, <3>b, SMTT(60)
    <3>1. n - u \in Nat /\ Len(rest) = (n - u) + extra /\ Len(B) = c + Len(sb) + (n - u) + missing
          BY <3>b, <3>c, <3>d
    <3>2. QED BY <1>3, <2>16, <2>17, <2>19, <2>a, <3>1 DEF Delivers
  <2>21. Incomplete(<<>>) /\ x # <<>>
        BY <2>5, <2>18 DEF Incomplete
  <2>22. TryFrame(rb, units) = [frame |-> x, rbuf |-> <<>>, rest |-> r]
        BY <1>13, <2>8, <2>9
  <2>23. QED BY <2>2, <2>3, <2>4, <2>11, <2>12, <2>14, <2>18, <2>20, <2>21, <2>22
<1>14. QED BY <1>9, <1>12, <1>13

(* Cut off anywhere, or followed by something that is no data, the stream    *)
(* still carries what it carries.                                            *)
LEMMA CutStream ==
    ASSUME NEW to \in Seq(WholeFrame), NEW from \in Seq(WholeFrame), NEW rb \in Seq(Nat),
           NEW us \in Seq(Unit), NEW missing \in Nat, NEW extra \in Nat,
           Delivers(to, from, rb, us, missing, extra),
           NEW vs \in Seq(Unit),
           \A i \in 1..Len(vs) : IF i <= Len(us) THEN vs[i] = us[i] ELSE vs[i].kind # "data"
    PROVE  \E m, x \in Nat : Delivers(to, from, rb, vs, m, x)
<1>1. PICK B, b : B = Flat(to) /\ b = Len(Flat(from))
      OBVIOUS
<1>2. B \in Seq(Nat) /\ b \in Nat /\ Len(B) \in Nat /\ Len(rb) \in Nat /\ Len(us) \in Nat /\ Len(vs) \in Nat
      BY <1>1, FramesAreStrings DEF ByteString
<1>3. PICK n \in Nat : /\ Carries(B, b, rb, us, n)
                       /\ Len(us) = n + extra /\ Len(B) = b + Len(rb) + n + missing
      BY <1>1 DEF Delivers
<1>4. Len(from) <= Len(to) /\ \A i \in 1..Len(from) : to[i] = from[i]
      BY DEF Delivers
<1>5. PICK k \in Nat : k <= n /\ k <= Len(vs) /\ (k < n => k = Len(vs))
  <2>1. CASE n <= Len(vs)
    <3>1. n \in Nat /\ n <= n /\ ~(n < n)
          OBVIOUS
    <3>2. QED BY <2>1, <3>1
  <2>2. CASE ~(n <= Len(vs))
    <3>1. Len(vs) \in Nat /\ Len(vs) <= n /\ Len(vs) <= Len(vs)
          BY <1>2, <2>2
    <3>2. QED BY <3>1
  <2>3. QED BY <2>1, <2>2
<1>6. n <= Len(us) /\ b + Len(rb) + n <= Len(B) /\ \A i \in 1..Len(rb) : rb[i] = B[b + i]
      BY <1>3 DEF Carries
<1>7. ASSUME NEW i \in 1..k
      PROVE  vs[i].kind = "data" /\ vs[i].val = B[b + Len(rb) + i]
  <2>1. i \in 1..n /\ i \in 1..Len(vs) /\ i <= Len(us)
        BY <1>2, <1>5, <1>6
  <2>2. us[i].kind = "data" /\ us[i].val = B[b + Len(rb) + i]
        BY <1>3, <2>1 DEF Carries
  <2>3. QED BY <2>1, <2>2
<1>8. ASSUME NEW i \in (k + 1)..Len(vs)
      PROVE  vs[i].kind # "data"
  <2>1. i \in (n + 1)..Len(vs) /\ i \in 1..Len(vs)
        BY <1>2, <1>5
  <2>2. CASE i <= Len(us)
    <3>1. i \in (n + 1)..Len(us)
          BY <2>1, <2>2, <1>2
    <3>2. QED BY <1>3, <2>1, <2>2, <3>1 DEF Carries
  <2>3. QED BY <2>1, <2>2
<1>9. b + Len(rb) + k <= Len(B)
      BY <1>2, <1>5, <1>6
<1>10. Carries(B, b, rb, vs, k)
      BY <1>5, <1>6, <1>7, <1>8, <1>9 DEF Carries
<1>11. PICK m, x \in Nat : Len(vs) = k + x /\ Len(B) = b + Len(rb) + k + m
  <2>1. Len(vs) - k \in Nat /\ Len(vs) = k + (Len(vs) - k)
        BY <1>2, <1>5
  <2>2. Len(B) - (b + Len(rb) + k) \in Nat /\ Len(B) = b + Len(rb) + k + (Len(B) - (b + Len(rb) + k))
        BY <1>2, <1>9
  <2>3. QED BY <2>1, <2>2
<1>12. Delivers(to, from, rb, vs, m, x)
      BY <1>1, <1>4, <1>10, <1>11 DEF Delivers
<1>13. QED BY <1>12

LEMMA DataIs ==
    ASSUME NEW x \in Seq(Nat)
    PROVE  /\ Data(x) \in Seq(Unit) /\ Len(Data(x)) = Len(x)
           /\ \A i \in 1..Len(x) : Data(x)[i].kind = "data" /\ Data(x)[i].val = x[i]
<1>1. Data(x) \in Seq(Unit) /\ Len(Data(x)) = Len(x)
      BY DataUnits
<1>2. Data(x) = [i \in 1..Len(x) |-> [kind |-> "data", val |-> x[i]]]
      BY DEF Data
<1>3. QED BY <1>1, <1>2

(* A frame that is sent follows what was sent before. *)
LEMMA SentFollows ==
    ASSUME NEW to \in Seq(WholeFrame), NEW from \in Seq(WholeFrame), NEW rb \in Seq(Nat),
           NEW us \in Seq(Unit), Delivers(to, from, rb, us, 0, 0), NEW x \in WholeFrame
    PROVE  Delivers(Append(to, x), from, rb, us \o Data(x), 0, 0)
<1>1. x \in ByteString /\ x \in Seq(Nat) /\ Len(x) \in Nat
      BY DEF WholeFrame, ByteString
<1>2. PICK t, vs : t = Append(to, x) /\ vs = us \o Data(x)
      OBVIOUS
<1>3. /\ t \in Seq(WholeFrame) /\ Len(t) = Len(to) + 1 /\ Len(to) \in Nat
      /\ \A i \in 1..Len(to) : t[i] = to[i]
      BY <1>2, AppendIs
<1>4. /\ Data(x) \in Seq(Unit) /\ Len(Data(x)) = Len(x)
      /\ \A i \in 1..Len(x) : Data(x)[i].kind = "data" /\ Data(x)[i].val = x[i]
      BY <1>1, DataIs
<1>5. Data(x) \in Seq(Unit)
      BY <1>4
<1>6. /\ vs \in Seq(Unit) /\ Len(vs) = Len(us) + Len(Data(x)) /\ Len(us) \in Nat
      /\ \A i \in 1..Len(us) : vs[i] = us[i]
      /\ \A i \in 1..Len(Data(x)) : vs[Len(us) + i] = Data(x)[i]
      BY <1>2, <1>5, ConcatIs
<1>7. PICK B, C, b : B = Flat(to) /\ C = Flat(t) /\ b = Len(Flat(from))
      OBVIOUS
<1>8. B \in Seq(Nat) /\ b \in Nat /\ Len(B) \in Nat /\ Len(rb) \in Nat /\ to \in Seq(ByteString)
      BY <1>7, FramesAreStrings DEF ByteString
<1>9. C = B \o x
      BY <1>1, <1>2, <1>7, <1>8, FlatAppend
<1>10. /\ C \in Seq(Nat) /\ Len(C) = Len(B) + Len(x)
       /\ \A i \in 1..Len(B) : C[i] = B[i]
       /\ \A i \in 1..Len(x) : C[Len(B) + i] = x[i]
  <2>1. B \in Seq(Nat) /\ x \in Seq(Nat)
        BY <1>1, <1>8
  <2>2. QED BY <1>9, <2>1, ConcatIs
<1>11. PICK n \in Nat : Carries(B, b, rb, us, n) /\ Len(us) = n + 0 /\ Len(B) = b + Len(rb) + n + 0
       BY <1>7 DEF Delivers
<1>12. Len(us) = n /\ Len(B) = b + Len(rb) + n
       BY <1>8, <1>11
<1>13. /\ Len(from) <= Len(t)
       /\ \A i \in 1..Len(from) : t[i] = from[i]
  <2>1. Len(from) <= Len(to) /\ \A i \in 1..Len(from) : to[i] = from[i]
        BY DEF Delivers
  <2>2. Len(from) \in Nat
        OBVIOUS
  <2>3. QED BY <1>3, <2>1, <2>2
<1>14. ASSUME NEW i \in 1..Len(vs)
       PROVE  vs[i].kind = "data" /\ vs[i].val = C[b + Len(rb) + i]
  <2>1. CASE i <= n
    <3>1. i \in 1..n /\ i \in 1..Len(us)
          BY <1>12, <2>1
    <3>2. us[i].kind = "data" /\ us[i].val = B[b + Len(rb) + i]
          BY <1>11, <3>1 DEF Carries
    <3>3. b + Len(rb) + i \in 1..Len(B)
          BY <1>8, <1>12, <3>1
    <3>4. vs[i] = us[i] /\ C[b + Len(rb) + i] = B[b + Len(rb) + i]
          BY <1>6, <1>10, <3>1, <3>3
    <3>5. QED BY <3>2, <3>4
  <2>2. CASE ~(i <= n)
    <3>1. PICK j \in Nat : i = n + j
      <4>1. i \in Nat /\ i - n \in Nat /\ i = n + (i - n)
            BY <1>12, <1>6, <1>4, <1>1, <2>2
      <4>2. QED BY <4>1
    <3>2. j \in 1..Len(x)
      <4>1. Len(vs) = n + Len(x)
            BY <1>4, <1>6, <1>12
      <4>2. QED BY <1>1, <2>2, <3>1, <4>1
    <3>3. vs[n + j] = Data(x)[j]
          BY <1>4, <1>6, <1>12, <3>2
    <3>4. C[Len(B) + j] = x[j]
          BY <1>10, <3>2
    <3>5. b + Len(rb) + (n + j) = Len(B) + j
          BY <1>8, <1>12
    <3>6. Data(x)[j].kind = "data" /\ Data(x)[j].val = x[j]
          BY <1>4, <3>2
    <3>7. QED BY <3>1, <3>3, <3>4, <3>5, <3>6
  <2>3. QED BY <2>1, <2>2
<1>15. ASSUME NEW i \in 1..Len(rb)
       PROVE  rb[i] = C[b + i]
  <2>1. b + i \in 1..Len(B)
        BY <1>8, <1>12
  <2>2. rb[i] = B[b + i]
        BY <1>11 DEF Carries
  <2>3. QED BY <1>10, <2>1, <2>2
<1>16. Len(C) = b + Len(rb) + Len(vs) /\ Len(vs) \in Nat
  <2>1. Len(C) = Len(B) + Len(x) /\ Len(vs) = Len(us) + Len(x)
        BY <1>4, <1>6, <1>10
  <2>2. QED BY <1>1, <1>8, <1>12, <2>1
<1>17. Carries(C, b, rb, vs, Len(vs))
  <2>1. Len(vs) <= Len(vs) /\ b + Len(rb) + Len(vs) <= Len(C)
    <3>1. Len(rb) \in Nat /\ b \in Nat
          BY <1>8
    <3>2. QED BY <1>16, <3>1
  <2>2. ASSUME NEW i \in (Len(vs) + 1)..Len(vs)
        PROVE  vs[i].kind # "data"
    <3>1. Len(vs) \in Nat
          BY <1>16
    <3>2. QED BY <3>1
  <2>3. \A i \in 1..Len(vs) : vs[i].kind = "data" /\ vs[i].val = C[b + Len(rb) + i]
        BY <1>14
  <2>4. \A i \in 1..Len(rb) : rb[i] = C[b + i]
        BY <1>15
  <2>5. \A i \in (Len(vs) + 1)..Len(vs) : vs[i].kind # "data"
        BY <2>2
  <2>6. QED BY <2>1, <2>3, <2>4, <2>5 DEF Carries
<1>18. Len(vs) = Len(vs) + 0 /\ Len(C) = b + Len(rb) + Len(vs) + 0
       BY <1>8, <1>16
<1>19. Delivers(t, from, rb, vs, 0, 0)
       BY <1>7, <1>13, <1>16, <1>17, <1>18 DEF Delivers
<1>20. QED BY <1>2, <1>19

(* When nothing is missing, what is on its way completes what was sent. *)
LEMMA NothingMissing ==
    ASSUME NEW to \in Seq(WholeFrame), NEW from \in Seq(WholeFrame), NEW rb \in Seq(Nat),
           NEW us \in Seq(Unit), Delivers(to, from, rb, us, 0, 0)
    PROVE  Bytes(us) \in Seq(Nat) /\ Flat(to) = (Flat(from) \o rb) \o Bytes(us)
<1>1. PICK B, F, b : B = Flat(to) /\ F = Flat(from) /\ b = Len(F)
      OBVIOUS
<1>2. B \in Seq(Nat) /\ F \in Seq(Nat) /\ b \in Nat /\ Len(B) \in Nat /\ Len(rb) \in Nat /\ Len(us) \in Nat
      BY <1>1, FramesAreStrings DEF ByteString
<1>3. PICK n \in Nat : Carries(B, b, rb, us, n) /\ Len(us) = n + 0 /\ Len(B) = b + Len(rb) + n + 0
      BY <1>1 DEF Delivers
<1>4. n = Len(us) /\ Len(B) = b + Len(rb) + n
      BY <1>2, <1>3
<1>5. PICK d : d = Bytes(us)
      OBVIOUS
<1>6. d \in Seq(Nat) /\ Len(d) = n /\ \A i \in 1..n : d[i] = us[i].val
  <2>1. SubSeq(us, 1, n) = us /\ n \in 0..Len(us)
        BY <1>2, <1>4
  <2>2. QED BY <1>5, <2>1, ReadableBytes
<1>7. \A i \in 1..b : F[i] = B[i]
  <2>1. /\ to \in Seq(ByteString) /\ from \in Seq(ByteString)
        /\ Len(from) <= Len(to) /\ \A i \in 1..Len(from) : to[i] = from[i]
        BY FramesAreStrings DEF Delivers
  <2>2. QED BY <1>1, <2>1, FlatOfPrefix
<1>8. PICK Fr, W : Fr = F \o rb /\ W = Fr \o d
      OBVIOUS
<1>9. /\ Fr \in Seq(Nat) /\ Len(Fr) = b + Len(rb)
      /\ \A i \in 1..Len(F) : Fr[i] = F[i]
      /\ \A i \in 1..Len(rb) : Fr[Len(F) + i] = rb[i]
  <2>1. F \in Seq(Nat) /\ rb \in Seq(Nat)
        BY <1>2
  <2>2. QED BY <1>1, <1>8, <2>1, ConcatIs
<1>10. /\ W \in Seq(Nat) /\ Len(W) = Len(Fr) + Len(d)
       /\ \A i \in 1..Len(Fr) : W[i] = Fr[i]
       /\ \A i \in 1..Len(d) : W[Len(Fr) + i] = d[i]
  <2>1. Fr \in Seq(Nat) /\ d \in Seq(Nat)
        BY <1>6, <1>9
  <2>2. QED BY <1>8, <2>1, ConcatIs
<1>11. Len(W) = Len(B)
  <2>1. Len(Fr) = b + Len(rb) /\ Len(d) = n /\ Len(W) = Len(Fr) + Len(d)
        BY <1>6, <1>9, <1>10
  <2>2. QED BY <1>2, <1>4, <2>1
<1>12. ASSUME NEW i \in 1..Len(W)
       PROVE  W[i] = B[i]
  <2>0. i \in Nat /\ i >= 1 /\ i <= b + Len(rb) + n
        BY <1>2, <1>4, <1>11
  <2>1. CASE i <= b
    <3>1. i \in 1..b /\ i \in 1..Len(F) /\ i \in 1..Len(Fr)
      <4>1. Len(Fr) = b + Len(rb) /\ Len(F) = b
            BY <1>1, <1>9
      <4>2. QED BY <1>2, <2>0, <2>1, <4>1
    <3>2. QED BY <1>7, <1>9, <1>10, <3>1
  <2>2. CASE i > b /\ i <= b + Len(rb)
    <3>1. PICK j \in 1..Len(rb) : i = b + j
      <4>1. i - b \in 1..Len(rb) /\ i = b + (i - b)
            BY <1>2, <2>0, <2>2
      <4>2. QED BY <4>1
    <3>2. i \in 1..Len(Fr)
      <4>1. Len(Fr) = b + Len(rb)
            BY <1>9
      <4>2. QED BY <1>2, <2>0, <2>2, <4>1
    <3>3. W[i] = Fr[i]
          BY <1>10, <3>2
    <3>4. Fr[b + j] = rb[j]
          BY <1>1, <1>9, <3>1
    <3>5. rb[j] = B[b + j]
          BY <1>3, <3>1 DEF Carries
    <3>6. QED BY <3>1, <3>3, <3>4, <3>5
  <2>3. CASE i > b + Len(rb)
    <3>1. PICK j \in 1..n : i = b + Len(rb) + j
      <4>1. i - (b + Len(rb)) \in 1..n /\ i = b + Len(rb) + (i - (b + Len(rb)))
            BY <1>2, <2>0, <2>3
      <4>2. QED BY <4>1
    <3>2. Len(Fr) = b + Len(rb) /\ j \in 1..Len(d)
          BY <1>6, <1>9, <3>1
    <3>3. W[Len(Fr) + j] = d[j]
          BY <1>10, <3>2
    <3>4. d[j] = us[j].val /\ us[j].val = B[b + Len(rb) + j]
          BY <1>3, <1>6, <3>1 DEF Carries
    <3>5. QED BY <3>1, <3>2, <3>3, <3>4
  <2>4. QED BY <1>2, <2>0, <2>1, <2>2, <2>3
<1>13. W = B
       BY <1>2, <1>10, <1>11, <1>12, SeqEqual
<1>14. QED BY <1>1, <1>5, <1>6, <1>8, <1>13

-----------------------------------------------------------------------------
(* What the channel keeps about the two streams. *)

BufferTypes ==
    /\ rbuf \in [Ends -> Seq(Nat)]
    /\ bio \in [Ends -> Seq(Unit)] /\ chunk \in [Ends -> Seq(Unit)]
    /\ said \in [Ends -> Seq(WholeFrame)] /\ got \in [Ends -> Seq(WholeFrame)]

(* Nothing is read or written by an end that is not up, and nothing is held  *)
(* by a reader that is not about to pass it on.                              *)
Idle ==
    /\ \A e \in Ends : shut[e] => state[e] = "closed"
    /\ \A e \in Ends : reader[e] # "trying" => Up(e)
    /\ \A e \in Ends : chunk[e] # <<>> => reader[e] = "holding"
    /\ \A e \in Ends : ~Up(e) => said[e] = <<>> /\ got[e] = <<>>
    /\ ~Up("server") => \A e \in Ends : rbuf[e] = <<>> /\ bio[e] = <<>>

(* The messages on the wires while the two ends greet each other. *)
Greetings ==
    /\ phase["server"] \in {"start", "accepting"} =>
          /\ phase["client"] \in {"start", "hello_sent", "failed"}
          /\ wire["client"] = <<>> /\ Len(wire["server"]) <= 1
          /\ phase["client"] = "start" => wire["server"] = <<>>
    /\ phase["server"] = "flight_sent" =>
          \/ phase["client"] = "hello_sent" /\ Len(wire["client"]) <= 1 /\ wire["server"] = <<>>
          \/ phase["client"] = "awaiting" /\ wire["client"] = <<>> /\ Len(wire["server"]) <= 1
          \/ phase["client"] = "failed" /\ Len(wire["server"]) <= 1
    /\ phase["server"] = "up" => phase["client"] \in {"awaiting", "up", "failed"}

(* READY is the first frame that is sent to the client. *)
FramesTo(e) == IF e = "client" THEN <<READY>> \o said["server"] ELSE said["client"]
FramesFrom(e) ==
    IF e = "server" THEN got["server"]
    ELSE IF Up("client") THEN <<READY>> \o got["client"] ELSE <<>>
Pending(e) == bio[e] \o (chunk[e] \o wire[e])

Connected == ~cut /\ \A e \in Ends : ~shut[e]

Flows(to, from, rb, us) ==
    Incomplete(rb) /\ \E missing, extra \in Nat : Delivers(to, from, rb, us, missing, extra)

StreamOK(e) ==
    /\ Flows(FramesTo(e), FramesFrom(e), rbuf[e], Pending(e))
    /\ Connected => Delivers(FramesTo(e), FramesFrom(e), rbuf[e], Pending(e), 0, 0)

Streams == Up("server") => \A e \in Ends : phase[e] \in {"awaiting", "up"} => StreamOK(e)

FInv == CInv /\ BufferTypes /\ Idle /\ Greetings /\ Streams

LEMMA StreamSame ==
    ASSUME NEW e \in Ends, StreamOK(e),
           FramesTo(e)' = FramesTo(e), FramesFrom(e)' = FramesFrom(e),
           rbuf'[e] = rbuf[e], Pending(e)' = Pending(e), Connected' => Connected
    PROVE  StreamOK(e)'
BY DEF StreamOK, Flows

(* What is left of a wire that is cut off, or has got something that is no    *)
(* data behind it.                                                           *)
CutOf(v, w) == \A i \in 1..Len(v) : IF i <= Len(w) THEN v[i] = w[i] ELSE v[i].kind # "data"

LEMMA CutBehind ==
    ASSUME NEW a \in Seq(Unit), NEW v \in Seq(Unit), NEW w \in Seq(Unit), CutOf(v, w)
    PROVE  CutOf(a \o v, a \o w) /\ a \o v \in Seq(Unit) /\ a \o w \in Seq(Unit)
<1>1. PICK av, aw : av = a \o v /\ aw = a \o w
      OBVIOUS
<1>2. /\ av \in Seq(Unit) /\ Len(av) = Len(a) + Len(v) /\ Len(a) \in Nat /\ Len(v) \in Nat
      /\ \A i \in 1..Len(a) : av[i] = a[i]
      /\ \A i \in 1..Len(v) : av[Len(a) + i] = v[i]
      BY <1>1, ConcatIs
<1>3. /\ aw \in Seq(Unit) /\ Len(aw) = Len(a) + Len(w) /\ Len(w) \in Nat
      /\ \A i \in 1..Len(a) : aw[i] = a[i]
      /\ \A i \in 1..Len(w) : aw[Len(a) + i] = w[i]
      BY <1>1, ConcatIs
<1>4. ASSUME NEW i \in 1..Len(av)
      PROVE  IF i <= Len(aw) THEN av[i] = aw[i] ELSE av[i].kind # "data"
  <2>1. CASE i <= Len(a)
    <3>1. i \in 1..Len(a) /\ i <= Len(aw)
          BY <1>2, <1>3, <2>1
    <3>2. QED BY <1>2, <1>3, <3>1
  <2>2. CASE ~(i <= Len(a))
    <3>1. PICK j \in 1..Len(v) : i = Len(a) + j
      <4>1. Len(av) = Len(a) + Len(v) /\ Len(a) \in Nat /\ Len(v) \in Nat
            BY <1>2
      <4>2. i - Len(a) \in 1..Len(v) /\ i = Len(a) + (i - Len(a))
            BY <2>2, <4>1
      <4>3. QED BY <4>2
    <3>2. av[i] = v[j]
          BY <1>2, <3>1
    <3>3. CASE j <= Len(w)
      <4>1. j \in 1..Len(w) /\ i <= Len(aw)
        <5>1. Len(aw) = Len(a) + Len(w) /\ Len(a) \in Nat /\ Len(w) \in Nat
              BY <1>2, <1>3
        <5>2. QED BY <3>1, <3>3, <5>1
      <4>2. aw[i] = w[j] /\ v[j] = w[j]
            BY <1>3, <3>1, <3>3, <4>1 DEF CutOf
      <4>3. QED BY <3>2, <4>1, <4>2
    <3>4. CASE ~(j <= Len(w))
      <4>1. ~(i <= Len(aw))
        <5>1. Len(aw) = Len(a) + Len(w) /\ Len(a) \in Nat /\ Len(w) \in Nat
              BY <1>2, <1>3
        <5>2. QED BY <3>1, <3>4, <5>1
      <4>2. v[j].kind # "data"
            BY <3>4 DEF CutOf
      <4>3. QED BY <3>2, <4>1, <4>2
    <3>5. QED BY <3>3, <3>4
  <2>3. QED BY <2>1, <2>2
<1>5. QED BY <1>1, <1>2, <1>3, <1>4 DEF CutOf

LEMMA CutSome ==
    ASSUME NEW w \in Seq(Unit), NEW u \in Unit, u.kind # "data"
    PROVE  /\ CutOf(w, w) /\ CutOf(Append(w, u), w)
           /\ \A n \in 0..Len(w) : CutOf(SubSeq(w, 1, n), w)
           /\ \A n \in 0..(Len(w) + 1) : CutOf(SubSeq(Append(w, u), 1, n), w)
<1>1. CutOf(w, w)
      BY DEF CutOf
<1>2. PICK t : t = Append(w, u)
      OBVIOUS
<1>3. /\ t \in Seq(Unit) /\ Len(t) = Len(w) + 1 /\ Len(w) \in Nat
      /\ \A i \in 1..Len(w) : t[i] = w[i]
      /\ t[Len(w) + 1] = u
      BY <1>2, AppendIs
<1>4. \A i \in 1..(Len(w) + 1) : i <= Len(w) \/ i = Len(w) + 1
      BY <1>3
<1>5. CutOf(t, w)
      BY <1>3, <1>4 DEF CutOf
<1>6. ASSUME NEW n \in 0..Len(w)
      PROVE  CutOf(SubSeq(w, 1, n), w)
      BY DEF CutOf
<1>7. ASSUME NEW n \in 0..(Len(w) + 1)
      PROVE  CutOf(SubSeq(t, 1, n), w)
  <2>1. PICK c : c = SubSeq(t, 1, n)
        OBVIOUS
  <2>2. Len(c) = n /\ \A i \in 1..n : c[i] = t[i] /\ i \in 1..Len(t)
        BY <1>3, <2>1
  <2>3. \A i \in 1..Len(c) : IF i <= Len(w) THEN c[i] = w[i] ELSE c[i].kind # "data"
        BY <1>3, <1>5, <2>2 DEF CutOf
  <2>4. QED BY <2>1, <2>3 DEF CutOf
<1>8. QED BY <1>1, <1>2, <1>5, <1>6, <1>7

LEMMA StreamCut ==
    ASSUME NEW e \in Ends, StreamOK(e), BufferTypes, WireOK, WireOK', ~Connected',
           FramesTo(e) \in Seq(WholeFrame), FramesFrom(e) \in Seq(WholeFrame),
           FramesTo(e)' = FramesTo(e), FramesFrom(e)' = FramesFrom(e), rbuf'[e] = rbuf[e],
           bio'[e] = bio[e], chunk'[e] = chunk[e], CutOf(wire'[e], wire[e])
    PROVE  StreamOK(e)'
<1>1. PICK to, from, rb, us, vs : /\ to = FramesTo(e) /\ from = FramesFrom(e) /\ rb = rbuf[e]
                                  /\ us = Pending(e) /\ vs = Pending(e)'
      OBVIOUS
<1>2. /\ to \in Seq(WholeFrame) /\ from \in Seq(WholeFrame) /\ rb \in Seq(Nat)
      /\ bio[e] \in Seq(Unit) /\ chunk[e] \in Seq(Unit) /\ wire[e] \in Seq(Unit) /\ wire'[e] \in Seq(Unit)
      BY <1>1 DEF BufferTypes, WireOK
<1>3. /\ CutOf(chunk[e] \o wire'[e], chunk[e] \o wire[e])
      /\ chunk[e] \o wire'[e] \in Seq(Unit) /\ chunk[e] \o wire[e] \in Seq(Unit)
      BY <1>2, CutBehind
<1>4. /\ CutOf(bio[e] \o (chunk[e] \o wire'[e]), bio[e] \o (chunk[e] \o wire[e]))
      /\ bio[e] \o (chunk[e] \o wire'[e]) \in Seq(Unit) /\ bio[e] \o (chunk[e] \o wire[e]) \in Seq(Unit)
      BY <1>2, <1>3, CutBehind
<1>5. us \in Seq(Unit) /\ vs \in Seq(Unit) /\ CutOf(vs, us)
      BY <1>1, <1>4 DEF Pending
<1>6. Incomplete(rb) /\ \E m, x \in Nat : Delivers(to, from, rb, us, m, x)
      BY <1>1 DEF StreamOK, Flows
<1>7. \E m, x \in Nat : Delivers(to, from, rb, vs, m, x)
  <2>1. PICK m, x \in Nat : Delivers(to, from, rb, us, m, x)
        BY <1>6
  <2>2. \A i \in 1..Len(vs) : IF i <= Len(us) THEN vs[i] = us[i] ELSE vs[i].kind # "data"
        BY <1>5 DEF CutOf
  <2>3. QED BY <1>2, <1>5, <2>1, <2>2, CutStream
<1>8. Flows(to, from, rb, vs)
      BY <1>6, <1>7 DEF Flows
<1>9. Flows(FramesTo(e)', FramesFrom(e)', rbuf'[e], Pending(e)')
      BY <1>1, <1>8
<1>10. QED BY <1>9 DEF StreamOK

(* A turn of _try_frame keeps the stream, the frame it returns being the next. *)
LEMMA StreamTry ==
    ASSUME NEW to \in Seq(WholeFrame), NEW from \in Seq(WholeFrame), NEW rb \in Seq(Nat),
           NEW units \in Seq(Unit), NEW later \in Seq(Unit), NEW C \in {0, 1},
           Flows(to, from, rb, units \o later),
           C = 1 => Delivers(to, from, rb, units \o later, 0, 0)
    PROVE  LET try == TryFrame(rb, units)
           IN  /\ try.rbuf \in Seq(Nat) /\ try.rest \in Seq(Unit)
               /\ try.frame # <<>> => try.frame \in WholeFrame /\ try.frame = to[Len(from) + 1]
               /\ LET after == IF try.frame = <<>> THEN from ELSE Append(from, try.frame)
                  IN  /\ Flows(to, after, try.rbuf, try.rest \o later)
                      /\ C = 1 => Delivers(to, after, try.rbuf, try.rest \o later, 0, 0)
<1>1. Incomplete(rb) /\ \E m, x \in Nat : Delivers(to, from, rb, units \o later, m, x)
      BY DEF Flows
<1>2. PICK frame, sb, rest : LET try == TryFrame(rb, units)
                             IN  frame = try.frame /\ sb = try.rbuf /\ rest = try.rest
      OBVIOUS
<1>3. ASSUME NEW m \in Nat, NEW x \in Nat, Delivers(to, from, rb, units \o later, m, x)
      PROVE  /\ sb \in Seq(Nat) /\ Incomplete(sb) /\ rest \in Seq(Unit)
             /\ \/ frame = <<>> /\ Delivers(to, from, sb, rest \o later, m, x)
                \/ /\ Len(from) < Len(to) /\ frame = to[Len(from) + 1]
                   /\ frame \in WholeFrame /\ frame # <<>>
                   /\ Delivers(to, Append(from, frame), sb, rest \o later, m, x)
      BY <1>1, <1>2, <1>3, TryKeeps
<1>4. PICK after : after = IF frame = <<>> THEN from ELSE Append(from, frame)
      OBVIOUS
<1>5. ASSUME NEW m \in Nat, NEW x \in Nat, Delivers(to, from, rb, units \o later, m, x)
      PROVE  Delivers(to, after, sb, rest \o later, m, x)
      BY <1>3, <1>4, <1>5
<1>6. PICK m, x \in Nat : Delivers(to, from, rb, units \o later, m, x)
      BY <1>1
<1>7. /\ sb \in Seq(Nat) /\ Incomplete(sb) /\ rest \in Seq(Unit)
      /\ frame # <<>> => frame \in WholeFrame /\ frame = to[Len(from) + 1]
      BY <1>3, <1>6
<1>8. Flows(to, after, sb, rest \o later)
      BY <1>5, <1>6, <1>7 DEF Flows
<1>9. C = 1 => Delivers(to, after, sb, rest \o later, 0, 0)
  <2>1. 0 \in Nat
        OBVIOUS
  <2>2. QED BY <1>5, <2>1
<1>10. QED BY <1>2, <1>4, <1>7, <1>8, <1>9

LEMMA ReadyIsWhole == READY \in WholeFrame
BY DEF READY, WholeFrame, ByteString

LEMMA StreamTypes ==
    ASSUME BufferTypes, NEW e \in Ends
    PROVE  FramesTo(e) \in Seq(WholeFrame) /\ FramesFrom(e) \in Seq(WholeFrame)
<1>1. \A s \in Seq(WholeFrame) : <<READY>> \o s \in Seq(WholeFrame)
      BY ReadyIsWhole
<1>2. /\ said["server"] \in Seq(WholeFrame) /\ said["client"] \in Seq(WholeFrame)
      /\ got["server"] \in Seq(WholeFrame) /\ got["client"] \in Seq(WholeFrame)
      /\ <<>> \in Seq(WholeFrame)
      BY DEF BufferTypes, Ends
<1>3. QED BY <1>1, <1>2 DEF FramesTo, FramesFrom

LEMMA FInvInit == Init => FInv
<1> SUFFICES ASSUME Init PROVE FInv
    OBVIOUS
<1>1. BufferTypes
  <2>1. <<>> \in Seq(Nat) /\ <<>> \in Seq(Unit) /\ <<>> \in Seq(WholeFrame)
        OBVIOUS
  <2>2. QED BY <2>1 DEF Init, BufferTypes
<1>2. Idle /\ Greetings /\ Streams
      BY DEF Init, Idle, Greetings, Streams, Up, Ends
<1>3. QED BY <1>1, <1>2, CInvInit DEF FInv

-----------------------------------------------------------------------------
(* establish() *)

LEMMA FRefuseStep ==
    ASSUME FInv, CInv', NEW e \in Ends, phase[e] # "up", NEW t \in {<<>>, <<Alert>>}, Refuse(e, t),
           t # <<>> => e = "server" \/ (phase["client"] = "hello_sent" /\ wire["client"] # <<>>)
    PROVE  FInv'
<1>1. /\ phase \in [Ends -> {"start", "hello_sent", "accepting", "flight_sent", "awaiting",
                             "up", "failed"}]
      /\ wire \in [Ends -> Seq(Unit)]
      BY DEF FInv, CInv, TypeOK, WireOK
<1>2. /\ phase' = [phase EXCEPT ![e] = "failed"]
      /\ wire' = [wire EXCEPT ![e] = <<>>, ![Other(e)] = @ \o t]
      /\ shut' = [shut EXCEPT ![e] = TRUE]
      /\ state' = [state EXCEPT ![e] = "closed"]
      /\ UNCHANGED <<cfg, mode, cut, rbuf, bio, reader, chunk, keys, said, got, handed>>
      BY DEF Refuse, input, ledger
<1>3. BufferTypes'
      BY <1>2 DEF FInv, BufferTypes
<1>4. Idle'
      BY <1>1, <1>2 DEF FInv, CInv, TypeOK, Idle, Up, Ends
<1>5. /\ wire["client"] \in Seq(Unit) /\ wire["server"] \in Seq(Unit) /\ t \in Seq(Unit)
      /\ wire["server"] \o <<>> = wire["server"]
  <2>1. /\ wire["client"] \in Seq(Unit) /\ wire["server"] \in Seq(Unit)
        BY <1>1 DEF Ends
  <2>2. \A w \in Seq(Unit) : w \o <<>> = w
        OBVIOUS
  <2>3. <<>> \in Seq(Unit) /\ <<Alert>> \in Seq(Unit)
        BY Units
  <2>4. QED BY <2>1, <2>2, <2>3
<1>6. CASE e = "server"
  <2>1. phase'["server"] = "failed"
        BY <1>1, <1>2, <1>6 DEF Ends
  <2>2. QED BY <1>3, <1>4, <2>1 DEF FInv, Greetings, Streams, Up
<1>7. CASE e = "client"
  <2>1. /\ phase'["client"] = "failed" /\ phase'["server"] = phase["server"]
        /\ wire'["client"] = <<>> /\ wire'["server"] = wire["server"] \o t
        BY <1>1, <1>2, <1>7 DEF Other, Ends
  <2>2. Greetings'
    <3>1. CASE t = <<>>
      <4>1. wire'["server"] = wire["server"]
            BY <1>5, <2>1, <3>1
      <4>2. phase["server"] = "flight_sent" => Len(wire["server"]) <= 1
        <5>1. wire["server"] = <<>> => Len(wire["server"]) <= 1
              OBVIOUS
        <5>2. QED BY <5>1 DEF FInv, Greetings
      <4>3. QED BY <2>1, <4>1, <4>2 DEF FInv, Greetings
    <3>2. CASE t # <<>>
      <4>1. phase["client"] = "hello_sent" /\ wire["client"] # <<>> /\ t = <<Alert>>
            BY <1>7, <3>2
      <4>2. phase["server"] = "flight_sent" => wire["server"] = <<>>
            BY <4>1 DEF FInv, Greetings
      <4>3. phase["server"] \notin {"start", "accepting", "up"}
            BY <4>1 DEF FInv, Greetings
      <4>4. <<>> \o <<Alert>> = <<Alert>> /\ Len(<<Alert>>) <= 1
            BY <1>5
      <4>5. QED BY <2>1, <4>1, <4>2, <4>3, <4>4 DEF Greetings
    <3>3. QED BY <3>1, <3>2
  <2>3. ASSUME Up("server")
        PROVE  StreamOK("server")'
    <3>1. StreamOK("server") /\ "server" \in Ends
          BY <2>3 DEF FInv, Streams, Up, Ends
    <3>2. CutOf(wire'["server"], wire["server"])
      <4>1. Alert \in Unit /\ Alert.kind # "data"
            BY Units DEF Alert
      <4>2. wire["server"] \o <<Alert>> = Append(wire["server"], Alert)
            BY <1>5, <4>1
      <4>3. QED BY <1>5, <2>1, <4>1, <4>2, CutSome
    <3>3. /\ FramesTo("server")' = FramesTo("server") /\ FramesFrom("server")' = FramesFrom("server")
          /\ rbuf'["server"] = rbuf["server"] /\ bio'["server"] = bio["server"]
          /\ chunk'["server"] = chunk["server"]
          BY <1>2 DEF FramesTo, FramesFrom
    <3>4. ~Connected'
          BY <1>2 DEF FInv, CInv, TypeOK, Connected
    <3>5. QED BY <3>1, <3>2, <3>3, <3>4, StreamCut, StreamTypes DEF FInv, CInv
  <2>4. Streams'
        BY <2>1, <2>3 DEF Streams, Up, Ends
  <2>5. QED BY <1>3, <1>4, <2>2, <2>4 DEF FInv
<1>8. QED BY <1>6, <1>7 DEF Ends

(* A step of the greeting before the server is done leaves the buffers alone. *)
LEMMA NoStreamYet ==
    ASSUME FInv, CInv', ~Up("server")', NEW e \in Ends, phase[e] # "up",
           UNCHANGED <<shut, state, rbuf, bio, reader, chunk, said, got>>,
           NEW p \in {"hello_sent", "accepting", "flight_sent", "awaiting"},
           phase' = [phase EXCEPT ![e] = p],
           Greetings'
    PROVE  FInv'
<1>1. BufferTypes'
      BY DEF FInv, BufferTypes
<1>2. Idle'
      BY DEF FInv, CInv, TypeOK, Idle, Up, Ends
<1>3. QED BY <1>1, <1>2 DEF FInv, Streams

LEMMA FStartStep ==
    ASSUME FInv, CInv', NEW e \in Ends, Start(e)
    PROVE  FInv'
<1>1. /\ phase \in [Ends -> {"start", "hello_sent", "accepting", "flight_sent", "awaiting",
                             "up", "failed"}]
      /\ wire \in [Ends -> Seq(Unit)] /\ phase[e] = "start"
      BY DEF FInv, CInv, TypeOK, WireOK, Start
<1>2. CASE e = "server"
  <2>1. phase' = [phase EXCEPT !.server = "accepting"] /\ wire' = wire
        BY <1>2 DEF Start
  <2>2. Greetings' /\ ~Up("server")'
        BY <1>1, <1>2, <2>1 DEF FInv, Greetings, Up, Ends
  <2>3. QED BY <1>1, <1>2, <2>1, <2>2, NoStreamYet DEF Start, input, ledger
<1>3. CASE e = "client"
  <2>1. PICK u : wire' = [wire EXCEPT !.server = <<u>>] /\ phase' = [phase EXCEPT !.client = "hello_sent"]
        BY <1>3 DEF Start
  <2>2. Len(<<u>>) <= 1
        OBVIOUS
  <2>3. wire'["server"] = <<u>> /\ wire'["client"] = wire["client"] /\ phase'["client"] = "hello_sent"
        /\ phase'["server"] = phase["server"]
        BY <1>1, <2>1 DEF Ends
  <2>4. phase["client"] = "start"
        BY <1>1, <1>3
  <2>5. phase["server"] \notin {"flight_sent", "up"}
        BY <2>4 DEF FInv, Greetings
  <2>6. Greetings' /\ ~Up("server")'
        BY <2>2, <2>3, <2>5 DEF FInv, Greetings, Up
  <2>7. QED BY <1>1, <1>3, <2>1, <2>6, NoStreamYet DEF Start, input, ledger
<1>4. QED BY <1>2, <1>3 DEF Ends

LEMMA FServerAnswersStep ==
    ASSUME FInv, CInv', ServerAnswers
    PROVE  FInv'
<1>1. /\ phase \in [Ends -> {"start", "hello_sent", "accepting", "flight_sent", "awaiting",
                             "up", "failed"}]
      /\ wire \in [Ends -> Seq(Unit)] /\ phase["server"] = "accepting"
      /\ wire["server"] # <<>> /\ "server" \in Ends /\ Other("server") = "client"
      BY Others DEF FInv, CInv, TypeOK, WireOK, ServerAnswers, Reads, Ends
<1>2. CASE Refuse("server", <<Alert>>)
      BY <1>1, <1>2, FRefuseStep
<1>3. CASE ~Refuse("server", <<Alert>>)
  <2>1. PICK u : Reply("server", Head(wire["server"]).val, <<u>>, "flight_sent")
        BY <1>3 DEF ServerAnswers
  <2>2. /\ wire'["server"] = Tail(wire["server"]) /\ wire'["client"] = wire["client"] \o <<u>>
        /\ phase'["server"] = "flight_sent" /\ phase'["client"] = phase["client"]
        BY <1>1, <2>1 DEF Reply, Ends
  <2>3. /\ phase["client"] \in {"hello_sent", "failed"} /\ wire["client"] = <<>>
        /\ Len(wire["server"]) <= 1
        BY <1>1 DEF FInv, Greetings
  <2>4. wire["server"] \in Seq(Unit)
        BY <1>1
  <2>5. wire'["server"] = <<>>
        BY <1>1, <2>2, <2>3, <2>4
  <2>6. Len(wire'["client"]) <= 1 /\ Len(wire'["server"]) <= 1
        BY <2>2, <2>3, <2>5
  <2>7. Greetings' /\ ~Up("server")'
        BY <2>2, <2>3, <2>5, <2>6 DEF Greetings, Up
  <2>8. phase' = [phase EXCEPT !["server"] = "flight_sent"]
        BY <2>1 DEF Reply
  <2>9. UNCHANGED <<shut, state, rbuf, bio, reader, chunk, said, got>>
        BY <2>1 DEF Reply, input, ledger
  <2>10. QED BY <1>1, <2>7, <2>8, <2>9, NoStreamYet
<1>4. QED BY <1>2, <1>3

LEMMA FClientVerifiesStep ==
    ASSUME FInv, CInv', ClientVerifies
    PROVE  FInv'
<1>1. /\ phase \in [Ends -> {"start", "hello_sent", "accepting", "flight_sent", "awaiting",
                             "up", "failed"}]
      /\ wire \in [Ends -> Seq(Unit)] /\ phase["client"] = "hello_sent"
      /\ wire["client"] # <<>> /\ "client" \in Ends /\ Other("client") = "server"
      BY Others DEF FInv, CInv, TypeOK, WireOK, ClientVerifies, Reads, Ends
<1>2. CASE Refuse("client", <<Alert>>)
      BY <1>1, <1>2, FRefuseStep
<1>3. CASE ~Refuse("client", <<Alert>>)
  <2>1. Reply("client", 0, <<Finished>>, "awaiting")
        BY <1>3 DEF ClientVerifies
  <2>2. /\ wire'["client"] = Tail(wire["client"]) /\ wire'["server"] = wire["server"] \o <<Finished>>
        /\ phase'["client"] = "awaiting" /\ phase'["server"] = phase["server"]
        BY <1>1, <2>1 DEF Reply, Ends
  <2>3. phase["server"] \notin {"start", "accepting", "up"}
        BY <1>1 DEF FInv, Greetings
  <2>4. phase["server"] = "flight_sent" => Len(wire["client"]) <= 1 /\ wire["server"] = <<>>
        BY <1>1 DEF FInv, Greetings
  <2>5. wire["client"] \in Seq(Unit)
        BY <1>1
  <2>6. phase["server"] = "flight_sent" => wire'["client"] = <<>> /\ Len(wire'["server"]) <= 1
        BY <1>1, <2>2, <2>4, <2>5
  <2>7. Greetings' /\ ~Up("server")'
        BY <2>2, <2>3, <2>6 DEF Greetings, Up
  <2>8. phase' = [phase EXCEPT !["client"] = "awaiting"]
        BY <2>1 DEF Reply
  <2>9. UNCHANGED <<shut, state, rbuf, bio, reader, chunk, said, got>>
        BY <2>1 DEF Reply, input, ledger
  <2>10. QED BY <1>1, <2>7, <2>8, <2>9, NoStreamYet
<1>4. QED BY <1>2, <1>3

(* READY is all that is on its way when the server is done. *)
LEMMA FirstStreams ==
    /\ Delivers(<<>>, <<>>, <<>>, <<>>, 0, 0)
    /\ Delivers(<<READY>>, <<>>, <<>>, Data(READY), 0, 0)
    /\ Incomplete(<<>>)
<1>1. Flat(<<>>) = <<>>
  <2>1. <<>> \in Seq(ByteString)
        OBVIOUS
  <2>2. QED BY <2>1, FlatByFunction
<1>2. Len(<<>>) = 0 /\ 0 \in Nat
      OBVIOUS
<1>3. Carries(<<>>, 0, <<>>, <<>>, 0)
      BY <1>2 DEF Carries
<1>4. Delivers(<<>>, <<>>, <<>>, <<>>, 0, 0)
  <2>1. 0 = 0 + 0 /\ 0 = 0 + 0 + 0 + 0 /\ 0 <= 0
        OBVIOUS
  <2>2. \A i \in 1..0 : FALSE
        OBVIOUS
  <2>3. QED BY <1>1, <1>2, <1>3, <2>1, <2>2 DEF Delivers
<1>5. <<>> \in Seq(WholeFrame) /\ <<>> \in Seq(Nat) /\ <<>> \in Seq(Unit)
      OBVIOUS
<1>6. Delivers(Append(<<>>, READY), <<>>, <<>>, <<>> \o Data(READY), 0, 0)
      BY <1>4, <1>5, ReadyIsWhole, SentFollows
<1>7. Append(<<>>, READY) = <<READY>>
      OBVIOUS
<1>8. <<>> \o Data(READY) = Data(READY)
  <2>1. Data(READY) \in Seq(Unit)
        BY ReadyUnits
  <2>2. QED BY <2>1
<1>9. QED BY <1>2, <1>4, <1>6, <1>7, <1>8 DEF Incomplete

LEMMA FServerAcceptsStep ==
    ASSUME FInv, CInv', ServerAccepts
    PROVE  FInv'
<1>1. /\ phase \in [Ends -> {"start", "hello_sent", "accepting", "flight_sent", "awaiting",
                             "up", "failed"}]
      /\ wire \in [Ends -> Seq(Unit)] /\ phase["server"] = "flight_sent"
      /\ wire["server"] # <<>> /\ "server" \in Ends /\ Other("server") = "client"
      BY Others DEF FInv, CInv, TypeOK, WireOK, ServerAccepts, Reads, Ends
<1>2. CASE Refuse("server", <<Alert>>) \/ Refuse("server", <<>>)
      BY <1>1, <1>2, FRefuseStep
<1>3. CASE Reply("server", 0, Data(READY), "up")
  <2>1. /\ wire'["server"] = Tail(wire["server"]) /\ wire'["client"] = wire["client"] \o Data(READY)
        /\ phase'["server"] = "up" /\ phase'["client"] = phase["client"]
        /\ UNCHANGED <<shut, cut, state, rbuf, bio, reader, chunk, said, got>>
        BY <1>1, <1>3 DEF Reply, Ends, input, ledger
  <2>2. /\ phase["client"] \in {"awaiting", "failed"} /\ Len(wire["server"]) <= 1
        /\ phase["client"] = "awaiting" => wire["client"] = <<>>
        BY <1>1 DEF FInv, Greetings
  <2>3. wire'["server"] = <<>>
    <3>1. wire["server"] \in Seq(Unit)
          BY <1>1
    <3>2. QED BY <1>1, <2>1, <2>2, <3>1
  <2>4. phase["client"] = "awaiting" => wire'["client"] = Data(READY)
    <3>1. \A s \in Seq(Unit) : <<>> \o s = s
          OBVIOUS
    <3>2. QED BY <2>1, <2>2, <3>1, ReadyUnits
  <2>5. ~Up("server") /\ ~Up("client")
        BY <1>1, <2>2 DEF Up
  <2>6. \A e \in Ends : /\ rbuf[e] = <<>> /\ bio[e] = <<>> /\ chunk[e] = <<>>
                        /\ said[e] = <<>> /\ got[e] = <<>>
        BY <2>5 DEF FInv, Idle, Ends
  <2>7. BufferTypes' /\ Idle' /\ Greetings'
        BY <2>1, <2>2, <2>5 DEF FInv, BufferTypes, Idle, Greetings, Up, Ends
  <2>8. StreamOK("server")'
    <3>1. "server" \in Ends /\ "client" \in Ends
          BY DEF Ends
    <3>2. FramesTo("server")' = <<>> /\ FramesFrom("server")' = <<>> /\ rbuf'["server"] = <<>>
          BY <2>1, <2>6, <3>1 DEF FramesTo, FramesFrom
    <3>3. Pending("server")' = <<>>
      <4>1. <<>> \o (<<>> \o <<>>) = <<>>
            OBVIOUS
      <4>2. QED BY <2>1, <2>3, <2>6, <3>1, <4>1 DEF Pending
    <3>4. 0 \in Nat
          OBVIOUS
    <3>5. QED BY <3>2, <3>3, <3>4, FirstStreams DEF StreamOK, Flows
  <2>9. ASSUME phase["client"] = "awaiting"
        PROVE  StreamOK("client")'
    <3>1. "server" \in Ends /\ "client" \in Ends
          BY DEF Ends
    <3>2. FramesTo("client")' = <<READY>> /\ FramesFrom("client")' = <<>> /\ rbuf'["client"] = <<>>
      <4>1. <<READY>> \o <<>> = <<READY>>
            OBVIOUS
      <4>2. ~Up("client")'
            BY <2>1, <2>5 DEF Up
      <4>3. QED BY <2>1, <2>6, <3>1, <4>1, <4>2 DEF FramesTo, FramesFrom
    <3>3. Pending("client")' = Data(READY)
      <4>1. \A s \in Seq(Unit) : <<>> \o (<<>> \o s) = s
            OBVIOUS
      <4>2. QED BY <2>1, <2>4, <2>6, <2>9, <3>1, <4>1, ReadyUnits DEF Pending
    <3>4. 0 \in Nat
          OBVIOUS
    <3>5. QED BY <3>2, <3>3, <3>4, FirstStreams DEF StreamOK, Flows
  <2>10. Streams'
        BY <2>1, <2>2, <2>8, <2>9 DEF Streams, Ends
  <2>11. QED BY <2>7, <2>10 DEF FInv
<1>4. QED BY <1>2, <1>3 DEF ServerAccepts

LEMMA BytesInOrder == \A a, b, c \in Seq(Nat) : (a \o b) \o c = a \o (b \o c)
BY ConcatAssociative, SMTT(60)

LEMMA UnitsTogether ==
    /\ \A a, b, c \in Seq(Unit) : (a \o b) \o c = a \o (b \o c)
    /\ \A a \in Seq(Unit) : <<>> \o a = a /\ a \o <<>> = a
    /\ \A a, b \in Seq(Unit) : a \o b \in Seq(Unit)
<1>1. \A a, b, c \in Seq(Unit) : (a \o b) \o c = a \o (b \o c)
      BY ConcatAssociative
<1>2. QED BY <1>1

LEMMA CutInTwo ==
    ASSUME NEW s \in Seq(Unit), NEW n \in 0..Len(s)
    PROVE  /\ SubSeq(s, 1, n) \in Seq(Unit) /\ SubSeq(s, n + 1, Len(s)) \in Seq(Unit)
           /\ SubSeq(s, 1, n) \o SubSeq(s, n + 1, Len(s)) = s
<1>1. PICK a, b, c : a = SubSeq(s, 1, n) /\ b = SubSeq(s, n + 1, Len(s)) /\ c = a \o b
      OBVIOUS
<1>2. /\ a \in Seq(Unit) /\ b \in Seq(Unit) /\ Len(a) = n /\ Len(b) = Len(s) - n
      /\ \A i \in 1..n : a[i] = s[i]
      /\ \A i \in 1..(Len(s) - n) : b[i] = s[n + i]
      BY <1>1
<1>3. /\ c \in Seq(Unit) /\ Len(c) = Len(a) + Len(b)
      /\ \A i \in 1..Len(a) : c[i] = a[i]
      /\ \A i \in 1..Len(b) : c[Len(a) + i] = b[i]
  <2>1. a \in Seq(Unit) /\ b \in Seq(Unit) /\ c = a \o b
        BY <1>1, <1>2
  <2>2. QED BY <2>1, ConcatIs
<1>4. Len(c) = Len(s) /\ Len(s) \in Nat
      BY <1>2, <1>3
<1>5. ASSUME NEW i \in 1..Len(s)
      PROVE  c[i] = s[i]
  <2>1. CASE i <= n
        BY <1>2, <1>3, <2>1
  <2>2. CASE ~(i <= n)
    <3>1. PICK j \in 1..(Len(s) - n) : i = n + j
      <4>1. i - n \in 1..(Len(s) - n) /\ i = n + (i - n)
            BY <1>4, <2>2
      <4>2. QED BY <4>1
    <3>2. QED BY <1>2, <1>3, <3>1
  <2>3. QED BY <2>1, <2>2
<1>6. c = s
      BY <1>3, <1>4, <1>5, SeqEqual
<1>7. QED BY <1>1, <1>2, <1>6

-----------------------------------------------------------------------------
(* The channel in use, and the network. *)

(* While the server is up a step need only keep the buffers' types, what is  *)
(* idle and the streams of the ends that are being used.                     *)
LEMMA WhileUp ==
    ASSUME FInv, CInv', Up("server"), phase' = phase, BufferTypes', Idle',
           \A e \in Ends : phase[e] \in {"awaiting", "up"} => StreamOK(e)'
    PROVE  FInv'
<1>1. Greetings'
      BY DEF FInv, Greetings, Up
<1>2. Streams'
      BY DEF Streams
<1>3. QED BY <1>1, <1>2 DEF FInv

LEMMA InUseMeansUp ==
    ASSUME FInv, NEW e \in Ends, Up(e)
    PROVE  /\ Up("server") /\ StreamOK(e)
           /\ \A x \in Ends : phase[x] \in {"awaiting", "up"} => StreamOK(x)
<1>1. Up("server")
      BY DEF FInv, CInv, Checked, Ends
<1>2. QED BY <1>1 DEF FInv, Streams, Up

(* What recv() and _await_ready have in common: e tries to read a frame, its *)
(* data being `units`, and `later` what is behind them.                      *)
LEMMA TryStep ==
    ASSUME FInv, NEW e \in Ends, StreamOK(e), NEW units \in Seq(Unit), NEW later \in Seq(Unit),
           Pending(e) = units \o later,
           NEW try, try = TryFrame(rbuf[e], units),
           rbuf' = [rbuf EXCEPT ![e] = try.rbuf], bio' = [bio EXCEPT ![e] = try.rest],
           Pending(e)' = try.rest \o later,
           FramesTo(e)' = FramesTo(e),
           FramesFrom(e)' = IF try.frame = <<>> THEN FramesFrom(e) ELSE Append(FramesFrom(e), try.frame),
           Connected' => Connected
    PROVE  /\ StreamOK(e)'
           /\ rbuf' \in [Ends -> Seq(Nat)] /\ bio' \in [Ends -> Seq(Unit)]
           /\ try.frame # <<>> =>
                 try.frame \in WholeFrame /\ try.frame = FramesTo(e)[Len(FramesFrom(e)) + 1]
<1>1. PICK to, from, rb, after : /\ to = FramesTo(e) /\ from = FramesFrom(e) /\ rb = rbuf[e]
                                 /\ after = IF try.frame = <<>> THEN from ELSE Append(from, try.frame)
      OBVIOUS
<1>2. to \in Seq(WholeFrame) /\ from \in Seq(WholeFrame) /\ rb \in Seq(Nat)
      BY <1>1, StreamTypes DEF FInv, BufferTypes
<1>3. PICK C \in {0, 1} : C = 1 <=> Connected
  <2>1. CASE Connected
        BY <2>1
  <2>2. CASE ~Connected
        BY <2>2
  <2>3. QED BY <2>1, <2>2
<1>4. Flows(to, from, rb, units \o later) /\ (C = 1 => Delivers(to, from, rb, units \o later, 0, 0))
      BY <1>1, <1>3 DEF StreamOK
<1>5. /\ try.rbuf \in Seq(Nat) /\ try.rest \in Seq(Unit)
      /\ try.frame # <<>> => try.frame \in WholeFrame /\ try.frame = to[Len(from) + 1]
      /\ Flows(to, after, try.rbuf, try.rest \o later)
      /\ C = 1 => Delivers(to, after, try.rbuf, try.rest \o later, 0, 0)
      BY <1>1, <1>2, <1>4, StreamTry
<1>6. /\ rbuf \in [Ends -> Seq(Nat)] /\ bio \in [Ends -> Seq(Unit)]
      BY DEF FInv, BufferTypes
<1>7. rbuf' \in [Ends -> Seq(Nat)] /\ bio' \in [Ends -> Seq(Unit)] /\ rbuf'[e] = try.rbuf
      BY <1>5, <1>6
<1>8. StreamOK(e)'
  <2>1. /\ Flows(FramesTo(e)', FramesFrom(e)', rbuf'[e], Pending(e)')
        /\ Connected' => Delivers(FramesTo(e)', FramesFrom(e)', rbuf'[e], Pending(e)', 0, 0)
        BY <1>1, <1>3, <1>5, <1>7
  <2>2. QED BY <2>1 DEF StreamOK
<1>9. QED BY <1>1, <1>5, <1>7, <1>8

LEMMA FRecvTryStep ==
    ASSUME FInv, CInv', NEW e \in Ends, RecvTry(e)
    PROVE  FInv'
<1>1. Up(e) /\ reader[e] = "trying"
      BY DEF RecvTry, Usable
<1>2. Up("server") /\ StreamOK(e) /\ \A x \in Ends : phase[x] \in {"awaiting", "up"} => StreamOK(x)
      BY <1>1, InUseMeansUp
<1>3. PICK try : try = TryFrame(rbuf[e], bio[e])
      OBVIOUS
<1>4. /\ rbuf' = [rbuf EXCEPT ![e] = try.rbuf]
      /\ bio' = [bio EXCEPT ![e] = try.rest]
      /\ got' = IF try.frame = <<>> THEN got ELSE [got EXCEPT ![e] = Append(@, try.frame)]
      /\ reader' = [reader EXCEPT ![e] = "waiting"] \/ reader' = reader
      /\ state' = [state EXCEPT ![e] = "broken"] \/ state' = state
      /\ UNCHANGED <<cfg, phase, mode, wire, shut, cut, chunk, keys, said, handed>>
      BY <1>3 DEF RecvTry, setup, net
<1>5. /\ bio \in [Ends -> Seq(Unit)] /\ chunk \in [Ends -> Seq(Unit)] /\ wire \in [Ends -> Seq(Unit)]
      /\ got \in [Ends -> Seq(WholeFrame)]
      BY DEF FInv, CInv, WireOK, BufferTypes
<1>6. PICK units, later : units = bio[e] /\ later = chunk[e] \o wire[e]
      OBVIOUS
<1>7. units \in Seq(Unit) /\ later \in Seq(Unit) /\ Pending(e) = units \o later
  <2>1. bio[e] \in Seq(Unit) /\ chunk[e] \in Seq(Unit) /\ wire[e] \in Seq(Unit)
        BY <1>5
  <2>2. QED BY <1>6, <2>1, UnitsTogether DEF Pending
<1>8. Pending(e)' = try.rest \o later
      BY <1>4, <1>5, <1>6 DEF Pending
<1>9. FramesTo(e)' = FramesTo(e) /\ (Connected' => Connected)
      BY <1>4 DEF FramesTo, Connected
<1>10. FramesFrom(e)' = IF try.frame = <<>> THEN FramesFrom(e) ELSE Append(FramesFrom(e), try.frame)
  <2>1. CASE try.frame = <<>>
        BY <1>4, <2>1 DEF FramesFrom, Up
  <2>2. CASE try.frame # <<>>
    <3>1. got'[e] = Append(got[e], try.frame)
          BY <1>4, <1>5, <2>2
    <3>2. CASE e = "server"
          BY <2>2, <3>1, <3>2 DEF FramesFrom
    <3>3. CASE e = "client"
      <4>1. FramesFrom(e) = <<READY>> \o got[e] /\ FramesFrom(e)' = <<READY>> \o got'[e]
            BY <1>1, <1>4, <3>3 DEF FramesFrom, Up
      <4>2. PICK g, f : g = got[e] /\ f = try.frame
            OBVIOUS
      <4>3. g \in Seq(WholeFrame)
            BY <1>5, <4>2
      <4>4. <<READY>> \o Append(g, f) = Append(<<READY>> \o g, f)
            BY <4>3
      <4>5. QED BY <2>2, <3>1, <4>1, <4>2, <4>4
    <3>4. QED BY <3>2, <3>3 DEF Ends
  <2>3. QED BY <2>1, <2>2
<1>11. /\ StreamOK(e)'
       /\ rbuf' \in [Ends -> Seq(Nat)] /\ bio' \in [Ends -> Seq(Unit)]
       /\ try.frame # <<>> => try.frame \in WholeFrame
  <2>1. try = TryFrame(rbuf[e], units)
        BY <1>3, <1>6
  <2>2. QED BY <1>2, <1>4, <1>7, <1>8, <1>9, <1>10, <2>1, TryStep
<1>12. BufferTypes'
  <2>1. got' \in [Ends -> Seq(WholeFrame)]
    <3>1. CASE try.frame = <<>>
          BY <1>4, <1>5, <3>1
    <3>2. CASE try.frame # <<>>
      <4>1. got[e] \in Seq(WholeFrame)
            BY <1>5
      <4>2. Append(got[e], try.frame) \in Seq(WholeFrame)
            BY <1>11, <3>2, <4>1
      <4>3. QED BY <1>4, <1>5, <3>2, <4>2
    <3>3. QED BY <3>1, <3>2
  <2>2. QED BY <1>4, <1>11, <2>1 DEF FInv, BufferTypes
<1>13. Idle'
  <2>1. \A x \in Ends : shut[x] => state[x] = "closed"
        BY DEF FInv, Idle
  <2>2. state[e] = "open"
        BY DEF RecvTry, Usable
  <2>3. \A x \in Ends : shut'[x] => state'[x] = "closed"
        BY <1>4, <2>1, <2>2 DEF FInv, CInv, TypeOK
  <2>4. \A x \in Ends : reader'[x] # "trying" => Up(x)'
        BY <1>1, <1>4 DEF FInv, CInv, TypeOK, Idle, Up
  <2>5. \A x \in Ends : chunk'[x] # <<>> => reader'[x] = "holding"
        BY <1>1, <1>4 DEF FInv, CInv, TypeOK, Idle
  <2>6. \A x \in Ends : ~Up(x)' => said'[x] = <<>> /\ got'[x] = <<>>
    <3>1. ASSUME NEW x \in Ends, ~Up(x)'
          PROVE  said'[x] = <<>> /\ got'[x] = <<>>
      <4>1. x # e /\ ~Up(x)
            BY <1>1, <1>4, <3>1 DEF Up
      <4>2. got'[x] = got[x]
            BY <1>4, <1>5, <4>1
      <4>3. QED BY <1>4, <4>1, <4>2 DEF FInv, Idle
    <3>2. QED BY <3>1
  <2>7. Up("server")'
        BY <1>2, <1>4 DEF Up
  <2>8. QED BY <2>3, <2>4, <2>5, <2>6, <2>7 DEF Idle
<1>14. ASSUME NEW x \in Ends, x # e, StreamOK(x)
       PROVE  StreamOK(x)'
  <2>1. /\ FramesTo(x)' = FramesTo(x) /\ FramesFrom(x)' = FramesFrom(x)
        /\ rbuf'[x] = rbuf[x] /\ Pending(x)' = Pending(x)
    <3>1. got'[x] = got[x] /\ rbuf'[x] = rbuf[x] /\ bio'[x] = bio[x]
          BY <1>4, <1>5, <1>14 DEF FInv, BufferTypes
    <3>2. Pending(x)' = Pending(x)
          BY <1>4, <3>1 DEF Pending
    <3>3. FramesTo(x)' = FramesTo(x)
          BY <1>4 DEF FramesTo
    <3>4. CASE x = "server"
          BY <3>1, <3>2, <3>3, <3>4 DEF FramesFrom
    <3>5. CASE x = "client"
          BY <1>4, <3>1, <3>2, <3>3, <3>5 DEF FramesFrom, Up
    <3>6. QED BY <3>4, <3>5 DEF Ends
  <2>2. Connected' => Connected
        BY <1>9
  <2>3. QED BY <1>14, <2>1, <2>2, StreamSame
<1>15. \A x \in Ends : phase[x] \in {"awaiting", "up"} => StreamOK(x)'
       BY <1>2, <1>11, <1>14
<1>16. phase' = phase
       BY <1>4
<1>17. QED BY <1>2, <1>12, <1>13, <1>15, <1>16, WhileUp

LEMMA FAwaitReadyStep ==
    ASSUME FInv, CInv', AwaitReady
    PROVE  FInv'
<1>1. PICK n \in 1..Len(wire["client"]) :
        LET new == SubSeq(wire["client"], 1, n)
            try == TryFrame(rbuf["client"], bio["client"] \o new)
        IN  /\ \A i \in 1..n : new[i].kind = "data"
            /\ wire' = [wire EXCEPT !.client = SubSeq(@, n + 1, Len(@))]
            /\ rbuf' = [rbuf EXCEPT !.client = try.rbuf]
            /\ bio' = [bio EXCEPT !.client = try.rest]
            /\ IF try.frame = READY
               THEN /\ phase' = [phase EXCEPT !.client = "up"]
                    /\ keys' = [keys EXCEPT !.client = KeysFor(mode["client"])]
               ELSE UNCHANGED <<phase, keys>>
      BY DEF AwaitReady
<1>2. PICK w, new, later, units, try :
        /\ w = wire["client"] /\ new = SubSeq(w, 1, n) /\ later = SubSeq(w, n + 1, Len(w))
        /\ units = bio["client"] \o new /\ try = TryFrame(rbuf["client"], units)
      OBVIOUS
<1>3. /\ wire' = [wire EXCEPT !["client"] = later]
      /\ rbuf' = [rbuf EXCEPT !["client"] = try.rbuf]
      /\ bio' = [bio EXCEPT !["client"] = try.rest]
      /\ IF try.frame = READY THEN phase' = [phase EXCEPT !["client"] = "up"] ELSE phase' = phase
      /\ \A i \in 1..n : new[i].kind = "data"
      BY <1>1, <1>2
<1>4. UNCHANGED <<cfg, shut, cut, state, reader, chunk, said, got>> /\ phase["client"] = "awaiting"
      BY DEF AwaitReady, ledger
<1>5. /\ bio \in [Ends -> Seq(Unit)] /\ chunk \in [Ends -> Seq(Unit)] /\ wire \in [Ends -> Seq(Unit)]
      /\ rbuf \in [Ends -> Seq(Nat)]
      /\ phase \in [Ends -> {"start", "hello_sent", "accepting", "flight_sent", "awaiting",
                             "up", "failed"}]
      /\ "client" \in Ends /\ "server" \in Ends
      BY DEF FInv, CInv, TypeOK, WireOK, BufferTypes, Ends
<1>6. w \in Seq(Unit) /\ n \in 0..Len(w) /\ n >= 1
      BY <1>2, <1>5
<1>7. new \in Seq(Unit) /\ later \in Seq(Unit) /\ new \o later = w
      BY <1>2, <1>6, CutInTwo
<1>8. Up("server")
  <2>1. ~NoData(w)
    <3>1. new[1] = w[1] /\ 1 \in 1..n /\ 1 \in 1..Len(w)
          BY <1>2, <1>6
    <3>2. w[1].kind = "data"
          BY <1>3, <3>1
    <3>3. QED BY <3>1, <3>2 DEF NoData
  <2>2. QED BY <1>2, <2>1 DEF FInv, CInv, ReadyIsLast
<1>9. StreamOK("client")
      BY <1>4, <1>5, <1>8 DEF FInv, Streams
<1>10. chunk["client"] = <<>> /\ reader["client"] = "trying" /\ ~Up("client") /\ got["client"] = <<>>
  <2>1. ~Up("client")
        BY <1>4 DEF Up
  <2>2. QED BY <1>5, <2>1 DEF FInv, Idle
<1>11. /\ Pending("client") = units \o later /\ Pending("client")' = try.rest \o later
       /\ units \in Seq(Unit)
  <2>1. bio["client"] \in Seq(Unit)
        BY <1>5
  <2>2. (bio["client"] \o new) \o later = bio["client"] \o (new \o later) /\ <<>> \o w = w /\ <<>> \o later = later
    <3>1. PICK b : b = bio["client"]
          OBVIOUS
    <3>2. b \in Seq(Unit) /\ new \in Seq(Unit) /\ later \in Seq(Unit) /\ w \in Seq(Unit)
          BY <1>6, <1>7, <2>1, <3>1
    <3>3. (b \o new) \o later = b \o (new \o later) /\ <<>> \o w = w /\ <<>> \o later = later
          BY <3>2, UnitsTogether, SMTT(60)
    <3>4. QED BY <3>1, <3>3
  <2>3. wire'["client"] = later /\ bio'["client"] = try.rest
        BY <1>3, <1>5
  <2>4. units \in Seq(Unit)
        BY <1>2, <1>7, <2>1, UnitsTogether
  <2>5. Pending("client") = units \o later
        BY <1>2, <1>7, <1>10, <2>2 DEF Pending
  <2>6. Pending("client")' = try.rest \o later
        BY <1>4, <1>10, <2>2, <2>3 DEF Pending
  <2>7. QED BY <2>4, <2>5, <2>6
<1>12. FramesTo("client")' = FramesTo("client") /\ (Connected' => Connected)
       BY <1>4 DEF FramesTo, Connected
<1>13. FramesFrom("client") = <<>> /\ FramesTo("client")[1] = READY /\ FramesTo("client") = <<READY>> \o said["server"]
  <2>1. said["server"] \in Seq(WholeFrame)
        BY <1>5 DEF FInv, BufferTypes
  <2>2. \A s \in Seq(WholeFrame) : (<<READY>> \o s)[1] = READY
        BY ReadyIsWhole
  <2>3. QED BY <1>10, <2>1, <2>2 DEF FramesFrom, FramesTo
<1>14. PICK after : after = IF try.frame = <<>> THEN <<>> ELSE Append(<<>>, try.frame)
       OBVIOUS
<1>15. try.frame # <<>> => try.frame = READY
  <2>1. PICK to, from, rb, C : /\ to = FramesTo("client") /\ from = FramesFrom("client")
                               /\ rb = rbuf["client"] /\ C = 0
        OBVIOUS
  <2>2. to \in Seq(WholeFrame) /\ from \in Seq(WholeFrame) /\ rb \in Seq(Nat) /\ C \in {0, 1}
        BY <1>5, <2>1, StreamTypes DEF FInv
  <2>3. Flows(to, from, rb, units \o later)
        BY <1>9, <1>11, <2>1 DEF StreamOK
  <2>4. C = 1 => Delivers(to, from, rb, units \o later, 0, 0)
        BY <2>1
  <2>5. PICK try2 : try2 = TryFrame(rb, units)
        OBVIOUS
  <2>6. units \in Seq(Unit) /\ later \in Seq(Unit)
        BY <1>7, <1>11
  <2>7. try2.frame # <<>> => try2.frame \in WholeFrame /\ try2.frame = to[Len(from) + 1]
        BY <2>2, <2>3, <2>4, <2>5, <2>6, StreamTry
  <2>8. try2 = try
        BY <1>2, <2>1, <2>5
  <2>9. Len(from) + 1 = 1
        BY <1>13, <2>1
  <2>10. QED BY <1>13, <2>1, <2>7, <2>8, <2>9
<1>16. /\ try.frame = <<>> => phase' = phase
       /\ try.frame # <<>> => phase' = [phase EXCEPT !["client"] = "up"]
  <2>1. READY # <<>>
        BY DEF READY
  <2>2. QED BY <1>3, <1>15, <2>1
<1>17. FramesFrom("client")' = IF try.frame = <<>> THEN FramesFrom("client")
                               ELSE Append(FramesFrom("client"), try.frame)
  <2>1. CASE try.frame = <<>>
        BY <1>4, <1>10, <1>13, <1>16, <2>1 DEF FramesFrom, Up
  <2>2. CASE try.frame # <<>>
    <3>1. Up("client")'
          BY <1>5, <1>16, <2>2 DEF Up
    <3>2. <<READY>> \o <<>> = <<READY>> /\ Append(<<>>, READY) = <<READY>>
          OBVIOUS
    <3>3. FramesFrom("client")' = <<READY>>
          BY <1>4, <1>10, <3>1, <3>2 DEF FramesFrom
    <3>4. QED BY <1>13, <1>15, <2>2, <3>2, <3>3
  <2>3. QED BY <2>1, <2>2
<1>18. StreamOK("client")' /\ rbuf' \in [Ends -> Seq(Nat)] /\ bio' \in [Ends -> Seq(Unit)]
  <2>1. rbuf' = [rbuf EXCEPT !["client"] = try.rbuf] /\ bio' = [bio EXCEPT !["client"] = try.rest]
        BY <1>3
  <2>2. try = TryFrame(rbuf["client"], units) /\ "client" \in Ends /\ later \in Seq(Unit)
        BY <1>2, <1>5, <1>7
  <2>3. QED BY <1>9, <1>11, <1>12, <1>17, <2>1, <2>2, TryStep
<1>19. BufferTypes'
       BY <1>4, <1>18 DEF FInv, BufferTypes
<1>20. phase'["server"] = "up" /\ phase'["client"] \in {"awaiting", "up"}
  <2>1. phase["server"] = "up"
        BY <1>8 DEF Up
  <2>2. QED BY <1>4, <1>5, <1>16, <2>1
<1>21. Idle' /\ Greetings'
  <2>1. \A x \in Ends : Up(x) => Up(x)'
        BY <1>8, <1>10, <1>20 DEF Up, Ends
  <2>2. Up("server")'
        BY <1>20 DEF Up
  <2>3. QED BY <1>4, <1>20, <2>1, <2>2 DEF FInv, Idle, Greetings
<1>22. StreamOK("server")'
  <2>1. StreamOK("server")
        BY <1>5, <1>8 DEF FInv, Streams, Up
  <2>2. rbuf'["server"] = rbuf["server"] /\ bio'["server"] = bio["server"] /\ wire'["server"] = wire["server"]
        BY <1>3, <1>5
  <2>3. /\ FramesTo("server")' = FramesTo("server") /\ FramesFrom("server")' = FramesFrom("server")
        /\ Pending("server")' = Pending("server")
        BY <1>4, <2>2 DEF FramesTo, FramesFrom, Pending
  <2>4. QED BY <1>5, <1>12, <2>1, <2>2, <2>3, StreamSame
<1>23. Streams'
       BY <1>18, <1>22 DEF Streams, Ends
<1>24. QED BY <1>19, <1>21, <1>23 DEF FInv

LEMMA FramesAreWhole ==
    ASSUME NEW p \in Payloads
    PROVE  Frame(p) \in WholeFrame /\ Frame(p) \in Seq(Nat)
<1>1. p \in Seq(0..255) /\ 0..255 \subseteq Nat
      BY ChannelAssumption
<1>2. p \in Seq(Nat)
      BY <1>1, SeqMonotonic
<1>3. PICK h, f : h = <<1, 0, Len(p)>> /\ f = h \o p
      OBVIOUS
<1>4. h \in Seq(Nat) /\ Len(h) = 3 /\ h[3] = Len(p) /\ Len(p) \in Nat
      BY <1>2, <1>3
<1>5. /\ f \in Seq(Nat) /\ Len(f) = Len(h) + Len(p)
      /\ \A i \in 1..Len(h) : f[i] = h[i]
      BY <1>2, <1>3, <1>4, ConcatIs
<1>6. f[3] = Len(p) /\ Len(f) = 3 + Len(p) /\ Len(f) >= 3
      BY <1>4, <1>5
<1>7. QED BY <1>3, <1>5, <1>6 DEF Frame, WholeFrame, ByteString

LEMMA FSendStep ==
    ASSUME FInv, CInv', NEW e \in Ends, NEW p \in Payloads, Send(e, p)
    PROVE  FInv'
<1>1. Up(e) /\ state[e] = "open"
      BY DEF Send, Usable
<1>2. Up("server") /\ \A x \in Ends : phase[x] \in {"awaiting", "up"} => StreamOK(x)
      BY <1>1, InUseMeansUp
<1>3. UNCHANGED <<cfg, phase, mode, shut, cut, rbuf, bio, reader, chunk, keys, got, handed>>
      BY DEF Send, setup, input
<1>4. CASE UNCHANGED <<wire, said>> /\ state' = [state EXCEPT ![e] = "broken"]
  <2>1. BufferTypes'
        BY <1>3, <1>4 DEF FInv, BufferTypes
  <2>2. Idle'
        BY <1>1, <1>3, <1>4 DEF FInv, CInv, TypeOK, Idle, Up
  <2>3. ASSUME NEW x \in Ends, StreamOK(x)
        PROVE  StreamOK(x)'
    <3>1. /\ FramesTo(x)' = FramesTo(x) /\ FramesFrom(x)' = FramesFrom(x)
          /\ Pending(x)' = Pending(x) /\ rbuf'[x] = rbuf[x] /\ (Connected' => Connected)
          BY <1>3, <1>4 DEF FramesTo, FramesFrom, Pending, Connected, Up
    <3>2. QED BY <2>3, <3>1, StreamSame
  <2>4. QED BY <1>2, <1>3, <2>1, <2>2, <2>3, WhileUp
<1>5. CASE /\ CanSend(e) /\ state' = state
           /\ wire' = [wire EXCEPT ![Other(e)] = @ \o Data(Frame(p))]
           /\ said' = [said EXCEPT ![e] = Append(@, Frame(p))]
  <2>1. PICK o, f : o = Other(e) /\ f = Frame(p)
        OBVIOUS
  <2>2. /\ o \in Ends /\ o # e /\ f \in WholeFrame /\ Data(f) \in Seq(Unit)
        /\ wire' = [wire EXCEPT ![o] = @ \o Data(f)] /\ said' = [said EXCEPT ![e] = Append(@, f)]
        BY <1>5, <2>1, Others, FramesAreWhole, DataUnits
  <2>3. /\ bio \in [Ends -> Seq(Unit)] /\ chunk \in [Ends -> Seq(Unit)] /\ wire \in [Ends -> Seq(Unit)]
        /\ rbuf \in [Ends -> Seq(Nat)] /\ said \in [Ends -> Seq(WholeFrame)]
        BY DEF FInv, CInv, WireOK, BufferTypes
  <2>4. said' \in [Ends -> Seq(WholeFrame)]
    <3>1. said[e] \in Seq(WholeFrame)
          BY <2>3
    <3>2. Append(said[e], f) \in Seq(WholeFrame)
          BY <2>2, <3>1
    <3>3. QED BY <2>2, <2>3, <3>2
  <2>5. BufferTypes'
        BY <1>3, <2>4 DEF FInv, BufferTypes
  <2>6. Idle'
    <3>1. \A x \in Ends : ~Up(x)' => said'[x] = said[x] /\ got'[x] = got[x] /\ ~Up(x)
          BY <1>1, <1>3, <2>2, <2>3 DEF Up
    <3>2. QED BY <1>1, <1>2, <1>3, <1>5, <3>1 DEF FInv, Idle, Up
  <2>7. Connected
        BY <1>1, <1>5, <2>1, <2>2 DEF CanSend, FInv, CInv, TypeOK, Idle, Connected, Other, Ends
  <2>8. ASSUME StreamOK(o)
        PROVE  StreamOK(o)'
    <3>1. PICK to, from, rb, us : /\ to = FramesTo(o) /\ from = FramesFrom(o) /\ rb = rbuf[o]
                                  /\ us = Pending(o)
          OBVIOUS
    <3>2. to \in Seq(WholeFrame) /\ from \in Seq(WholeFrame) /\ rb \in Seq(Nat)
          BY <2>2, <2>3, <3>1, StreamTypes DEF FInv
    <3>3. PICK a, c, w, d : a = bio[o] /\ c = chunk[o] /\ w = wire[o] /\ d = Data(f)
          OBVIOUS
    <3>4. a \in Seq(Unit) /\ c \in Seq(Unit) /\ w \in Seq(Unit) /\ d \in Seq(Unit)
          BY <2>2, <2>3, <3>3
    <3>5. us = a \o (c \o w) /\ us \in Seq(Unit) /\ us \o d = a \o (c \o (w \o d))
      <4>1. c \o w \in Seq(Unit)
            BY <3>4, UnitsTogether
      <4>2. a \o (c \o w) \in Seq(Unit)
            BY <3>4, <4>1, UnitsTogether
      <4>3. c \o (w \o d) = (c \o w) \o d
            BY <3>4, UnitsTogether, SMTT(60)
      <4>4. (a \o (c \o w)) \o d = a \o ((c \o w) \o d)
        <5>1. PICK cw : cw = c \o w
              OBVIOUS
        <5>2. a \in Seq(Unit) /\ cw \in Seq(Unit) /\ d \in Seq(Unit)
              BY <3>4, <4>1, <5>1
        <5>3. (a \o cw) \o d = a \o (cw \o d)
              BY <5>2, UnitsTogether
        <5>4. QED BY <5>1, <5>3
      <4>5. QED BY <3>1, <3>3, <4>2, <4>3, <4>4 DEF Pending
    <3>6. Pending(o)' = us \o d
      <4>1. wire'[o] = w \o d /\ bio'[o] = a /\ chunk'[o] = c
            BY <1>3, <2>2, <2>3, <3>3
      <4>2. QED BY <3>5, <4>1 DEF Pending
    <3>7. FramesTo(o)' = Append(to, f)
      <4>1. said'[e] = Append(said[e], f) /\ said[e] \in Seq(WholeFrame)
            BY <2>2, <2>3
      <4>2. CASE o = "server"
        <5>1. e = "client"
              BY <2>2, <4>2 DEF Ends
        <5>2. QED BY <3>1, <4>1, <4>2, <5>1 DEF FramesTo
      <4>3. CASE o = "client"
        <5>1. e = "server"
              BY <2>2, <4>3 DEF Ends
        <5>2. PICK s : s = said[e]
              OBVIOUS
        <5>3. s \in Seq(WholeFrame)
              BY <4>1, <5>2
        <5>4. <<READY>> \o Append(s, f) = Append(<<READY>> \o s, f)
              BY <5>3
        <5>5. QED BY <3>1, <4>1, <4>3, <5>1, <5>2, <5>4 DEF FramesTo
      <4>4. QED BY <2>2, <4>2, <4>3 DEF Ends
    <3>8. FramesFrom(o)' = from /\ rbuf'[o] = rb
          BY <1>3, <3>1 DEF FramesFrom, Up
    <3>9. Incomplete(rb) /\ Delivers(to, from, rb, us, 0, 0)
          BY <2>7, <2>8, <3>1 DEF StreamOK, Flows
    <3>10. Delivers(Append(to, f), from, rb, us \o d, 0, 0)
      <4>1. Delivers(to, from, rb, us, 0, 0) /\ us \in Seq(Unit)
            BY <3>5, <3>9
      <4>2. Delivers(Append(to, f), from, rb, us \o Data(f), 0, 0)
            BY <2>2, <3>2, <4>1, SentFollows
      <4>3. QED BY <3>3, <4>2
    <3>11. 0 \in Nat
           OBVIOUS
    <3>12. QED BY <3>6, <3>7, <3>8, <3>9, <3>10, <3>11 DEF StreamOK, Flows
  <2>9. ASSUME StreamOK(e)
        PROVE  StreamOK(e)'
    <3>1. wire'[e] = wire[e] /\ said'[o] = said[o]
          BY <2>2, <2>3
    <3>2. Pending(e)' = Pending(e) /\ FramesFrom(e)' = FramesFrom(e) /\ (Connected' => Connected)
          BY <1>3, <3>1 DEF Pending, FramesFrom, Up, Connected
    <3>3. FramesTo(e)' = FramesTo(e)
          BY <2>1, <3>1 DEF FramesTo, Other, Ends
    <3>4. QED BY <1>3, <2>9, <3>2, <3>3, StreamSame
  <2>10. \A x \in Ends : x = e \/ x = o
         BY <2>2 DEF Ends
  <2>11. \A x \in Ends : phase[x] \in {"awaiting", "up"} => StreamOK(x)'
         BY <1>2, <2>8, <2>9, <2>10
  <2>12. QED BY <1>2, <1>3, <2>5, <2>6, <2>11, WhileUp
<1>6. QED BY <1>4, <1>5 DEF Send

(* Units that move from the wire to the reader, or from there to the SSL     *)
(* object, stay where they are in the stream.                                *)
LEMMA MovedOn ==
    ASSUME FInv, CInv', NEW e \in Ends, Up(e), BufferTypes', Idle',
           UNCHANGED <<phase, shut, cut, rbuf, said, got>>,
           \A x \in Ends : Pending(x)' = Pending(x)
    PROVE  FInv'
<1>1. Up("server") /\ \A x \in Ends : phase[x] \in {"awaiting", "up"} => StreamOK(x)
      BY InUseMeansUp
<1>2. ASSUME NEW x \in Ends, StreamOK(x)
      PROVE  StreamOK(x)'
  <2>1. /\ FramesTo(x)' = FramesTo(x) /\ FramesFrom(x)' = FramesFrom(x)
        /\ rbuf'[x] = rbuf[x] /\ (Connected' => Connected)
        BY DEF FramesTo, FramesFrom, Connected, Up
  <2>2. QED BY <1>2, <2>1, StreamSame
<1>3. QED BY <1>1, <1>2, WhileUp

LEMMA FRecvWaitsStep ==
    ASSUME FInv, CInv', NEW e \in Ends, RecvWaits(e)
    PROVE  FInv'
<1>1. /\ reader[e] = "waiting"
      /\ UNCHANGED <<cfg, phase, mode, shut, cut, state, rbuf, bio, keys, said, got, handed>>
      BY DEF RecvWaits, setup, ledger
<1>2. Up(e) /\ chunk[e] = <<>>
      BY <1>1 DEF FInv, Idle
<1>3. /\ chunk \in [Ends -> Seq(Unit)] /\ wire \in [Ends -> Seq(Unit)]
      /\ reader \in [Ends -> {"trying", "waiting", "holding"}]
      BY DEF FInv, CInv, TypeOK, WireOK, BufferTypes
<1>4. ASSUME NEW n \in 1..Len(wire[e]),
             chunk' = [chunk EXCEPT ![e] = SubSeq(wire[e], 1, n)],
             wire' = [wire EXCEPT ![e] = SubSeq(@, n + 1, Len(@))],
             reader' = [reader EXCEPT ![e] = "holding"]
      PROVE  FInv'
  <2>1. PICK w, c, v : w = wire[e] /\ c = SubSeq(w, 1, n) /\ v = SubSeq(w, n + 1, Len(w))
        OBVIOUS
  <2>2. w \in Seq(Unit) /\ n \in 0..Len(w)
        BY <1>3, <2>1
  <2>3. c \in Seq(Unit) /\ v \in Seq(Unit) /\ c \o v = w /\ <<>> \o w = w
        BY <2>1, <2>2, CutInTwo, UnitsTogether
  <2>4. /\ chunk' = [chunk EXCEPT ![e] = c] /\ wire' = [wire EXCEPT ![e] = v]
        BY <1>4, <2>1
  <2>5. BufferTypes'
        BY <1>1, <1>3, <2>3, <2>4 DEF FInv, BufferTypes
  <2>6. Idle'
        BY <1>1, <1>2, <1>3, <1>4, <2>4 DEF FInv, Idle, Up
  <2>7. ASSUME NEW x \in Ends
        PROVE  Pending(x)' = Pending(x)
    <3>1. CASE x = e
      <4>1. chunk'[e] = c /\ wire'[e] = v
            BY <1>3, <2>4
      <4>2. chunk[e] \o wire[e] = w
            BY <1>2, <2>1, <2>3
      <4>3. QED BY <1>1, <2>3, <3>1, <4>1, <4>2 DEF Pending
    <3>2. CASE x # e
      <4>1. chunk'[x] = chunk[x] /\ wire'[x] = wire[x]
            BY <1>3, <2>4, <3>2
      <4>2. QED BY <1>1, <4>1 DEF Pending
    <3>3. QED BY <3>1, <3>2
  <2>8. QED BY <1>1, <1>2, <2>5, <2>6, <2>7, MovedOn
<1>5. CASE UNCHANGED <<chunk, wire>> /\ \E r \in {"holding", "trying"} : reader' = [reader EXCEPT ![e] = r]
  <2>1. PICK r \in {"holding", "trying"} : reader' = [reader EXCEPT ![e] = r]
        BY <1>5
  <2>2. BufferTypes'
        BY <1>1, <1>5 DEF FInv, BufferTypes
  <2>3. Idle'
        BY <1>1, <1>2, <1>3, <1>5, <2>1 DEF FInv, Idle, Up
  <2>4. \A x \in Ends : Pending(x)' = Pending(x)
        BY <1>1, <1>5 DEF Pending
  <2>5. QED BY <1>1, <1>2, <2>2, <2>3, <2>4, MovedOn
<1>6. QED BY <1>4, <1>5 DEF RecvWaits

LEMMA FRecvFeedsStep ==
    ASSUME FInv, CInv', NEW e \in Ends, RecvFeeds(e)
    PROVE  FInv'
<1>1. /\ Up(e) /\ state[e] = "open"
      /\ UNCHANGED <<cfg, phase, mode, wire, shut, cut, rbuf, keys, said, got, handed>>
      /\ state' = state \/ state' = [state EXCEPT ![e] = "broken"]
      /\ bio' = [bio EXCEPT ![e] = @ \o chunk[e]]
      /\ chunk' = [chunk EXCEPT ![e] = <<>>]
      /\ reader' = [reader EXCEPT ![e] = "trying"]
      BY DEF RecvFeeds, Usable, setup, net, ledger
<1>2. /\ bio \in [Ends -> Seq(Unit)] /\ chunk \in [Ends -> Seq(Unit)] /\ wire \in [Ends -> Seq(Unit)]
      /\ reader \in [Ends -> {"trying", "waiting", "holding"}]
      /\ state \in [Ends -> {"open", "broken", "closed"}]
      BY DEF FInv, CInv, TypeOK, WireOK, BufferTypes
<1>3. PICK a, c, w : a = bio[e] /\ c = chunk[e] /\ w = wire[e]
      OBVIOUS
<1>4. a \in Seq(Unit) /\ c \in Seq(Unit) /\ w \in Seq(Unit)
      BY <1>2, <1>3
<1>5. a \o c \in Seq(Unit) /\ <<>> \o w = w /\ (a \o c) \o w = a \o (c \o w)
      BY <1>4, UnitsTogether
<1>6. bio' = [bio EXCEPT ![e] = a \o c]
      BY <1>1, <1>3
<1>7. BufferTypes'
  <2>1. <<>> \in Seq(Unit)
        OBVIOUS
  <2>2. QED BY <1>1, <1>2, <1>5, <1>6, <2>1 DEF FInv, BufferTypes
<1>8. Idle'
  <2>1. Up("server")
        BY <1>1, InUseMeansUp
  <2>2. QED BY <1>1, <1>2, <2>1 DEF FInv, Idle, Up
<1>9. ASSUME NEW x \in Ends
      PROVE  Pending(x)' = Pending(x)
  <2>1. CASE x = e
    <3>1. bio'[e] = a \o c /\ chunk'[e] = <<>> /\ wire'[e] = w
          BY <1>1, <1>2, <1>3, <1>6
    <3>2. QED BY <1>3, <1>5, <2>1, <3>1 DEF Pending
  <2>2. CASE x # e
    <3>1. bio'[x] = bio[x] /\ chunk'[x] = chunk[x]
          BY <1>1, <1>2, <2>2
    <3>2. QED BY <1>1, <3>1 DEF Pending
  <2>3. QED BY <2>1, <2>2
<1>10. QED BY <1>1, <1>7, <1>8, <1>9, MovedOn

LEMMA FTakeMediaKeysStep ==
    ASSUME FInv, CInv', NEW e \in Ends, TakeMediaKeys(e)
    PROVE  FInv'
<1>1. /\ Up(e)
      /\ UNCHANGED <<phase, wire, shut, cut, state, rbuf, bio, reader, chunk, said, got>>
      BY DEF TakeMediaKeys, setup, net, input
<1>2. BufferTypes' /\ Idle' /\ \A x \in Ends : Pending(x)' = Pending(x)
      BY <1>1 DEF FInv, BufferTypes, Idle, Pending, Up
<1>3. QED BY <1>1, <1>2, MovedOn

LEMMA FCloseStep ==
    ASSUME FInv, CInv', NEW e \in Ends, Close(e)
    PROVE  FInv'
<1>1. /\ Up(e)
      /\ UNCHANGED <<cfg, phase, mode, cut, rbuf, bio, reader, chunk, keys, said, got, handed>>
      /\ state' = [state EXCEPT ![e] = "closed"] /\ shut' = [shut EXCEPT ![e] = TRUE]
      BY DEF Close, setup, input, ledger
<1>2. Up("server") /\ \A x \in Ends : phase[x] \in {"awaiting", "up"} => StreamOK(x)
      BY <1>1, InUseMeansUp
<1>3. PICK o, w, out : /\ o = Other(e) /\ w = wire[o]
                       /\ out = IF CanSend(e) THEN Append(w, CloseNotify) ELSE w
      OBVIOUS
<1>4. /\ o \in Ends /\ o # e /\ wire \in [Ends -> Seq(Unit)] /\ w \in Seq(Unit)
      /\ CloseNotify \in Unit /\ CloseNotify.kind # "data"
  <2>1. o \in Ends /\ o # e /\ wire \in [Ends -> Seq(Unit)]
        BY <1>3, Others DEF FInv, CInv, WireOK
  <2>2. QED BY <1>3, <2>1, Units DEF CloseNotify
<1>5. \/ wire' = [wire EXCEPT ![o] = out]
      \/ \E n \in 0..Len(out) : wire' = [wire EXCEPT ![o] = SubSeq(out, 1, n)]
      BY <1>3 DEF Close
<1>6. PICK v : wire' = [wire EXCEPT ![o] = v] /\ (v = out \/ \E n \in 0..Len(out) : v = SubSeq(out, 1, n))
      BY <1>5
<1>7. CutOf(v, w)
  <2>1. CASE CanSend(e)
    <3>1. out = Append(w, CloseNotify)
          BY <1>3, <2>1
    <3>2. Len(out) = Len(w) + 1
          BY <1>4, <3>1
    <3>3. CutOf(out, w) /\ \A n \in 0..Len(out) : CutOf(SubSeq(out, 1, n), w)
          BY <1>4, <3>1, <3>2, CutSome
    <3>4. QED BY <1>6, <3>3
  <2>2. CASE ~CanSend(e)
    <3>1. out = w
          BY <1>3, <2>2
    <3>2. CutOf(out, w) /\ \A n \in 0..Len(out) : CutOf(SubSeq(out, 1, n), w)
          BY <1>4, <3>1, CutSome
    <3>3. QED BY <1>6, <3>2
  <2>3. QED BY <2>1, <2>2
<1>8. BufferTypes'
      BY <1>1 DEF FInv, BufferTypes
<1>9. Idle'
      BY <1>1, <1>2 DEF FInv, CInv, TypeOK, Idle, Up
<1>10. ~Connected'
       BY <1>1 DEF FInv, CInv, TypeOK, Connected
<1>11. ASSUME NEW x \in Ends, StreamOK(x)
       PROVE  StreamOK(x)'
  <2>1. CutOf(wire'[x], wire[x])
    <3>1. CASE x = o
          BY <1>3, <1>4, <1>6, <1>7, <3>1
    <3>2. CASE x # o
      <4>1. wire'[x] = wire[x] /\ wire[x] \in Seq(Unit)
            BY <1>4, <1>6, <3>2
      <4>2. QED BY <1>4, <4>1, CutSome
    <3>3. QED BY <3>1, <3>2
  <2>2. /\ FramesTo(x)' = FramesTo(x) /\ FramesFrom(x)' = FramesFrom(x)
        /\ rbuf'[x] = rbuf[x] /\ bio'[x] = bio[x] /\ chunk'[x] = chunk[x]
        BY <1>1 DEF FramesTo, FramesFrom, Up
  <2>3. QED BY <1>10, <1>11, <2>1, <2>2, StreamCut, StreamTypes DEF FInv, CInv
<1>12. QED BY <1>1, <1>2, <1>8, <1>9, <1>11, WhileUp

LEMMA FResetStep ==
    ASSUME FInv, CInv', Reset
    PROVE  FInv'
<1>1. /\ UNCHANGED <<cfg, phase, mode, shut, state, rbuf, bio, reader, chunk, keys, said, got, handed>>
      /\ cut' = TRUE
      BY DEF Reset, setup, input, ledger
<1>2. PICK n \in 0..Len(wire["client"]), m \in 0..Len(wire["server"]) :
            wire' = [client |-> SubSeq(wire["client"], 1, n),
                     server |-> SubSeq(wire["server"], 1, m)]
      BY DEF Reset
<1>3. wire["client"] \in Seq(Unit) /\ wire["server"] \in Seq(Unit)
      BY DEF FInv, CInv, WireOK, Ends
<1>4. /\ wire'["client"] = SubSeq(wire["client"], 1, n)
      /\ wire'["server"] = SubSeq(wire["server"], 1, m)
      BY <1>2
<1>5. CutOf(wire'["client"], wire["client"]) /\ CutOf(wire'["server"], wire["server"])
  <2>1. CloseNotify \in Unit /\ CloseNotify.kind # "data"
        BY Units DEF CloseNotify
  <2>2. CutOf(SubSeq(wire["client"], 1, n), wire["client"])
        BY <1>3, <2>1, CutSome
  <2>3. CutOf(SubSeq(wire["server"], 1, m), wire["server"])
        BY <1>3, <2>1, CutSome
  <2>4. QED BY <1>4, <2>2, <2>3
<1>6. BufferTypes' /\ Idle'
      BY <1>1 DEF FInv, BufferTypes, Idle, Up
<1>7. Greetings'
  <2>1. \A s \in Seq(Unit) : \A k \in 0..Len(s) : /\ Len(s) <= 1 => Len(SubSeq(s, 1, k)) <= 1
                                                  /\ s = <<>> => SubSeq(s, 1, k) = <<>>
        OBVIOUS
  <2>2. /\ Len(wire["client"]) <= 1 => Len(wire'["client"]) <= 1
        /\ wire["client"] = <<>> => wire'["client"] = <<>>
        BY <1>3, <1>4, <2>1
  <2>3. /\ Len(wire["server"]) <= 1 => Len(wire'["server"]) <= 1
        /\ wire["server"] = <<>> => wire'["server"] = <<>>
        BY <1>3, <1>4, <2>1
  <2>4. QED BY <1>1, <2>2, <2>3 DEF FInv, Greetings
<1>8. ASSUME NEW x \in Ends, StreamOK(x)
      PROVE  StreamOK(x)'
  <2>1. CutOf(wire'[x], wire[x])
        BY <1>5 DEF Ends
  <2>2. /\ FramesTo(x)' = FramesTo(x) /\ FramesFrom(x)' = FramesFrom(x)
        /\ rbuf'[x] = rbuf[x] /\ bio'[x] = bio[x] /\ chunk'[x] = chunk[x]
        BY <1>1 DEF FramesTo, FramesFrom, Up
  <2>3. ~Connected'
        BY <1>1 DEF Connected
  <2>4. QED BY <1>8, <2>1, <2>2, <2>3, StreamCut, StreamTypes DEF FInv, CInv
<1>9. Streams'
      BY <1>1, <1>8 DEF FInv, Streams, Up
<1>10. QED BY <1>6, <1>7, <1>9 DEF FInv

LEMMA FStutterStep ==
    ASSUME FInv, CInv', UNCHANGED vars
    PROVE  FInv'
<1>1. UNCHANGED <<phase, wire, shut, cut, state, rbuf, bio, reader, chunk, said, got>>
      BY DEF vars, setup, net, input, ledger
<1>2. BufferTypes' /\ Idle' /\ Greetings'
      BY <1>1 DEF FInv, BufferTypes, Idle, Greetings, Up
<1>3. ASSUME NEW x \in Ends, StreamOK(x)
      PROVE  StreamOK(x)'
  <2>1. /\ FramesTo(x)' = FramesTo(x) /\ FramesFrom(x)' = FramesFrom(x)
        /\ rbuf'[x] = rbuf[x] /\ Pending(x)' = Pending(x) /\ (Connected' => Connected)
        BY <1>1 DEF FramesTo, FramesFrom, Pending, Connected, Up
  <2>2. QED BY <1>3, <2>1, StreamSame
<1>4. Streams'
      BY <1>1, <1>3 DEF FInv, Streams, Up
<1>5. QED BY <1>2, <1>4 DEF FInv

LEMMA FInvStep == FInv /\ [Next]_vars => FInv'
<1> SUFFICES ASSUME FInv, [Next]_vars PROVE FInv'
    OBVIOUS
<1>0. CInv'
      BY CInvStep DEF FInv
<1>1. CASE Handshake
  <2>1. CASE ServerMeetsV1
    <3>1. phase["server"] # "up" /\ Refuse("server", <<>>) /\ "server" \in Ends
          BY <2>1 DEF ServerMeetsV1, Ends
    <3>2. QED BY <1>0, <3>1, FRefuseStep
  <2>2. QED BY <1>0, <1>1, <2>1, FServerAnswersStep, FClientVerifiesStep, FServerAcceptsStep,
               FAwaitReadyStep DEF Handshake
<1>2. ASSUME NEW e \in Ends, Establish(e) PROVE FInv'
  <2>1. CASE Start(e)
        BY <1>0, <2>1, FStartStep
  <2>2. CASE ~Start(e)
    <3>1. phase[e] # "up" /\ Refuse(e, <<>>)
          BY <1>2, <2>2 DEF Establish, OwnKeyPinned, PeerRefused, Timeout, Establishing
    <3>2. QED BY <1>0, <3>1, FRefuseStep
  <2>3. QED BY <2>1, <2>2
<1>3. ASSUME NEW e \in Ends, Use(e) PROVE FInv'
      BY <1>0, <1>3, FSendStep, FRecvTryStep, FRecvWaitsStep, FRecvFeedsStep, FTakeMediaKeysStep,
         FCloseStep DEF Use
<1>4. CASE Reset
      BY <1>0, <1>4, FResetStep
<1>5. CASE UNCHANGED vars
      BY <1>0, <1>5, FStutterStep
<1>6. QED BY <1>1, <1>2, <1>3, <1>4, <1>5 DEF Next, Over

LEMMA FInvAlways == Spec => []FInv
BY FInvInit, FInvStep, CInvInit, PTL DEF Spec

(* READY, which is no frame of the caller's, is taken from both ends of what *)
(* the client was sent.                                                      *)
LEMMA AfterReady ==
    ASSUME NEW s \in Seq(WholeFrame), NEW g \in Seq(WholeFrame),
           NEW rest \in Seq(Nat),
           Flat(<<READY>> \o s) = Flat(<<READY>> \o g) \o rest
    PROVE  Flat(s) = Flat(g) \o rest
<1>1. PICK F, G : F = Flat(s) /\ G = Flat(g)
      OBVIOUS
<1>2. F \in Seq(Nat) /\ G \in Seq(Nat) /\ READY \in ByteString /\ READY \in Seq(Nat)
      BY <1>1, FramesAreStrings, ReadyIsWhole DEF ByteString, WholeFrame
<1>3. Flat(<<READY>> \o s) = READY \o F /\ Flat(<<READY>> \o g) = READY \o G
      BY <1>1, <1>2, FramesAreStrings, FlatCons
<1>4. PICK H : H = G \o rest
      OBVIOUS
<1>5. H \in Seq(Nat) /\ (READY \o G) \o rest = READY \o H
  <2>1. PICK R : R = READY
        OBVIOUS
  <2>2. R \in Seq(Nat) /\ G \in Seq(Nat) /\ rest \in Seq(Nat)
        BY <1>2, <2>1
  <2>3. (R \o G) \o rest = R \o (G \o rest)
        BY <2>2, BytesInOrder
  <2>4. G \o rest \in Seq(Nat)
        BY <2>2
  <2>5. QED BY <1>4, <2>1, <2>3, <2>4
<1>6. READY \o F = READY \o H
      BY <1>3, <1>5
<1>7. PICK r, a, b : r = READY /\ a = r \o F /\ b = r \o H
      OBVIOUS
<1>8. a = b /\ r \in Seq(Nat)
      BY <1>2, <1>6, <1>7
<1>9. /\ Len(a) = Len(r) + Len(F) /\ \A i \in 1..Len(F) : a[Len(r) + i] = F[i]
  <2>1. r \in Seq(Nat) /\ F \in Seq(Nat) /\ a = r \o F
        BY <1>2, <1>7, <1>8
  <2>2. QED BY <2>1, ConcatIs
<1>10. /\ Len(b) = Len(r) + Len(H) /\ \A i \in 1..Len(H) : b[Len(r) + i] = H[i]
  <2>1. r \in Seq(Nat) /\ H \in Seq(Nat) /\ b = r \o H
        BY <1>5, <1>7, <1>8
  <2>2. QED BY <2>1, ConcatIs
<1>11. Len(F) = Len(H)
  <2>1. Len(r) \in Nat /\ Len(F) \in Nat /\ Len(H) \in Nat
        BY <1>2, <1>5, <1>8
  <2>2. QED BY <1>8, <1>9, <1>10, <2>1
<1>12. F = H
       BY <1>2, <1>5, <1>8, <1>9, <1>10, <1>11, SeqEqual
<1>13. QED BY <1>1, <1>4, <1>12

LEMMA BytesTogether ==
    ASSUME NEW a \in Seq(Unit), NEW b \in Seq(Unit)
    PROVE  Bytes(a \o b) = Bytes(a) \o Bytes(b) /\ Bytes(a) \in Seq(Nat)
<1>1. PICK c, x, y, z : c = a \o b /\ x = Bytes(a) /\ y = Bytes(b) /\ z = Bytes(c)
      OBVIOUS
<1>2. /\ c \in Seq(Unit) /\ Len(c) = Len(a) + Len(b) /\ Len(a) \in Nat /\ Len(b) \in Nat
      /\ \A i \in 1..Len(a) : c[i] = a[i]
      /\ \A i \in 1..Len(b) : c[Len(a) + i] = b[i]
      BY <1>1, ConcatIs
<1>3. \A u \in Seq(Unit) : /\ Bytes(u) \in Seq(Nat) /\ Len(Bytes(u)) = Len(u)
                           /\ \A i \in 1..Len(u) : Bytes(u)[i] = u[i].val
  <2>1. ASSUME NEW u \in Seq(Unit)
        PROVE  /\ Bytes(u) \in Seq(Nat) /\ Len(Bytes(u)) = Len(u)
               /\ \A i \in 1..Len(u) : Bytes(u)[i] = u[i].val
    <3>1. SubSeq(u, 1, Len(u)) = u /\ Len(u) \in 0..Len(u)
          OBVIOUS
    <3>2. QED BY <3>1, ReadableBytes
  <2>2. QED BY <2>1
<1>4. x \in Seq(Nat) /\ Len(x) = Len(a) /\ \A i \in 1..Len(a) : x[i] = a[i].val
      BY <1>1, <1>3
<1>5. y \in Seq(Nat) /\ Len(y) = Len(b) /\ \A i \in 1..Len(b) : y[i] = b[i].val
      BY <1>1, <1>3
<1>6. z \in Seq(Nat) /\ Len(z) = Len(c) /\ \A i \in 1..Len(c) : z[i] = c[i].val
      BY <1>1, <1>2, <1>3
<1>7. PICK xy : xy = x \o y
      OBVIOUS
<1>8. /\ xy \in Seq(Nat) /\ Len(xy) = Len(x) + Len(y)
      /\ \A i \in 1..Len(x) : xy[i] = x[i]
      /\ \A i \in 1..Len(y) : xy[Len(x) + i] = y[i]
  <2>1. x \in Seq(Nat) /\ y \in Seq(Nat)
        BY <1>4, <1>5
  <2>2. QED BY <1>7, <2>1, ConcatIs
<1>9. Len(z) = Len(xy)
      BY <1>2, <1>4, <1>5, <1>6, <1>8
<1>10. ASSUME NEW i \in 1..Len(z)
       PROVE  z[i] = xy[i]
  <2>0. z[i] = c[i].val /\ i \in Nat /\ i >= 1 /\ i <= Len(a) + Len(b)
        BY <1>2, <1>6
  <2>1. CASE i <= Len(a)
    <3>1. i \in 1..Len(a)
          BY <1>2, <2>0, <2>1
    <3>2. c[i] = a[i] /\ x[i] = a[i].val /\ xy[i] = x[i]
          BY <1>2, <1>4, <1>8, <3>1
    <3>3. QED BY <2>0, <3>2
  <2>2. CASE ~(i <= Len(a))
    <3>1. PICK j \in 1..Len(b) : i = Len(a) + j
      <4>1. i - Len(a) \in 1..Len(b) /\ i = Len(a) + (i - Len(a))
            BY <1>2, <2>0, <2>2
      <4>2. QED BY <4>1
    <3>2. c[Len(a) + j] = b[j] /\ y[j] = b[j].val /\ xy[Len(x) + j] = y[j]
          BY <1>2, <1>5, <1>8, <3>1
    <3>3. QED BY <1>4, <2>0, <3>1, <3>2
  <2>3. QED BY <2>1, <2>2
<1>11. z = xy
       BY <1>6, <1>8, <1>9, <1>10, SeqEqual
<1>12. QED BY <1>1, <1>4, <1>7, <1>11

(* However the stream is cut into chunks and whenever a reader's time is up, *)
(* recv() returns the frames the peer sent, in order, and while the channel  *)
(* stands every byte of the rest is in a buffer or on its way, for any       *)
(* payloads and any interruptions (secure.py:321-340, 369-400).              *)
THEOREM FramesComeWhole == Spec => []FramesArriveWhole
<1>1. FInv => FramesArriveWhole
  <2>1. SUFFICES ASSUME FInv, NEW e \in Ends
                 PROVE  /\ IsPrefix(got[e], said[Other(e)])
                        /\ Usable(e) /\ ~cut /\ ~shut[Other(e)] =>
                              Flat(said[Other(e)]) = Flat(got[e]) \o rbuf[e] \o Bytes(bio[e])
                                                     \o Bytes(chunk[e]) \o Bytes(wire[e])
        BY DEF FramesArriveWhole
  <2>2. PICK s, g : s = said[Other(e)] /\ g = got[e]
        OBVIOUS
  <2>3. s \in Seq(WholeFrame) /\ g \in Seq(WholeFrame)
        BY <2>1, <2>2, Others DEF FInv, BufferTypes
  <2>4. IsPrefix(g, s)
    <3>1. CASE ~Up(e)
      <4>1. g = <<>>
            BY <2>1, <2>2, <3>1 DEF FInv, Idle
      <4>2. \A q \in Seq(WholeFrame) : IsPrefix(<<>>, q)
            BY DEF IsPrefix
      <4>3. QED BY <2>3, <4>1, <4>2
    <3>2. CASE Up(e)
      <4>1. PICK to, from, m, x : to = FramesTo(e) /\ from = FramesFrom(e)
                                  /\ Delivers(to, from, rbuf[e], Pending(e), m, x)
            BY <2>1, <3>2, InUseMeansUp DEF StreamOK, Flows
      <4>2. Len(from) <= Len(to) /\ \A i \in 1..Len(from) : to[i] = from[i]
            BY <4>1 DEF Delivers
      <4>3. Len(g) <= Len(s) /\ \A i \in 1..Len(g) : s[i] = g[i]
        <5>1. CASE e = "server"
          <6>1. to = s /\ from = g
                BY <2>2, <4>1, <5>1, Others DEF FramesTo, FramesFrom
          <6>2. QED BY <4>2, <6>1
        <5>2. CASE e = "client"
          <6>1. to = <<READY>> \o s /\ from = <<READY>> \o g
                BY <2>2, <3>2, <4>1, <5>2, Others DEF FramesTo, FramesFrom
          <6>2. READY \in WholeFrame
                BY ReadyIsWhole
          <6>3. /\ Len(to) = Len(s) + 1 /\ Len(s) \in Nat
                /\ \A i \in 1..Len(s) : to[i + 1] = s[i]
                BY <2>3, <6>1, <6>2, ConsIs
          <6>4. /\ Len(from) = Len(g) + 1 /\ Len(g) \in Nat
                /\ \A i \in 1..Len(g) : from[i + 1] = g[i]
                BY <2>3, <6>1, <6>2, ConsIs
          <6>5. Len(g) <= Len(s)
                BY <4>2, <6>3, <6>4
          <6>6. ASSUME NEW i \in 1..Len(g)
                PROVE  s[i] = g[i]
            <7>1. i + 1 \in 1..Len(from) /\ i \in 1..Len(s)
                  BY <6>3, <6>4, <6>5
            <7>2. QED BY <4>2, <6>3, <6>4, <7>1
          <6>7. QED BY <6>5, <6>6
        <5>3. QED BY <2>1, <5>1, <5>2 DEF Ends
      <4>4. SubSeq(g, 1, Len(g)) = SubSeq(s, 1, Len(g))
        <5>1. PICK a, b : a = SubSeq(g, 1, Len(g)) /\ b = SubSeq(s, 1, Len(g))
              OBVIOUS
        <5>2. /\ a \in Seq(WholeFrame) /\ Len(a) = Len(g) /\ \A i \in 1..Len(g) : a[i] = g[i]
              BY <2>3, <5>1
        <5>3. /\ b \in Seq(WholeFrame) /\ Len(b) = Len(g) /\ \A i \in 1..Len(g) : b[i] = s[i]
              BY <2>3, <4>3, <5>1
        <5>4. a = b
              BY <4>3, <5>2, <5>3, SeqEqual
        <5>5. QED BY <5>1, <5>4
      <4>5. QED BY <4>3, <4>4 DEF IsPrefix
    <3>3. QED BY <3>1, <3>2
  <2>5. ASSUME Usable(e), ~cut, ~shut[Other(e)]
        PROVE  Flat(s) = (((Flat(g) \o rbuf[e]) \o Bytes(bio[e])) \o Bytes(chunk[e])) \o Bytes(wire[e])
    <3>1. Up(e) /\ state[e] = "open" /\ StreamOK(e)
          BY <2>1, <2>5, InUseMeansUp DEF Usable
    <3>2. Connected
          BY <2>1, <2>5, <3>1 DEF FInv, Idle, Connected, Other, Ends
    <3>3. PICK to, from, rb, us : /\ to = FramesTo(e) /\ from = FramesFrom(e)
                                  /\ rb = rbuf[e] /\ us = Pending(e)
          OBVIOUS
    <3>4. PICK a, c, w : a = bio[e] /\ c = chunk[e] /\ w = wire[e]
          OBVIOUS
    <3>5. /\ to \in Seq(WholeFrame) /\ from \in Seq(WholeFrame) /\ rb \in Seq(Nat)
          /\ a \in Seq(Unit) /\ c \in Seq(Unit) /\ w \in Seq(Unit)
          BY <2>1, <3>3, <3>4, StreamTypes DEF FInv, CInv, WireOK, BufferTypes
    <3>6. PICK cw : cw = c \o w
          OBVIOUS
    <3>7. cw \in Seq(Unit) /\ us = a \o cw
          BY <3>3, <3>4, <3>5, <3>6, UnitsTogether DEF Pending
    <3>8. us \in Seq(Unit)
          BY <3>5, <3>7, UnitsTogether
    <3>9. Delivers(to, from, rb, us, 0, 0)
          BY <3>1, <3>2, <3>3 DEF StreamOK
    <3>10. Bytes(us) \in Seq(Nat) /\ Flat(to) = (Flat(from) \o rb) \o Bytes(us)
           BY <3>5, <3>8, <3>9, NothingMissing
    <3>11. PICK A, C, W, U : A = Bytes(a) /\ C = Bytes(c) /\ W = Bytes(w) /\ U = Bytes(us)
           OBVIOUS
    <3>12. /\ A \in Seq(Nat) /\ C \in Seq(Nat) /\ W \in Seq(Nat) /\ U \in Seq(Nat)
           /\ U = A \o (C \o W)
      <4>1. Bytes(c \o w) = Bytes(c) \o Bytes(w) /\ Bytes(c) \in Seq(Nat)
            BY <3>5, BytesTogether
      <4>2. Bytes(a \o cw) = Bytes(a) \o Bytes(cw) /\ Bytes(a) \in Seq(Nat)
            BY <3>5, <3>7, BytesTogether
      <4>3. Bytes(w) \in Seq(Nat)
            BY <3>5, BytesTogether
      <4>4. QED BY <3>6, <3>7, <3>10, <3>11, <4>1, <4>2, <4>3
    <3>13. PICK G : G = Flat(g)
           OBVIOUS
    <3>14. G \in Seq(Nat)
           BY <2>3, <3>13, FramesAreStrings DEF ByteString
    <3>15. rb \o U \in Seq(Nat) /\ Flat(s) = G \o (rb \o U)
      <4>1. PICK t : t = rb \o U
            OBVIOUS
      <4>2. t \in Seq(Nat)
            BY <3>5, <3>12, <4>1
      <4>3. PICK F : F = Flat(from)
            OBVIOUS
      <4>4. F \in Seq(Nat)
            BY <3>5, <4>3, FramesAreStrings DEF ByteString
      <4>5. (F \o rb) \o U = F \o (rb \o U)
            BY <3>5, <3>12, <4>4, BytesInOrder, ZenonT(60)
      <4>6. Flat(to) = F \o t
            BY <3>10, <3>11, <4>1, <4>3, <4>5
      <4>7. CASE e = "server"
        <5>1. to = s /\ from = g
              BY <2>2, <3>3, <4>7, Others DEF FramesTo, FramesFrom
        <5>2. QED BY <3>13, <4>1, <4>2, <4>3, <4>6, <5>1
      <4>8. CASE e = "client"
        <5>1. to = <<READY>> \o s /\ from = <<READY>> \o g
              BY <2>2, <3>1, <3>3, <4>8, Others DEF FramesTo, FramesFrom
        <5>2. Flat(<<READY>> \o s) = Flat(<<READY>> \o g) \o t
              BY <4>3, <4>6, <5>1
        <5>3. Flat(s) = Flat(g) \o t
              BY <2>3, <4>2, <5>2, AfterReady
        <5>4. QED BY <3>13, <4>1, <4>2, <5>3
      <4>9. QED BY <2>1, <4>7, <4>8 DEF Ends
    <3>16. G \o (rb \o (A \o (C \o W))) = (((G \o rb) \o A) \o C) \o W
      <4>1. PICK GR, GA : GR = G \o rb /\ GA = GR \o A
            OBVIOUS
      <4>2. PICK CW, ACW : CW = C \o W /\ ACW = A \o CW
            OBVIOUS
      <4>3. GR \in Seq(Nat) /\ CW \in Seq(Nat)
            BY <3>5, <3>12, <3>14, <4>1, <4>2
      <4>4. GA \in Seq(Nat) /\ ACW \in Seq(Nat)
            BY <3>12, <4>1, <4>2, <4>3
      <4>5. G \o (rb \o ACW) = (G \o rb) \o ACW
            BY <3>5, <3>14, <4>4, BytesInOrder
      <4>6. A \in Seq(Nat) /\ C \in Seq(Nat) /\ W \in Seq(Nat)
            BY <3>12
      <4>7. GR \o (A \o CW) = (GR \o A) \o CW
            BY <4>6, <4>3, BytesInOrder, SMTT(60)
      <4>8. GA \o (C \o W) = (GA \o C) \o W
            BY <4>6, <4>4, BytesInOrder, SMTT(60)
      <4>9. QED BY <4>1, <4>2, <4>5, <4>7, <4>8
    <3>17. QED BY <3>3, <3>4, <3>11, <3>12, <3>13, <3>15, <3>16
  <2>6. QED BY <2>2, <2>4, <2>5
<1>2. QED BY <1>1, FInvAlways, PTL

-----------------------------------------------------------------------------
LEMMA CredentialsInit == CInit => Init /\ FilesInit
BY DEF CInit

LEMMA CredentialsStep ==
    [CNext]_<<stage, vars, filesVars>> => [Next]_vars /\ [FilesNext]_filesVars
BY DEF CNext

(* A behaviour of the composed module is one of the channel and one of the   *)
(* files, so all of the above holds of it.                                   *)
THEOREM CredentialsIsBoth == CSpec => Spec /\ FilesSpec
BY CredentialsInit, CredentialsStep, PTL DEF CSpec, Spec, FilesSpec

=============================================================================
