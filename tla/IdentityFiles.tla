---------------------------- MODULE IdentityFiles ----------------------------
(***************************************************************************)
(* The two files of a device's identity and the programs that ask for it   *)
(* at the same time: paths.device_identity, identity.save and              *)
(* identity.load.  A program that has ended may be started again.          *)
(***************************************************************************)
EXTENDS Integers

CONSTANTS Programs,   (* programs that share one application directory     *)
          MaxRuns,    (* bound: how often a program is started             *)
          Faults      (* which may happen: a full disk; no permission to   *)
                      (* create the key file, or to restrict it; a crash   *)

ASSUME FilesAssumption ==
    /\ "nobody" \notin Programs /\ MaxRuns \in Nat \ {0}
    /\ Faults \subseteq {"disk_full", "denied", "acl", "crash"}

VARIABLES
    key, crt,   (* identity.key and identity.crt                           *)
    pc,         (* where each program is                                   *)
    runs,       (* how often each program was started                      *)
    readKey,    (* the key file a program has read                         *)
    loaded      (* history: every identity some program went on to use     *)

identityVars == <<key, crt, pc, runs, readKey, loaded>>

(* An identity is named by the run of the program that generated it.         *)
Ids == Programs \X (1..MaxRuns)
NoFile == [id |-> <<"nobody", 0>>, whole |-> FALSE]
Files == [id : Ids, whole : BOOLEAN]

Mine(p) == <<p, runs[p]>>

IdentityInit ==
    /\ key = NoFile /\ crt = NoFile
    /\ pc = [p \in Programs |-> "start"]
    /\ runs = [p \in Programs |-> 1]
    /\ readKey = [p \in Programs |-> NoFile]
    /\ loaded = {}

At(p, from, to) == pc[p] = from /\ pc' = [pc EXCEPT ![p] = to]

-----------------------------------------------------------------------------
(* device_identity() and save(). *)

LooksForKey(p) ==
    /\ pc[p] = "start"
    /\ pc' = [pc EXCEPT ![p] = IF key = NoFile THEN "new" ELSE "load_key"]
    /\ UNCHANGED <<key, crt, runs, readKey, loaded>>

LooksForCert(p) ==
    /\ pc[p] = "new"
    /\ pc' = [pc EXCEPT ![p] = IF crt = NoFile THEN "create_key" ELSE "failed"]
    /\ UNCHANGED <<key, crt, runs, readKey, loaded>>

CreateKey(p) ==
    /\ IF key = NoFile
       THEN At(p, "create_key", "write_key") /\ key' = [id |-> Mine(p), whole |-> FALSE]
       ELSE At(p, "create_key", "failed") /\ UNCHANGED key
    /\ UNCHANGED <<crt, runs, readKey, loaded>>

(* open() itself is refused: whatever is at the path is removed, if the      *)
(* system lets it.                                                           *)
CreateKeyRefused(p) ==
    /\ "denied" \in Faults
    /\ At(p, "create_key", "failed")
    /\ key' \in {key, NoFile}
    /\ UNCHANGED <<crt, runs, readKey, loaded>>

(* To the file it created, which need not be at the path any more. *)
WriteKey(p) ==
    /\ At(p, "write_key", "create_cert")
    /\ key' = IF key.id = Mine(p) THEN [key EXCEPT !.whole = TRUE] ELSE key
    /\ UNCHANGED <<crt, runs, readKey, loaded>>

(* Only a PermissionError removes the key file again. *)
WriteKeyFails(p) ==
    /\ At(p, "write_key", "failed")
    /\ \/ "disk_full" \in Faults /\ UNCHANGED key
       \/ "acl" \in Faults /\ key' = NoFile
    /\ UNCHANGED <<crt, runs, readKey, loaded>>

CreateCert(p) ==
    /\ IF crt = NoFile
       THEN At(p, "create_cert", "write_cert") /\ crt' = [id |-> Mine(p), whole |-> FALSE]
       ELSE At(p, "create_cert", "undo") /\ UNCHANGED crt
    /\ UNCHANGED <<key, runs, readKey, loaded>>

WriteCert(p) ==
    /\ At(p, "write_cert", "load_key")
    /\ crt' = [crt EXCEPT !.whole = TRUE]
    /\ UNCHANGED <<key, runs, readKey, loaded>>

WriteCertFails(p) ==
    /\ "disk_full" \in Faults
    /\ At(p, "write_cert", "undo")
    /\ UNCHANGED <<key, crt, runs, readKey, loaded>>

(* The key file goes; what there is of the certificate stays. *)
Undo(p) ==
    /\ At(p, "undo", "failed")
    /\ key' = NoFile
    /\ UNCHANGED <<crt, runs, readKey, loaded>>

-----------------------------------------------------------------------------
(* load(). *)

LoadKey(p) ==
    /\ IF key = NoFile
       THEN At(p, "load_key", "failed") /\ UNCHANGED readKey
       ELSE At(p, "load_key", "load_cert") /\ readKey' = [readKey EXCEPT ![p] = key]
    /\ UNCHANGED <<key, crt, runs, loaded>>

(* Mutant: the certificate is not compared with the key. *)
FitsUnchecked(k, c) == k.whole

(* Both files parse and belong together. *)
Fits(k, c) == k.whole /\ c.whole /\ k.id = c.id

LoadCert(p) ==
    /\ IF crt # NoFile /\ Fits(readKey[p], crt)
       THEN At(p, "load_cert", "done") /\ loaded' = loaded \cup {readKey[p].id}
       ELSE At(p, "load_cert", "failed") /\ UNCHANGED loaded
    /\ UNCHANGED <<key, crt, runs, readKey>>

-----------------------------------------------------------------------------
Ended == {"done", "failed", "crashed"}

Crash(p) ==
    /\ "crash" \in Faults /\ pc[p] \notin Ended
    /\ pc' = [pc EXCEPT ![p] = "crashed"]
    /\ UNCHANGED <<key, crt, runs, readKey, loaded>>

Restart(p) ==
    /\ pc[p] \in Ended /\ runs[p] < MaxRuns
    /\ pc' = [pc EXCEPT ![p] = "start"]
    /\ runs' = [runs EXCEPT ![p] = @ + 1]
    /\ readKey' = [readKey EXCEPT ![p] = NoFile]
    /\ UNCHANGED <<key, crt, loaded>>

AllOver ==
    /\ \A p \in Programs : pc[p] \in Ended /\ runs[p] = MaxRuns
    /\ UNCHANGED identityVars

Step(p) ==
    \/ LooksForKey(p) \/ LooksForCert(p) \/ CreateKey(p) \/ CreateKeyRefused(p)
    \/ WriteKey(p) \/ WriteKeyFails(p) \/ CreateCert(p) \/ WriteCert(p) \/ WriteCertFails(p)
    \/ Undo(p) \/ LoadKey(p) \/ LoadCert(p) \/ Crash(p) \/ Restart(p)

IdentityNext == (\E p \in Programs : Step(p)) \/ AllOver

IdentitySpec == IdentityInit /\ [][IdentityNext]_identityVars

-----------------------------------------------------------------------------
IdentityTypeOK ==
    /\ key \in Files \cup {NoFile} /\ crt \in Files \cup {NoFile}
    /\ pc \in [Programs -> Ended \cup {"start", "new", "create_key", "write_key",
                  "create_cert", "write_cert", "undo", "load_key", "load_cert"}]
    /\ runs \in [Programs -> 1..MaxRuns]
    /\ readKey \in [Programs -> Files \cup {NoFile}]
    /\ \A p \in Programs : pc[p] = "load_cert" => readKey[p] \in Files
    /\ loaded \subseteq Ids

(* A device has one identity: whichever programs race to create it, fail or  *)
(* crash on the way, no two of them ever use different keys (identity.py:51, *)
(* 158).                                                                     *)
OneIdentity == \A a, b \in loaded : a = b

Complete == key.whole /\ crt.whole /\ key.id = crt.id

(* Once both files are written no program removes or changes them, not even  *)
(* one that started to create an identity before they were there and now     *)
(* cleans up after itself (identity.py:124-132).  Where the system may       *)
(* refuse to create a key file this is not so: see CreateKeyRefused.         *)
CompleteIdentityStays == [][Complete => UNCHANGED <<key, crt>>]_identityVars

(* save() "never leaves half an identity" (identity.py:119): when no program *)
(* is saving, there are both files, whole, or none.                          *)
NeverHalfAnIdentity ==
    (\A p \in Programs : pc[p] \in Ended \cup {"start"}) =>
        Complete \/ (key = NoFile /\ crt = NoFile)

=============================================================================
