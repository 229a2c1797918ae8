----------------------------- MODULE DeviceFiles -----------------------------
(***************************************************************************)
(* The application directory of a device and the programs that share it:   *)
(* every program that adds, removes or looks up a friend has first loaded, *)
(* or created, the identity of the device (demo.listen_friends,            *)
(* call_friend, peers_cmd, pairflow.connect_and_pair, allow_pairing).  A   *)
(* crash may hit either.                                                   *)
(***************************************************************************)
EXTENDS IdentityFiles

CONSTANTS Friends, MaxWrites    (* see TrustStore                          *)

ASSUME StoreAssumption == MaxWrites \in Nat

VARIABLES file, storePc, op, read, temp, begun, paired, overlap

Store == INSTANCE TrustStore WITH pc <- storePc, Faults <- Faults # {}

storeVars == <<file, storePc, op, read, temp, begun, paired, overlap>>
filesVars == <<identityVars, storeVars>>

FilesInit == IdentityInit /\ Store!Init

(* A program uses the store once it has its identity, and ends after that.   *)
UsesIdentity(p) == storePc[p] = "idle" /\ Step(p) /\ UNCHANGED storeVars
UsesStore(p)    == pc[p] = "done" /\ Store!Step(p) /\ UNCHANGED identityVars

CrashesInStore(p) ==
    /\ Store!Crash(p)
    /\ pc' = [pc EXCEPT ![p] = "crashed"]
    /\ UNCHANGED <<key, crt, runs, readKey, loaded>>

FilesNext ==
    \/ \E p \in Programs : UsesIdentity(p) \/ UsesStore(p) \/ CrashesInStore(p)
    \/ AllOver /\ (\A p \in Programs : storePc[p] = "idle") /\ UNCHANGED storeVars

FilesSpec == FilesInit /\ [][FilesNext]_filesVars

-----------------------------------------------------------------------------
(* Whoever reads the store at whatever moment, after whatever crash, finds a *)
(* whole file (trust.py:6-8, 98-118).                                        *)
StoreAlwaysWhole == Store!StoreAlwaysWhole

(* A friend stays a friend until the user forgets it.                        *)
PairedStays == Store!PairedStays

=============================================================================
