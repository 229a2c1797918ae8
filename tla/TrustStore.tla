----------------------------- MODULE TrustStore -----------------------------
(***************************************************************************)
(* trust.json and the programs that use it: add(), remove() and friends()  *)
(* of hpqv.trust.TrustStore.  A write goes to a temporary file that then   *)
(* replaces the store; there is no lock between reading and replacing.     *)
(***************************************************************************)
EXTENDS Integers

CONSTANTS Programs,   (* that use one store                                *)
          Friends,
          MaxWrites,  (* bound: operations begun                           *)
          Faults      (* may writes fail and programs crash?               *)

VARIABLES
    file,      (* the store: its friends, and whether it parses            *)
    pc,        (* where each program is                                    *)
    op,        (* the operation of each program                            *)
    read,      (* the friends a program has read                           *)
    temp,      (* the program's temporary file: "none", "partial", "whole" *)
    begun,     (* how many operations were begun                           *)
    paired,    (* history: friends whose add() returned, until a remove()  *)
               (* of them begins                                           *)
    overlap    (* history: two operations ran at the same time             *)

vars == <<file, pc, op, read, temp, begun, paired, overlap>>

Ops  == [do : {"add", "remove"}, friend : Friends]
NoOp == [do |-> "nothing", friend |-> "nobody"]

Init ==
    /\ file = [friends |-> {}, whole |-> TRUE]
    /\ pc = [p \in Programs |-> "idle"]
    /\ op = [p \in Programs |-> NoOp]
    /\ read = [p \in Programs |-> {}]
    /\ temp = [p \in Programs |-> "none"]
    /\ begun = 0
    /\ paired = {}
    /\ overlap = FALSE

(* Mutant: only the new record is written. *)
NewFriendsOnlyThis(p) == IF op[p].do = "add" THEN {op[p].friend} ELSE read[p] \ {op[p].friend}

(* What the operation makes of the friends it read. *)
NewFriends(p) ==
    IF op[p].do = "add" THEN read[p] \cup {op[p].friend} ELSE read[p] \ {op[p].friend}

(* p's operation is over, one way or the other. *)
Ends(p) ==
    /\ pc' = [pc EXCEPT ![p] = "idle"]
    /\ op' = [op EXCEPT ![p] = NoOp]
    /\ read' = [read EXCEPT ![p] = {}]

Returns(p) ==
    /\ Ends(p)
    /\ paired' = IF op[p].do = "add" THEN paired \cup {op[p].friend} ELSE paired

-----------------------------------------------------------------------------
Begin(p) ==
    /\ pc[p] = "idle" /\ begun < MaxWrites
    /\ \E o \in Ops :
        /\ op' = [op EXCEPT ![p] = o]
        /\ paired' = IF o.do = "remove" THEN paired \ {o.friend} ELSE paired
    /\ overlap' = (overlap \/ \E q \in Programs : pc[q] # "idle")
    /\ begun' = begun + 1
    /\ pc' = [pc EXCEPT ![p] = "read"]
    /\ UNCHANGED <<file, read, temp>>

(* friends(): a damaged file raises and stays; removing nobody writes        *)
(* nothing.                                                                  *)
ReadStore(p) ==
    /\ pc[p] = "read"
    /\ IF ~file.whole \/ (op[p].do = "remove" /\ op[p].friend \notin file.friends)
       THEN Ends(p)
       ELSE /\ read' = [read EXCEPT ![p] = file.friends]
            /\ pc' = [pc EXCEPT ![p] = "create_temp"]
            /\ UNCHANGED op
    /\ UNCHANGED <<file, temp, begun, paired, overlap>>

CreateTemp(p) ==
    /\ pc[p] = "create_temp"
    /\ temp' = [temp EXCEPT ![p] = "partial"]
    /\ pc' = [pc EXCEPT ![p] = "fill_temp"]
    /\ UNCHANGED <<file, op, read, begun, paired, overlap>>

(* Mutant: write() without flush and fsync. *)
FillTempUnsynced(p) ==
    /\ pc[p] = "fill_temp"
    /\ pc' = [pc EXCEPT ![p] = "replace"]
    /\ UNCHANGED <<file, op, read, temp, begun, paired, overlap>>

FillTemp(p) ==
    /\ pc[p] = "fill_temp"
    /\ temp' = [temp EXCEPT ![p] = "whole"]
    /\ pc' = [pc EXCEPT ![p] = "replace"]
    /\ UNCHANGED <<file, op, read, begun, paired, overlap>>

(* os.replace(). *)
Replace(p) ==
    /\ pc[p] = "replace"
    /\ file' = [friends |-> NewFriends(p), whole |-> temp[p] = "whole"]
    /\ temp' = [temp EXCEPT ![p] = "none"]
    /\ Returns(p)
    /\ UNCHANGED <<begun, overlap>>

(* The temporary file is removed and TrustStoreError raised. *)
WriteFails(p) ==
    /\ Faults /\ pc[p] \in {"fill_temp", "replace"}
    /\ temp' = [temp EXCEPT ![p] = "none"]
    /\ Ends(p)
    /\ UNCHANGED <<file, begun, paired, overlap>>

(* The program dies and is started again; its temporary file stays behind    *)
(* under a name nobody else uses.                                            *)
Crash(p) ==
    /\ Faults /\ pc[p] # "idle"
    /\ temp' = [temp EXCEPT ![p] = "none"]
    /\ Ends(p)
    /\ UNCHANGED <<file, begun, paired, overlap>>

AllDone == begun = MaxWrites /\ (\A p \in Programs : pc[p] = "idle") /\ UNCHANGED vars

Step(p) ==
    \/ Begin(p) \/ ReadStore(p) \/ CreateTemp(p) \/ FillTemp(p) \/ Replace(p)
    \/ WriteFails(p)

Next == (\E p \in Programs : Step(p) \/ Crash(p)) \/ AllDone

Spec == Init /\ [][Next]_vars

-----------------------------------------------------------------------------
TypeOK ==
    /\ file \in [friends : SUBSET Friends, whole : BOOLEAN]
    /\ pc \in [Programs -> {"idle", "read", "create_temp", "fill_temp", "replace"}]
    /\ op \in [Programs -> Ops \cup {NoOp}]
    /\ read \in [Programs -> SUBSET Friends]
    /\ temp \in [Programs -> {"none", "partial", "whole"}]
    /\ \A p \in Programs : (temp[p] = "none") = (pc[p] \in {"idle", "read", "create_temp"})
    /\ begun \in 0..MaxWrites
    /\ paired \subseteq Friends /\ overlap \in BOOLEAN

(* Whoever reads the store at whatever moment, after whatever crash, finds a *)
(* whole file (trust.py:6-8, 98-118).                                        *)
StoreAlwaysWhole == file.whole

(* A paired friend stays in the store until the user forgets it              *)
(* (PROTOCOL-v2.md 4b), through failed writes and crashes, as long as no two *)
(* operations overlap: nothing keeps two programs from reading before either *)
(* replaces, and then one change is lost (trust.py:84, 92, 112).             *)
PairedStays == ~overlap => paired \subseteq file.friends

=============================================================================
