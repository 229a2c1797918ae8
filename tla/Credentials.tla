----------------------------- MODULE Credentials ----------------------------
(***************************************************************************)
(* What a device proves itself with, and how: the identity and the friends *)
(* in its files (DeviceFiles), and the channel that is authenticated with  *)
(* them (SecureChannel, whose cfg.key and cfg.pins are what the programs   *)
(* have loaded).  Files are read before a channel is opened, never during  *)
(* its use, so each is followed by itself.                                 *)
(***************************************************************************)
EXTENDS SecureChannel, DeviceFiles

VARIABLE stage

InFiles   == stage = "files"
InChannel == stage = "channel"

CInit ==
    /\ stage \in {"files", "channel"}
    /\ Init /\ FilesInit
    /\ InFiles => cfg = CHOOSE c \in Configs : c.offer = ALPN /\ c.pins.client # {}

CNext ==
    \/ InFiles /\ FilesNext /\ UNCHANGED <<stage, vars>>
    \/ InChannel /\ Next /\ UNCHANGED <<stage, filesVars>>

CSpec == CInit /\ [][CNext]_<<stage, vars, filesVars>>

=============================================================================
