--------------------------- MODULE MCKeyringLife ----------------------------
(* Five generations, so that one tag is reused; a clock of three ticks and   *)
(* keys that live for two of them, so that keys retire in the middle of a    *)
(* run of rotations.                                                         *)
EXTENDS KeyringLife
=============================================================================
