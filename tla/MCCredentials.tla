--------------------------- MODULE MCCredentials ----------------------------
(* Files: three programs that start twice each and share three changes of    *)
(* the store.  Channel: one message of one byte after READY, so that two     *)
(* frames arrive in pieces that neither begins or ends with.                 *)
EXTENDS Credentials, TLC
MCPayloads == {<<7>>}
Symmetry == Permutations(Programs) \cup Permutations(Friends)
=============================================================================
