------------------------------ MODULE DelayLine -----------------------------
(***************************************************************************)
(* impair.DelayLine as a value: what waits in its heap, whether it still   *)
(* accepts, and whether a delivery of its thread has failed.  Its condition*)
(* is held across send(), each turn of _run() and close(), so each of them *)
(* is one step.  Due times are left open: the delay and jitter knobs may   *)
(* be turned between two sends, so any waiting value may be the next due.  *)
(***************************************************************************)
EXTENDS Integers, Bags

NewLine == [heap |-> EmptyBag, open |-> TRUE, failed |-> FALSE]

One(v) == SetToBag({v})

(* send(): raises what a delivery raised before; ignored once closed. *)
Raises(line)     == line.failed
Accepts(line)    == line.open
SendLater(line, v) == [line EXCEPT !.heap = @ (+) One(v)]

(* _run(): some due value is handed over... *)
Taken(line, v) == [line EXCEPT !.heap = @ (-) One(v)]

(* Mutant: the thread dies without a word, and nobody empties the heap.      *)
FailedSilently(line) == [line EXCEPT !.open = FALSE]

(* ...or handing it over fails: the line is closed and what waited is gone.  *)
Failed(line) == [heap |-> EmptyBag, open |-> FALSE, failed |-> TRUE]

(* close(drain=True) waits for this, ... *)
Drained(line) == line.heap = EmptyBag \/ line.failed

(* ...then closes, dropping what is left. *)
Closed(line) == [line EXCEPT !.heap = EmptyBag, !.open = FALSE]

=============================================================================
