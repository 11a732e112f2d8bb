----------------------------- MODULE MCDebouncer -----------------------------
(***************************************************************************)
(* The debouncer on two policies and four pushes: enough for a stopped     *)
(* timer, a Push that comes between Expire and fire and leaves a timer     *)
(* outside the map, a third Push that cannot stop that timer, and a skip.  *)
(***************************************************************************)
EXTENDS Debouncer

===============================================================================
