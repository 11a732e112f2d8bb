------------------------------ MODULE MCStartup ------------------------------
(***************************************************************************)
(* A rolling update: the old release has one migration and the new one a   *)
(* second, which cannot run twice.  One document of any kind, there or     *)
(* not, and one import of a new version of it, which shares a key with the *)
(* old one and differs in another.  The old version has no threats of its  *)
(* risks; the new one has a key twice among its threats and among the      *)
(* threats of its controls.                                                *)
(***************************************************************************)
EXTENDS Startup

CONSTANTS g1, g2, c1, c2

MCRelease == [g \in Gateways |-> IF g = g1 THEN 1 ELSE 2]
MCItems ==
  [c \in Contents |-> [t \in TableNames |->
    IF c = c2 THEN {2, 3} ELSE IF t = "risk_threats" THEN {} ELSE {1, 2}]]
MCRepeats == [c \in Contents |-> IF c = c2 THEN {"threats", "control_threats"} ELSE {}]
MCEarlier == {[content |-> c1, meta |-> "none"]}
MCDocuments == {[content |-> c2, meta |-> "p"]}

===============================================================================
