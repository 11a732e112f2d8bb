----------------------------- MODULE MCUserRoles -----------------------------
(***************************************************************************)
(* Two users, two requests at a time.  One user is in the proxy's admin    *)
(* group and the other comes, after a change of address, with a sub that    *)
(* may already have a row.                                                 *)
(***************************************************************************)
EXTENDS UserRoles, TLC

CONSTANTS a, b

MCIdentities ==
  {[email |-> a, sub |-> "s1", inAdmins |-> FALSE],
   [email |-> b, sub |-> "s2", inAdmins |-> TRUE],
   [email |-> b, sub |-> "s1", inAdmins |-> FALSE]}

MCOperations ==
  [kind : Kinds \ {"set_role"}, target : {a}, role : {"admin"}]
    \cup [kind : {"set_role"}, target : {a}, role : {"writer", "admin"}]
    \cup [kind : {"set_role"}, target : {b}, role : {"reviewer"}]

\* The properties are about steps and states, so requests may be exchanged.
Symmetry == Permutations(Requests)

===============================================================================
