----------------------------- MODULE MCIngestJobs -----------------------------
(***************************************************************************)
(* Two jobs, so that one can overtake or outlive the other, each with any  *)
(* kind of document; a clock that outlasts the ttl; and two faults, so     *)
(* that a failed statement or a lost message can come before a restart.    *)
(***************************************************************************)
EXTENDS IngestJobs

===============================================================================
