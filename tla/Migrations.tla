------------------------------ MODULE Migrations ------------------------------
(***************************************************************************)
(* Schema migrations at startup (postgres/client.go, main.go): a gateway   *)
(* takes PostgreSQL's advisory lock, and for each migration of its release, *)
(* in order, asks whether it is recorded, runs its script, and records it. *)
(* The script and its record are two transactions.                         *)
(*                                                                         *)
(* Several gateways may start at once, of several releases: a rolling      *)
(* update starts the new one beside the old one.  Whatever fails ends the  *)
(* process, and the orchestrator starts it again.                          *)
(***************************************************************************)
EXTENDS Deployment, Naturals, FiniteSets

CONSTANTS Release,     \* gateway -> how many migrations its binary holds
          Repeatable,  \* migrations whose script may run on its own result
          Nobody,      \* the lock is free
          Orphan,      \* a session whose client is gone
          MaxMishaps   \* bound: statements that fail and crashes

ASSUME MigrationsAssumption ==
  /\ Release \in [Gateways -> Nat] /\ MaxMishaps \in Nat
  /\ Nobody \notin Gateways /\ Orphan \notin Gateways /\ Nobody # Orphan

VARIABLES phase,     \* gateway -> what it is doing
          at,        \* gateway -> the migration its loop is at
          holder,    \* the session that holds the advisory lock
          left,      \* the migration an orphan is running, or 0
          applied,   \* migration -> how often its script was committed
          recorded,  \* schema_migrations
          mishaps    \* mishaps so far

migrationVars == <<phase, at, holder, left, applied, recorded, mishaps>>

Migration == UNION {1..Release[g] : g \in Gateways}
Phases == {"down", "waiting", "checking", "running", "recording", "serving"}

MigrationsInit ==
  /\ phase = [g \in Gateways |-> "down"]
  /\ at = [g \in Gateways |-> 0]
  /\ holder = Nobody
  /\ left = 0
  /\ applied = [v \in Migration |-> 0]
  /\ recorded = {}
  /\ mishaps = 0

Enter(g, step) == phase' = [phase EXCEPT ![g] = step]

\* Mutated form: the connection goes back to the pool with the lock.
ExitWithLock(g) ==
  /\ Enter(g, "down")
  /\ at' = [at EXCEPT ![g] = 0]
  /\ UNCHANGED holder

\* The deferred unlock, or the end of the session, which frees the lock as well.
Exit(g) ==
  /\ Enter(g, "down")
  /\ at' = [at EXCEPT ![g] = 0]
  /\ holder' = IF holder = g THEN Nobody ELSE holder

-------------------------------------------------------------------------------
Start(g) ==
  /\ phase[g] = "down"
  /\ Enter(g, "waiting")
  /\ UNCHANGED <<at, holder, left, applied, recorded, mishaps>>

\* Mutated form: the lock is not waited for.
LockWithoutWaiting(g) ==
  /\ phase[g] = "waiting"
  /\ holder' = g
  /\ at' = [at EXCEPT ![g] = 1]
  /\ Enter(g, "checking")
  /\ UNCHANGED <<left, applied, recorded, mishaps>>

\* SELECT pg_advisory_lock
Lock(g) ==
  /\ phase[g] = "waiting" /\ holder = Nobody
  /\ holder' = g
  /\ at' = [at EXCEPT ![g] = 1]
  /\ Enter(g, "checking")
  /\ UNCHANGED <<left, applied, recorded, mishaps>>

\* Mutated form: the loop ends one migration early.
CheckButLast(g) ==
  /\ phase[g] = "checking"
  /\ IF at[g] >= Release[g] THEN Enter(g, "serving") /\ holder' = Nobody /\ UNCHANGED at
     ELSE /\ IF at[g] \in recorded THEN at' = [at EXCEPT ![g] = @ + 1] /\ UNCHANGED phase
             ELSE Enter(g, "running") /\ UNCHANGED at
          /\ UNCHANGED holder
  /\ UNCHANGED <<left, applied, recorded, mishaps>>

\* The head of the loop: recorded migrations are passed over, and after the last
\* one the lock is given back and the gateway starts to serve.
Check(g) ==
  /\ phase[g] = "checking"
  /\ IF at[g] > Release[g] THEN Enter(g, "serving") /\ holder' = Nobody /\ UNCHANGED at
     ELSE /\ IF at[g] \in recorded THEN at' = [at EXCEPT ![g] = @ + 1] /\ UNCHANGED phase
             ELSE Enter(g, "running") /\ UNCHANGED at
          /\ UNCHANGED holder
  /\ UNCHANGED <<left, applied, recorded, mishaps>>

\* A script is one implicit transaction.  Those that are not repeatable fail on
\* their own result: 004 reads a column it has dropped, 011 adds a constraint
\* that is there.
Runs(v) == applied[v] = 0 \/ v \in Repeatable
Committed(v) == applied' = [applied EXCEPT ![v] = @ + 1]

RunScript(g) ==
  /\ phase[g] = "running"
  /\ IF Runs(at[g])
     THEN Committed(at[g]) /\ Enter(g, "recording") /\ UNCHANGED <<at, holder>>
     ELSE Exit(g) /\ UNCHANGED applied
  /\ UNCHANGED <<left, recorded, mishaps>>

\* INSERT INTO schema_migrations
Record(g) ==
  /\ phase[g] = "recording"
  /\ recorded' = recorded \cup {at[g]}
  /\ at' = [at EXCEPT ![g] = @ + 1]
  /\ Enter(g, "checking")
  /\ UNCHANGED <<holder, left, applied, mishaps>>

Mishap == mishaps < MaxMishaps /\ mishaps' = mishaps + 1

\* Mutated form: the failure is logged and the loop goes on.
StatementFailsLogged(g) ==
  /\ phase[g] \in {"checking", "running", "recording"}
  /\ Mishap
  /\ at' = [at EXCEPT ![g] = @ + 1] /\ Enter(g, "checking")
  /\ UNCHANGED <<holder, left, applied, recorded>>

\* A statement fails, or waits too long for the lock (statement_timeout).  What
\* it was to write may have been committed and the answer lost.
StatementFails(g) ==
  /\ phase[g] \in {"waiting", "checking", "running", "recording"}
  /\ Mishap
  /\ \/ UNCHANGED <<applied, recorded>>
     \/ phase[g] = "running" /\ Runs(at[g]) /\ Committed(at[g]) /\ UNCHANGED recorded
     \/ phase[g] = "recording" /\ recorded' = recorded \cup {at[g]} /\ UNCHANGED applied
  /\ Exit(g)
  /\ UNCHANGED left

\* The process dies.  The server ends its session at once, unless that is running
\* a script, which it finishes first.
Crash(g) ==
  /\ phase[g] # "down"
  /\ Mishap
  /\ IF phase[g] = "running"
     THEN /\ Enter(g, "down") /\ at' = [at EXCEPT ![g] = 0]
          /\ holder' = Orphan /\ left' = at[g]
     ELSE Exit(g) /\ UNCHANGED left
  /\ UNCHANGED <<applied, recorded>>

OrphanEnds ==
  /\ holder = Orphan
  /\ \/ Runs(left) /\ Committed(left)
     \/ UNCHANGED applied
  /\ holder' = Nobody /\ left' = 0
  /\ UNCHANGED <<phase, at, recorded, mishaps>>

-------------------------------------------------------------------------------
Migrate(g) == Lock(g) \/ Check(g) \/ RunScript(g) \/ Record(g)

MigrationsNext ==
  \/ \E g \in Gateways : Start(g) \/ Migrate(g) \/ StatementFails(g) \/ Crash(g)
  \/ OrphanEnds

\* The orchestrator restarts what is down, a migration that was begun goes on,
\* and the lock is granted in the order of the waiters.
MigrationsFairness ==
  /\ \A g \in Gateways :
       /\ WF_migrationVars(Start(g))
       /\ SF_migrationVars(Lock(g))
       /\ WF_migrationVars(Check(g) \/ RunScript(g) \/ Record(g))
  /\ WF_migrationVars(OrphanEnds)

MigrationsSpec ==
  MigrationsInit /\ [][MigrationsNext]_migrationVars /\ MigrationsFairness

-------------------------------------------------------------------------------
\* Properties.

MigrationsTypeOK ==
  /\ phase \in [Gateways -> Phases]
  /\ at \in [Gateways -> Nat]
  /\ holder \in Gateways \cup {Nobody, Orphan}
  /\ left \in Nat
  /\ applied \in [Migration -> Nat]
  /\ recorded \subseteq Migration
  /\ mishaps \in 0..MaxMishaps

\* Who holds the lock is in the loop, at a migration whose predecessors are
\* recorded; an orphan runs a script that is not recorded.
LockBooks ==
  /\ \A g \in Gateways :
       /\ phase[g] \in {"checking", "running", "recording"} <=> holder = g
       /\ holder = g => at[g] \in 1..(Release[g] + 1) /\ 1..(at[g] - 1) \subseteq recorded
       /\ phase[g] \in {"running", "recording"} => at[g] \in (1..Release[g]) \ recorded
       /\ phase[g] = "recording" => applied[at[g]] > 0
  /\ IF holder = Orphan THEN left \in Migration \ recorded /\ 1..(left - 1) \subseteq recorded
     ELSE left = 0

\* A script that was committed again was cut off from its record, each time, by
\* a mishap.
Recording(v) == \E g \in Gateways : phase[g] = "recording" /\ at[g] = v
RepeatsArePaid ==
  \A v \in Migration :
    applied[v] <= mishaps + (IF v \in recorded \/ Recording(v) THEN 1 ELSE 0)

MigrationsInv == MigrationsTypeOK /\ LockBooks /\ RepeatsArePaid

\* The schema grows in order (client.go:191-232): what is recorded are the first
\* so many migrations, and no script has been committed beyond the next one,
\* however many gateways of whatever releases start, and wherever they die.
MigrationsInOrder ==
  /\ \A v \in recorded : 1..v \subseteq recorded /\ applied[v] > 0
  /\ \A v \in Migration : applied[v] > 0 => 1..(v - 1) \subseteq recorded

\* A gateway that serves has every migration of its release under it
\* (main.go:52-56), and they stay.
ServingSeesSchema ==
  \A g \in Gateways : phase[g] = "serving" =>
    \A v \in 1..Release[g] : v \in recorded /\ applied[v] > 0

\* The promise, with the number of recorded migrations for the version.
Upgrade == INSTANCE SchemaUpgrade
             WITH version <- Cardinality(recorded),
                  serving <- {g \in Gateways : phase[g] = "serving"}
ImplementsUpgrade == Upgrade!UpgradeSpec

\* What no restart repairs: the result of an unrepeatable script without its
\* record.
Stuck(g) == \E v \in 1..Release[g] : v \notin Repeatable /\ v \notin recorded /\ applied[v] > 0

===============================================================================
