-------------------------------- MODULE Startup --------------------------------
(***************************************************************************)
(* A gateway from its start to a filled index (main.go): it migrates the   *)
(* schema, then serves, and then its backfill runs beside the imports of   *)
(* all gateways that serve.  Migrations and CatalogIndex share the         *)
(* processes: a crash ends both.                                           *)
(***************************************************************************)
EXTENDS Migrations, CatalogIndex

CONSTANT MaxTroubles   \* bound: mishaps and failures together
ASSUME StartupAssumption == MaxTroubles \in Nat

startupVars == <<migrationVars, indexVars>>

StartupInit == MigrationsInit /\ IndexInit

Serves(g) == phase[g] = "serving"

\* Mutated form: the backfill is started before the schema is there.
BackfillAtStart(g) ==
  \/ Start(g) /\ BackfillStart(g)
  \/ (Lock(g) \/ Check(g) \/ RunScript(g) \/ Record(g) \/ StatementFails(g)) /\ UNCHANGED indexVars

\* EnsureSchema, and when it has succeeded, the goroutine of the backfill.
EnsureSchema(g) ==
  \/ (Start(g) \/ Lock(g) \/ RunScript(g) \/ Record(g) \/ StatementFails(g)) /\ UNCHANGED indexVars
  \/ Check(g) /\ IF phase'[g] = "serving" THEN BackfillStart(g) ELSE UNCHANGED indexVars

StartupNext ==
  /\ \/ \E g \in Gateways :
          \/ EnsureSchema(g)
          \/ Serves(g) /\ IndexStep(g) /\ UNCHANGED migrationVars
          \/ Crash(g) /\ Kill(g)
     \/ OrphanEnds /\ UNCHANGED indexVars
  /\ mishaps' + failures' <= MaxTroubles

\* Besides the migrations, every backfill goes on.
StartupFairness ==
  /\ MigrationsFairness
  /\ \A g \in Gateways : WF_indexVars(Backfill(g))

StartupSpec == StartupInit /\ [][StartupNext]_startupVars /\ StartupFairness

-------------------------------------------------------------------------------
\* Only a gateway that serves, and so sees its schema, works on the index.
OnlyServingIndexes ==
  \A g \in Gateways : ~Serves(g) =>
    work[g] = Off /\ \A i \in Imports : host[i] # g

\* Every gateway ends up serving with its backfill run through, or is stuck
\* behind an unrepeatable migration that was not recorded.
ReadyOrStuck ==
  \A g \in Gateways : <>[](Serves(g) /\ work[g] = Finished) \/ <>[]Stuck(g)

===============================================================================
