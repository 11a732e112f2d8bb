---------------------------- MODULE StartupProofs ----------------------------
(***************************************************************************)
(* Proofs about Startup: the backfills and imports of the composition do   *)
(* not disturb the migrations, so what is proved of Migrations holds here, *)
(* only gateways that serve work on the index, and what is proved of       *)
(* CatalogIndex for any gateways that come and go holds of these.          *)
(***************************************************************************)
EXTENDS Startup, MigrationsProofs, CatalogIndexProofs

\* The composition is a behaviour of the migrations, step by step.
LEMMA StartupMigrates == [StartupNext]_startupVars => [MigrationsNext]_migrationVars
  BY DEF StartupNext, EnsureSchema, startupVars, MigrationsNext, Migrate

LEMMA StartupIInv == StartupSpec => []IInv
<1>1. StartupInit => IInv
  BY InitIInv DEF StartupInit
<1>2. IInv /\ [StartupNext]_startupVars => IInv'
  BY StartupMigrates, IInvStep
<1> QED
  BY <1>1, <1>2, PTL DEF StartupSpec

\* The promises of the migrations, kept beside imports and backfills
\* (main.go:46-96).
THEOREM StartupKeepsSchema ==
  StartupSpec => [](MigrationsInv /\ MigrationsInOrder /\ ServingSeesSchema)
<1>1. IInv => MigrationsInv /\ MigrationsInOrder /\ ServingSeesSchema
  BY DEF IInv, MigrationsInv
<1> QED
  BY <1>1, StartupIInv, PTL

-------------------------------------------------------------------------------
\* Hosts and backfills are functions, and who hosts an import is at it.
Hosts ==
  /\ work = [g \in Gateways |-> work[g]]
  /\ host \in [Imports -> Gateways \cup {NoGateway}]
  /\ next \in [Imports -> Nat]
  /\ doc = [i \in Imports |-> doc[i]]
  /\ \A i \in Imports : host[i] \in Gateways => Importing(i)

ServingInv == Hosts /\ OnlyServingIndexes

LEMMA ServingInvInit == StartupInit => ServingInv
<1> SUFFICES ASSUME StartupInit PROVE ServingInv
  OBVIOUS
<1> USE IndexAssumption DEF StartupInit, IndexInit
<1>1. Hosts
  BY DEF Hosts
<1>2. OnlyServingIndexes
  BY DEF OnlyServingIndexes
<1> QED
  BY <1>1, <1>2 DEF ServingInv

\* A backfill touches the progress of its own gateway.
LEMMA BackfillIsLocal ==
  ASSUME NEW g \in Gateways, Backfill(g) \/ BackfillFails(g)
  PROVE  (\E w : Set(g, w)) /\ UNCHANGED <<doc, host, next>>
<1>1. CASE Backfill(g)
  BY <1>1 DEF Backfill, PopulateMappingEntries, PopulateControls, PopulateThreats, PopulateRisks,
     PopulateCatalogs, PopulatePolicyCriteria, ListDocuments, CountFirst, GetContent, InsertBatch
<1>2. CASE BackfillFails(g)
  BY <1>2 DEF BackfillFails
<1> QED
  BY <1>1, <1>2

\* A request to g or a step of an import that g hosts leaves it hosted by g, at work,
\* or by nobody.
Hosted(i, g) ==
  /\ work' = work
  /\ \E h \in {g, NoGateway} : host' = [host EXCEPT ![i] = h]
  /\ \E n \in Nat : next' = [next EXCEPT ![i] = n]
  /\ \E d : doc' = [doc EXCEPT ![i] = d]
  /\ host'[i] = g => Importing(i)'

LEMMA DoneIsHosted ==
  ASSUME Hosts, NEW g \in Gateways, NEW i \in Imports, ImportDone(i), work' = work
  PROVE  Hosted(i, g)
<1> USE IndexAssumption
<1>1. host'[i] # g
  BY DEF ImportDone, Hosts
<1>2. \E d : doc' = [doc EXCEPT ![i] = d]
  BY DEF ImportDone
<1>3. host' = [host EXCEPT ![i] = NoGateway] /\ next' = [next EXCEPT ![i] = Done] /\ Done \in Nat
  BY DEF ImportDone, Done
<1> QED
  BY <1>1, <1>2, <1>3 DEF Hosted

LEMMA StoringIsHosted ==
  ASSUME Hosts, NEW g \in Gateways, NEW i \in Imports, NEW a, NEW d, StoreDocument(i, g, a, d)
  PROVE  Hosted(i, g)
<1> DEFINE e == [art |-> a, d |-> d]
<1>1. e # << >>
  <2>1. "art" \in DOMAIN e /\ "art" \notin DOMAIN << >>
    OBVIOUS
  <2> QED
    BY <2>1
<1>2. work' = work /\ host' = [host EXCEPT ![i] = g] /\ next' = [next EXCEPT ![i] = 1]
      /\ doc' = [doc EXCEPT ![i] = e]
  BY DEF StoreDocument
<1>3. doc'[i] = e /\ next'[i] = 1
  BY <1>2 DEF Hosts
<1>4. Importing(i)'
  BY <1>1, <1>3 DEF Importing
<1> HIDE DEF e
<1> QED
  BY <1>2, <1>4 DEF Hosted

LEMMA OnwardIsHosted ==
  ASSUME Hosts, NEW g \in Gateways, NEW i \in Imports, host[i] = g, Onward(i), work' = work
  PROVE  Hosted(i, g)
<1>1. CASE ImportDone(i)
  BY <1>1, DoneIsHosted
<1>2. CASE next' = [next EXCEPT ![i] = @ + 1] /\ UNCHANGED <<doc, host>>
  <2>1. Importing(i) /\ next[i] \in Nat
    BY DEF Hosts
  <2>2. Importing(i)'
    BY <1>2, <2>1 DEF Importing, Hosts
  <2>3. host' = [host EXCEPT ![i] = g] /\ doc' = [doc EXCEPT ![i] = doc[i]]
    BY <1>2 DEF Hosts
  <2>4. next' = [next EXCEPT ![i] = next[i] + 1] /\ next[i] + 1 \in Nat
    BY <1>2, <2>1
  <2> QED
    BY <2>2, <2>3, <2>4 DEF Hosted
<1> QED
  BY <1>1, <1>2 DEF Onward

\* What a gateway does with the index is a step of its backfill or of its imports.
LEMMA IndexStepIsLocal ==
  ASSUME Hosts, NEW g \in Gateways, IndexStep(g)
  PROVE  \/ (\E w : Set(g, w)) /\ UNCHANGED <<doc, host, next>>
         \/ \E i \in Imports : Hosted(i, g)
<1>1. CASE Backfill(g) \/ BackfillFails(g)
  BY <1>1, BackfillIsLocal
<1>2. ASSUME NEW i \in Imports, NEW a \in Artifacts,
             StorePolicy(i, g, a) \/ StoreMapping(i, g, a) \/ StoreCatalog(i, g, a)
      PROVE  Hosted(i, g)
  BY <1>2, StoringIsHosted DEF StorePolicy, StoreMapping, StoreCatalog
<1>3. ASSUME NEW i \in Imports, NEW a \in Artifacts, StoreFails(i, g, a) PROVE Hosted(i, g)
  BY <1>3, DoneIsHosted DEF StoreFails
<1>4. ASSUME NEW i \in Imports, host[i] = g, IndexTable(i) PROVE Hosted(i, g)
  BY <1>4, OnwardIsHosted DEF IndexTable
<1>5. ASSUME NEW i \in Imports, host[i] = g, IndexFails(i) PROVE Hosted(i, g)
  BY <1>5, OnwardIsHosted, DoneIsHosted DEF IndexFails
<1> QED
  BY <1>1, <1>2, <1>3, <1>4, <1>5 DEF IndexStep, Import

\* Either step keeps the invariant, when g serves and no gateway starts or stops.
LEMMA LocalKeeps ==
  ASSUME ServingInv, NEW g \in Gateways, Serves(g), phase' = phase,
         \/ (\E w : Set(g, w)) /\ UNCHANGED <<doc, host, next>>
         \/ \E i \in Imports : Hosted(i, g)
  PROVE  ServingInv'
<1> USE IndexAssumption DEF ServingInv
<1>1. CASE (\E w : Set(g, w)) /\ UNCHANGED <<doc, host, next>>
  BY <1>1 DEF Set, Hosts, OnlyServingIndexes, Serves, Importing
<1>2. ASSUME NEW i \in Imports, Hosted(i, g) PROVE ServingInv'
  <2>1. Hosts'
    <3>1. work' = [h \in Gateways |-> work'[h]] /\ doc' = [j \in Imports |-> doc'[j]]
      BY <1>2 DEF Hosts, Hosted
    <3>2. host' \in [Imports -> Gateways \cup {NoGateway}] /\ next' \in [Imports -> Nat]
      BY <1>2 DEF Hosts, Hosted
    <3>3. \A j \in Imports : host'[j] \in Gateways => Importing(j)'
      BY <1>2 DEF Hosts, Hosted, Importing
    <3> QED
      BY <3>1, <3>2, <3>3 DEF Hosts
  <2>2. OnlyServingIndexes'
    BY <1>2 DEF Hosts, Hosted, OnlyServingIndexes, Serves
  <2> QED
    BY <2>1, <2>2
<1> QED
  BY <1>1, <1>2

\* A step of EnsureSchema that does not lead to serving stops no gateway.
LEMMA SchemaStepsKeepServing ==
  ASSUME MigrationsTypeOK, NEW g \in Gateways,
         Start(g) \/ Lock(g) \/ Check(g) \/ RunScript(g) \/ Record(g) \/ StatementFails(g)
  PROVE  \A h \in Gateways : Serves(h) => Serves(h)'
  BY DEF MigrationsTypeOK, Start, Lock, Check, RunScript, Record, StatementFails, Enter, Exit, Serves

LEMMA ServingInvStep == IInv /\ ServingInv /\ [StartupNext]_startupVars => ServingInv'
<1> SUFFICES ASSUME IInv, ServingInv, [StartupNext]_startupVars PROVE ServingInv'
  OBVIOUS
<1> USE MigrationsAssumption, IndexAssumption
<1>0. MigrationsTypeOK /\ Hosts
  BY DEF IInv, ServingInv
<1>a. ASSUME UNCHANGED indexVars, \A h \in Gateways : Serves(h) => Serves(h)' PROVE ServingInv'
  BY <1>a DEF indexVars, ServingInv, Hosts, OnlyServingIndexes, Importing
<1>1. ASSUME NEW g \in Gateways, EnsureSchema(g) PROVE ServingInv'
  <2>1. \A h \in Gateways : Serves(h) => Serves(h)'
    BY <1>0, <1>1, SchemaStepsKeepServing DEF EnsureSchema
  <2>2. CASE UNCHANGED indexVars
    BY <2>1, <2>2, <1>a
  <2>3. CASE phase'[g] = "serving" /\ BackfillStart(g)
    BY <2>1, <2>3 DEF BackfillStart, Set, ServingInv, Hosts, OnlyServingIndexes, Importing, Serves
  <2> QED
    BY <1>1, <2>2, <2>3 DEF EnsureSchema
<1>2. ASSUME NEW g \in Gateways, Serves(g), IndexStep(g), UNCHANGED migrationVars PROVE ServingInv'
  BY <1>0, <1>2, IndexStepIsLocal, LocalKeeps DEF migrationVars
<1>3. ASSUME NEW g \in Gateways, Crash(g), Kill(g) PROVE ServingInv'
  <2>1. \A h \in Gateways \ {g} : Serves(h) => Serves(h)'
    BY <1>0, <1>3 DEF MigrationsTypeOK, Crash, Enter, Exit, Serves
  <2>2. work' = [work EXCEPT ![g] = Off] /\ \A i \in Imports :
          IF Importing(i) /\ host[i] = g THEN host'[i] = NoGateway
          ELSE host'[i] = host[i] /\ doc'[i] = doc[i] /\ next'[i] = next[i]
    BY <1>3 DEF Kill, Set
  <2>3. Hosts'
    <3>1. work' = [h \in Gateways |-> work'[h]]
      BY <1>0, <2>2 DEF Hosts
    <3>2. host' \in [Imports -> Gateways \cup {NoGateway}] /\ next' \in [Imports -> Nat]
      BY <1>0, <1>3 DEF Kill, Hosts, Done
    <3>3. doc' = [i \in Imports |-> doc'[i]]
      BY <1>3 DEF Kill
    <3>4. \A i \in Imports : host'[i] \in Gateways => Importing(i)'
      BY <1>0, <2>2 DEF Hosts, Importing
    <3> QED
      BY <3>1, <3>2, <3>3, <3>4 DEF Hosts
  <2>4. OnlyServingIndexes'
    BY <1>0, <2>1, <2>2 DEF Hosts, ServingInv, OnlyServingIndexes
  <2> QED
    BY <2>3, <2>4 DEF ServingInv
<1>4. CASE OrphanEnds /\ UNCHANGED indexVars
  BY <1>4, <1>a DEF OrphanEnds, Serves
<1>5. CASE UNCHANGED startupVars
  BY <1>5, <1>a DEF startupVars, migrationVars, indexVars, Serves
<1> QED
  BY <1>1, <1>2, <1>3, <1>4, <1>5 DEF StartupNext

\* Only a gateway that serves, and so sees the schema of its release, works on
\* the index (main.go:52-96).
THEOREM OnlyServingAlwaysIndexes == StartupSpec => []OnlyServingIndexes
<1>1. ServingInv => OnlyServingIndexes
  BY DEF ServingInv
<1> QED
  BY <1>1, StartupIInv, ServingInvInit, ServingInvStep, PTL DEF StartupSpec

\* The composition implements the schema upgrade as the migrations alone do.
THEOREM StartupRefinesUpgrade == StartupSpec => ImplementsUpgrade
<1>1. StartupInit => Upgrade!UpgradeInit
  BY UpgradeInitially DEF StartupInit
<1>2. IInv /\ [StartupNext]_startupVars => [Upgrade!UpgradeNext]_(Upgrade!vars)
  BY StartupMigrates, UpgradeStep
<1> QED
  BY <1>1, <1>2, StartupIInv, PTL DEF StartupSpec, ImplementsUpgrade, Upgrade!UpgradeSpec

-------------------------------------------------------------------------------
\* A gateway that comes to serve has no backfill yet, so every step of the
\* composition is a step of the index or leaves it alone.
LEMMA StartupIndexes ==
  ASSUME OnlyServingIndexes, [StartupNext]_startupVars
  PROVE  [IndexNext]_indexVars
<1>1. ASSUME NEW g \in Gateways, EnsureSchema(g) PROVE [IndexNext]_indexVars
  <2>1. Check(g) => ~ Serves(g)
    BY DEF Check, Serves
  <2>2. Check(g) /\ BackfillStart(g) => work[g] = Off
    BY <2>1 DEF OnlyServingIndexes
  <2>. QED
    BY <1>1, <2>2 DEF EnsureSchema, IndexNext
<1>2. ASSUME NEW g \in Gateways, IndexStep(g) \/ Kill(g) PROVE IndexNext
  BY <1>2 DEF IndexNext
<1>3. CASE OrphanEnds /\ UNCHANGED indexVars
  BY <1>3
<1>4. CASE UNCHANGED startupVars
  BY <1>4 DEF startupVars
<1> QED
  BY <1>1, <1>2, <1>3, <1>4 DEF StartupNext

LEMMA StartupCatalogIInv == StartupSpec => []CatalogIInv
<1>1. StartupInit => CatalogIInv
  BY CatalogIInvInit DEF StartupInit
<1>2. CatalogIInv /\ OnlyServingIndexes /\ [StartupNext]_startupVars => CatalogIInv'
  BY StartupIndexes, CatalogIInvStep
<1> QED
  BY <1>1, <1>2, OnlyServingAlwaysIndexes, PTL DEF StartupSpec

\* Types; rows are only in the tables of the kind of a stored document, one row to
\* a key; and no backfill inserts rows of a document whose content it has not got
\* (handlers_import.go, handlers_catalogs.go, populate.go).
THEOREM IndexAlwaysInOrder == StartupSpec => []IndexInv
<1>1. CatalogIInv => IndexInv
  BY CatalogIInvGives
<1> QED
  BY <1>1, StartupCatalogIInv, PTL

\* Once the last import of a document is over, and nothing failed and no older
\* import or backfill was on its way when it came, the tables that are upserted
\* have the rows of the stored content, whatever backfills and restarts of
\* gateways come later; mapping entries have its strength and confidence, and may
\* keep an older framework and requirement_id (handlers_import.go:119-202,
\* populate.go, store.go:345-348).
THEOREM QuietIndexAlwaysAgrees == StartupSpec => []QuietIndexAgrees
<1>1. CatalogIInv => QuietIndexAgrees
  BY CatalogIInvGives
<1> QED
  BY <1>1, StartupCatalogIInv, PTL

\* Where a backfill ran through without a failure, the documents that were there
\* when it began have rows in their first table, unless they are guidance catalogs
\* or some version of them has no rows there or repeats a key that the table
\* refuses; and in every other table that took all their versions, unless somebody
\* is at it or a batch went wrong (populate.go:17-167, 296; main.go:76-96).
THEOREM BackfillAlwaysFillsFitting == StartupSpec => []BackfillFillsFitting
<1>1. CatalogIInv => BackfillFillsFitting
  BY CatalogIInvGives
<1> QED
  BY <1>1, StartupCatalogIInv, PTL

===============================================================================
