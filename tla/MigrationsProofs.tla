--------------------------- MODULE MigrationsProofs ---------------------------
(***************************************************************************)
(* Proofs about Migrations, for any gateways, any releases and any number  *)
(* of mishaps.                                                             *)
(***************************************************************************)
EXTENDS Migrations, FiniteSetTheorems, TLAPS

\* The script that an orphan may still commit was cut off by a crash of its own.
OrphanIsPaid == holder = Orphan => applied[left] < mishaps

\* The inductive invariant.
IInv ==
  /\ MigrationsTypeOK /\ LockBooks /\ RepeatsArePaid /\ OrphanIsPaid
  /\ MigrationsInOrder /\ ServingSeesSchema
  /\ IsFiniteSet(recorded)

\* At first nothing is migrated and no gateway runs.
LEMMA InitIInv == MigrationsInit => IInv
<1> SUFFICES ASSUME MigrationsInit PROVE IInv
  OBVIOUS
<1> USE MigrationsAssumption DEF MigrationsInit
<1>1. MigrationsTypeOK
  BY DEF MigrationsTypeOK, Phases
<1>2. LockBooks
  BY DEF LockBooks
<1>3. RepeatsArePaid
  BY DEF RepeatsArePaid, Recording
<1>4. OrphanIsPaid /\ MigrationsInOrder
  BY DEF OrphanIsPaid, MigrationsInOrder
<1>5. ServingSeesSchema
  BY DEF ServingSeesSchema
<1>6. IsFiniteSet(recorded)
  BY FS_EmptySet
<1> QED
  BY <1>1, <1>2, <1>3, <1>4, <1>5, <1>6 DEF IInv


\* Types are kept.
LEMMA TypeStep == IInv /\ [MigrationsNext]_migrationVars => MigrationsTypeOK'
<1> SUFFICES ASSUME IInv, [MigrationsNext]_migrationVars PROVE MigrationsTypeOK'
  OBVIOUS
<1> USE MigrationsAssumption DEF IInv, MigrationsTypeOK, LockBooks, Migration, Phases
<1>1. ASSUME NEW g \in Gateways, Start(g) PROVE MigrationsTypeOK'
  BY <1>1 DEF Start, Enter
<1>2. ASSUME NEW g \in Gateways, Lock(g) PROVE MigrationsTypeOK'
  BY <1>2 DEF Lock, Enter
<1>3. ASSUME NEW g \in Gateways, Check(g) PROVE MigrationsTypeOK'
  BY <1>3 DEF Check, Enter
<1>4. ASSUME NEW g \in Gateways, RunScript(g) PROVE MigrationsTypeOK'
  BY <1>4 DEF RunScript, Committed, Enter, Exit
<1>5. ASSUME NEW g \in Gateways, Record(g) PROVE MigrationsTypeOK'
  BY <1>5 DEF Record, Enter
<1>6. ASSUME NEW g \in Gateways, StatementFails(g) PROVE MigrationsTypeOK'
  BY <1>6 DEF StatementFails, Mishap, Committed, Enter, Exit
<1>7. ASSUME NEW g \in Gateways, Crash(g) PROVE MigrationsTypeOK'
  BY <1>7 DEF Crash, Mishap, Enter, Exit
<1>8. ASSUME OrphanEnds PROVE MigrationsTypeOK'
  BY <1>8 DEF OrphanEnds, Committed
<1>9. ASSUME UNCHANGED migrationVars PROVE MigrationsTypeOK'
  BY <1>9 DEF migrationVars, Recording
<1> QED
  BY <1>1, <1>2, <1>3, <1>4, <1>5, <1>6, <1>7, <1>8, <1>9 DEF MigrationsNext, Migrate

\* The lock and the loop keep together: only the holder moves in the loop, and it
\* passes over recorded migrations and records the one it ran.
LEMMA LockStep == IInv /\ [MigrationsNext]_migrationVars => LockBooks'
<1> SUFFICES ASSUME IInv, [MigrationsNext]_migrationVars PROVE LockBooks'
  OBVIOUS
<1> USE MigrationsAssumption DEF IInv, MigrationsTypeOK, LockBooks, Migration
<1>1. ASSUME NEW g \in Gateways, Start(g) PROVE LockBooks'
  BY <1>1 DEF Start, Enter
<1>2. ASSUME NEW g \in Gateways, Lock(g) PROVE LockBooks'
  BY <1>2 DEF Lock, Enter
<1>3. ASSUME NEW g \in Gateways, Check(g) PROVE LockBooks'
  BY <1>3 DEF Check, Enter
<1>4. ASSUME NEW g \in Gateways, RunScript(g) PROVE LockBooks'
  BY <1>4 DEF RunScript, Committed, Enter, Exit
<1>5. ASSUME NEW g \in Gateways, Record(g) PROVE LockBooks'
  BY <1>5 DEF Record, Enter
<1>6. ASSUME NEW g \in Gateways, StatementFails(g) PROVE LockBooks'
  BY <1>6 DEF StatementFails, Mishap, Committed, Enter, Exit
<1>7. ASSUME NEW g \in Gateways, Crash(g) PROVE LockBooks'
  BY <1>7 DEF Crash, Mishap, Enter, Exit
<1>8. ASSUME OrphanEnds PROVE LockBooks'
  BY <1>8 DEF OrphanEnds, Committed
<1>9. ASSUME UNCHANGED migrationVars PROVE LockBooks'
  BY <1>9 DEF migrationVars, Recording
<1> QED
  BY <1>1, <1>2, <1>3, <1>4, <1>5, <1>6, <1>7, <1>8, <1>9 DEF MigrationsNext, Migrate

\* A script is committed either before its record or at the cost of a mishap.
LEMMA PaidStep == IInv /\ [MigrationsNext]_migrationVars => RepeatsArePaid'
<1> SUFFICES ASSUME IInv, [MigrationsNext]_migrationVars PROVE RepeatsArePaid'
  OBVIOUS
<1> USE MigrationsAssumption DEF IInv, MigrationsTypeOK, LockBooks, RepeatsArePaid, OrphanIsPaid, Recording, Migration
<1>1. ASSUME NEW g \in Gateways, Start(g) PROVE RepeatsArePaid'
  BY <1>1 DEF Start, Enter
<1>2. ASSUME NEW g \in Gateways, Lock(g) PROVE RepeatsArePaid'
  BY <1>2 DEF Lock, Enter
<1>3. ASSUME NEW g \in Gateways, Check(g) PROVE RepeatsArePaid'
  BY <1>3 DEF Check, Enter
<1>4. ASSUME NEW g \in Gateways, RunScript(g) PROVE RepeatsArePaid'
  BY <1>4 DEF RunScript, Committed, Enter, Exit
<1>5. ASSUME NEW g \in Gateways, Record(g) PROVE RepeatsArePaid'
  BY <1>5 DEF Record, Enter
<1>6. ASSUME NEW g \in Gateways, StatementFails(g) PROVE RepeatsArePaid'
  BY <1>6 DEF StatementFails, Mishap, Committed, Enter, Exit
<1>7. ASSUME NEW g \in Gateways, Crash(g) PROVE RepeatsArePaid'
  BY <1>7 DEF Crash, Mishap, Enter, Exit
<1>8. ASSUME OrphanEnds PROVE RepeatsArePaid'
  <2> SUFFICES ASSUME NEW v \in Migration
               PROVE  applied'[v] <= mishaps' + (IF v \in recorded' \/ Recording(v)' THEN 1 ELSE 0)
    BY DEF RepeatsArePaid
  <2>1. UNCHANGED <<phase, at, recorded, mishaps>>
    BY <1>8 DEF OrphanEnds
  <2>2. Recording(v)' <=> Recording(v)
    BY <2>1 DEF Recording
  <2>3. applied'[v] <= applied[v] \/ (v = left /\ applied'[v] = applied[v] + 1)
    BY <1>8 DEF OrphanEnds, Committed
  <2>4. applied[v] <= mishaps + (IF v \in recorded \/ Recording(v) THEN 1 ELSE 0)
    OBVIOUS
  <2>5. applied[left] < mishaps
    BY <1>8 DEF OrphanEnds
  <2>6. applied[v] \in Nat /\ applied'[v] \in Nat /\ mishaps \in Nat
    BY <1>8 DEF OrphanEnds, Committed
  <2> HIDE DEF IInv, MigrationsTypeOK, LockBooks, RepeatsArePaid, OrphanIsPaid, Recording, Migration
  <2> QED
    BY <2>1, <2>2, <2>3, <2>4, <2>5, <2>6
<1>9. ASSUME UNCHANGED migrationVars PROVE RepeatsArePaid'
  BY <1>9 DEF migrationVars
<1> QED
  BY <1>1, <1>2, <1>3, <1>4, <1>5, <1>6, <1>7, <1>8, <1>9 DEF MigrationsNext, Migrate

\* Only a crash leaves an orphan, of a script that was not recorded.
LEMMA OrphanStep == IInv /\ [MigrationsNext]_migrationVars => OrphanIsPaid'
<1> SUFFICES ASSUME IInv, [MigrationsNext]_migrationVars PROVE OrphanIsPaid'
  OBVIOUS
<1> USE MigrationsAssumption DEF IInv, MigrationsTypeOK, LockBooks, RepeatsArePaid, OrphanIsPaid, Recording, Migration
<1>1. ASSUME NEW g \in Gateways, Start(g) PROVE OrphanIsPaid'
  BY <1>1 DEF Start, Enter
<1>2. ASSUME NEW g \in Gateways, Lock(g) PROVE OrphanIsPaid'
  BY <1>2 DEF Lock, Enter
<1>3. ASSUME NEW g \in Gateways, Check(g) PROVE OrphanIsPaid'
  BY <1>3 DEF Check, Enter
<1>4. ASSUME NEW g \in Gateways, RunScript(g) PROVE OrphanIsPaid'
  BY <1>4 DEF RunScript, Committed, Enter, Exit
<1>5. ASSUME NEW g \in Gateways, Record(g) PROVE OrphanIsPaid'
  BY <1>5 DEF Record, Enter
<1>6. ASSUME NEW g \in Gateways, StatementFails(g) PROVE OrphanIsPaid'
  BY <1>6 DEF StatementFails, Mishap, Committed, Enter, Exit
<1>7. ASSUME NEW g \in Gateways, Crash(g) PROVE OrphanIsPaid'
  BY <1>7 DEF Crash, Mishap, Enter, Exit
<1>8. ASSUME OrphanEnds PROVE OrphanIsPaid'
  BY <1>8 DEF OrphanEnds, Committed
<1>9. ASSUME UNCHANGED migrationVars PROVE OrphanIsPaid'
  BY <1>9 DEF migrationVars
<1> QED
  BY <1>1, <1>2, <1>3, <1>4, <1>5, <1>6, <1>7, <1>8, <1>9 DEF MigrationsNext, Migrate

\* Whoever commits a script or records it has all earlier ones recorded.
LEMMA OrderStep == IInv /\ [MigrationsNext]_migrationVars => MigrationsInOrder'
<1> SUFFICES ASSUME IInv, [MigrationsNext]_migrationVars PROVE MigrationsInOrder'
  OBVIOUS
<1> USE MigrationsAssumption DEF IInv, MigrationsTypeOK, LockBooks, MigrationsInOrder, Migration
<1>1. ASSUME NEW g \in Gateways, Start(g) PROVE MigrationsInOrder'
  BY <1>1 DEF Start, Enter
<1>2. ASSUME NEW g \in Gateways, Lock(g) PROVE MigrationsInOrder'
  BY <1>2 DEF Lock, Enter
<1>3. ASSUME NEW g \in Gateways, Check(g) PROVE MigrationsInOrder'
  BY <1>3 DEF Check, Enter
<1>4. ASSUME NEW g \in Gateways, RunScript(g) PROVE MigrationsInOrder'
  BY <1>4 DEF RunScript, Committed, Enter, Exit
<1>5. ASSUME NEW g \in Gateways, Record(g) PROVE MigrationsInOrder'
  BY <1>5 DEF Record, Enter
<1>6. ASSUME NEW g \in Gateways, StatementFails(g) PROVE MigrationsInOrder'
  BY <1>6 DEF StatementFails, Mishap, Committed, Enter, Exit
<1>7. ASSUME NEW g \in Gateways, Crash(g) PROVE MigrationsInOrder'
  BY <1>7 DEF Crash, Mishap, Enter, Exit
<1>8. ASSUME OrphanEnds PROVE MigrationsInOrder'
  BY <1>8 DEF OrphanEnds, Committed
<1>9. ASSUME UNCHANGED migrationVars PROVE MigrationsInOrder'
  BY <1>9 DEF migrationVars
<1> QED
  BY <1>1, <1>2, <1>3, <1>4, <1>5, <1>6, <1>7, <1>8, <1>9 DEF MigrationsNext, Migrate

\* The loop ends behind the last migration of the release, and nothing is undone.
LEMMA ServingStep == IInv /\ [MigrationsNext]_migrationVars => ServingSeesSchema'
<1> SUFFICES ASSUME IInv, [MigrationsNext]_migrationVars PROVE ServingSeesSchema'
  OBVIOUS
<1> USE MigrationsAssumption DEF IInv, MigrationsTypeOK, LockBooks, MigrationsInOrder, ServingSeesSchema, Migration
<1>1. ASSUME NEW g \in Gateways, Start(g) PROVE ServingSeesSchema'
  BY <1>1 DEF Start, Enter
<1>2. ASSUME NEW g \in Gateways, Lock(g) PROVE ServingSeesSchema'
  BY <1>2 DEF Lock, Enter
<1>3. ASSUME NEW g \in Gateways, Check(g) PROVE ServingSeesSchema'
  BY <1>3 DEF Check, Enter
<1>4. ASSUME NEW g \in Gateways, RunScript(g) PROVE ServingSeesSchema'
  BY <1>4 DEF RunScript, Committed, Enter, Exit
<1>5. ASSUME NEW g \in Gateways, Record(g) PROVE ServingSeesSchema'
  BY <1>5 DEF Record, Enter
<1>6. ASSUME NEW g \in Gateways, StatementFails(g) PROVE ServingSeesSchema'
  <2>1. \A h \in Gateways : phase'[h] = "serving" => phase[h] = "serving"
    BY <1>6 DEF StatementFails, Enter, Exit
  <2>2. recorded \subseteq recorded'
    BY <1>6 DEF StatementFails
  <2>3. \A v \in Migration : applied[v] > 0 => applied'[v] > 0
    BY <1>6 DEF StatementFails, Committed
  <2> QED
    BY <2>1, <2>2, <2>3
<1>7. ASSUME NEW g \in Gateways, Crash(g) PROVE ServingSeesSchema'
  BY <1>7 DEF Crash, Mishap, Enter, Exit
<1>8. ASSUME OrphanEnds PROVE ServingSeesSchema'
  BY <1>8 DEF OrphanEnds, Committed
<1>9. ASSUME UNCHANGED migrationVars PROVE ServingSeesSchema'
  BY <1>9 DEF migrationVars
<1> QED
  BY <1>1, <1>2, <1>3, <1>4, <1>5, <1>6, <1>7, <1>8, <1>9 DEF MigrationsNext, Migrate

\* One migration is recorded at a time.
LEMMA FiniteStep == IInv /\ [MigrationsNext]_migrationVars => IsFiniteSet(recorded')
<1> SUFFICES ASSUME IInv, [MigrationsNext]_migrationVars PROVE IsFiniteSet(recorded')
  OBVIOUS
<1>1. recorded' = recorded \/ \E g \in Gateways : recorded' = recorded \cup {at[g]}
  BY DEF MigrationsNext, Migrate, migrationVars, Start, Lock, Check, RunScript, Record,
         StatementFails, Crash, OrphanEnds
<1> QED
  BY <1>1, FS_AddElement DEF IInv

\* The invariant is inductive.
LEMMA IInvStep == IInv /\ [MigrationsNext]_migrationVars => IInv'
  BY TypeStep, LockStep, PaidStep, OrphanStep, OrderStep, ServingStep, FiniteStep DEF IInv

LEMMA IInvAlways == MigrationsSpec => []IInv
<1> QED
  BY InitIInv, IInvStep, PTL DEF MigrationsSpec

-------------------------------------------------------------------------------
\* Types, the books of the lock and of the mishaps, for every deployment: the lock
\* is held by exactly the gateway in the loop, or by the session that a crash left
\* (client.go:177-182).
THEOREM MigrationsInvariant == MigrationsSpec => []MigrationsInv
<1>1. IInv => MigrationsInv
  BY DEF IInv, MigrationsInv
<1> QED
  BY <1>1, IInvAlways, PTL

\* The schema grows in order, wherever gateways die (client.go:191-232).
THEOREM AlwaysInOrder == MigrationsSpec => []MigrationsInOrder
<1>1. IInv => MigrationsInOrder
  BY DEF IInv
<1> QED
  BY <1>1, IInvAlways, PTL

\* A serving gateway has every migration of its release (main.go:52-56).
THEOREM ServingAlwaysSeesSchema == MigrationsSpec => []ServingSeesSchema
<1>1. IInv => ServingSeesSchema
  BY DEF IInv
<1> QED
  BY <1>1, IInvAlways, PTL

-------------------------------------------------------------------------------
\* The refinement.

LEMMA UpgradeInitially == MigrationsInit => Upgrade!UpgradeInit
<1>1. MigrationsInit => Cardinality(recorded) = 0
  BY FS_EmptySet DEF MigrationsInit
<1> QED
  BY <1>1 DEF MigrationsInit, Upgrade!UpgradeInit

\* What is recorded next is new, and the gateway that records it needs it.
LEMMA RecordingAdvances ==
  ASSUME IInv, NEW g \in Gateways, phase[g] = "recording"
  PROVE  /\ Cardinality(recorded) < Release[g]
         /\ Cardinality(recorded \cup {at[g]}) = Cardinality(recorded) + 1
<1> USE MigrationsAssumption DEF IInv
<1>1. holder = g /\ at[g] \in (1..Release[g]) \ recorded
  BY DEF LockBooks
<1>2. Release[g] \in Nat
  OBVIOUS
<1>3. recorded \subseteq 1..(at[g] - 1)
  <2> SUFFICES ASSUME NEW v \in recorded, v \notin 1..(at[g] - 1) PROVE FALSE
    OBVIOUS
  <2>1. v \in Nat \ {0} /\ 1..v \subseteq recorded
    BY DEF MigrationsInOrder, MigrationsTypeOK, Migration
  <2> QED
    BY <1>1, <1>2, <2>1
<1>4. Cardinality(recorded) \in Nat
  BY FS_CardinalityType
<1>5. Cardinality(recorded) <= at[g] - 1
  <2> DEFINE last == at[g] - 1
  <2>1. 1 \in Int /\ last \in Nat
    BY <1>1, <1>2
  <2> HIDE DEF last
  <2>2. IsFiniteSet(1..last) /\ Cardinality(1..last) = last
    BY <2>1, FS_Interval
  <2>3. recorded \subseteq 1..last
    BY <1>3 DEF last
  <2> QED
    BY <2>2, <2>3, FS_Subset DEF last
<1>6. Cardinality(recorded \cup {at[g]}) = Cardinality(recorded) + 1
  BY <1>1, FS_AddElement
<1> QED
  BY <1>1, <1>2, <1>4, <1>5, <1>6

\* Behind the last migration of its release, a gateway finds as many recorded.
LEMMA LoopEndsReady ==
  ASSUME IInv, NEW g \in Gateways, phase[g] = "checking", at[g] > Release[g]
  PROVE  Cardinality(recorded) >= Release[g]
<1> USE MigrationsAssumption DEF IInv
<1>1. Release[g] \in Nat /\ 1..Release[g] \subseteq recorded
  BY DEF LockBooks, MigrationsTypeOK
<1>2. IsFiniteSet(1..Release[g]) /\ Cardinality(1..Release[g]) = Release[g]
  BY <1>1, FS_Interval
<1> QED
  BY <1>1, <1>2, FS_Subset, FS_CardinalityType

\* Every step advances the version by one, adds or takes away one serving
\* gateway, or is none of the upgrade's.
LEMMA UpgradeStep ==
  IInv /\ [MigrationsNext]_migrationVars => [Upgrade!UpgradeNext]_(Upgrade!vars)
<1> DEFINE serving == {g \in Gateways : phase[g] = "serving"}
<1> SUFFICES ASSUME IInv, [MigrationsNext]_migrationVars
             PROVE  [Upgrade!UpgradeNext]_(Upgrade!vars)
  OBVIOUS
<1> USE MigrationsAssumption
<1>0. phase \in [Gateways -> Phases]
  BY DEF IInv, MigrationsTypeOK
<1>a. ASSUME recorded' = recorded, serving' = serving PROVE [Upgrade!UpgradeNext]_(Upgrade!vars)
  BY <1>a DEF Upgrade!vars
<1>b. ASSUME NEW g \in Gateways, phase[g] = "recording", recorded' = recorded \cup {at[g]},
             serving' = serving
      PROVE  [Upgrade!UpgradeNext]_(Upgrade!vars)
  BY <1>b, RecordingAdvances DEF Upgrade!UpgradeNext, Upgrade!Advance
<1>c. ASSUME NEW g \in Gateways, recorded' = recorded, serving' = serving \ {g}
      PROVE  [Upgrade!UpgradeNext]_(Upgrade!vars)
  BY <1>c DEF Upgrade!UpgradeNext, Upgrade!Stop
<1>1. ASSUME NEW g \in Gateways, Start(g) PROVE [Upgrade!UpgradeNext]_(Upgrade!vars)
  BY <1>0, <1>1, <1>a DEF Start, Enter
<1>2. ASSUME NEW g \in Gateways, Lock(g) PROVE [Upgrade!UpgradeNext]_(Upgrade!vars)
  BY <1>0, <1>2, <1>a DEF Lock, Enter
<1>3. ASSUME NEW g \in Gateways, Check(g) PROVE [Upgrade!UpgradeNext]_(Upgrade!vars)
  <2>1. CASE at[g] > Release[g]
    <3>1. recorded' = recorded /\ serving' = serving \cup {g}
      BY <1>0, <1>3, <2>1 DEF Check, Enter
    <3>2. Cardinality(recorded) >= Release[g]
      BY <1>3, <2>1, LoopEndsReady DEF Check
    <3> QED
      BY <3>1, <3>2 DEF Upgrade!UpgradeNext, Upgrade!Serve
  <2>2. CASE ~(at[g] > Release[g])
    BY <1>0, <1>3, <2>2, <1>a DEF Check, Enter
  <2> QED
    BY <2>1, <2>2
<1>4. ASSUME NEW g \in Gateways, RunScript(g) PROVE [Upgrade!UpgradeNext]_(Upgrade!vars)
  BY <1>0, <1>4, <1>a DEF RunScript, Enter, Exit
<1>5. ASSUME NEW g \in Gateways, Record(g) PROVE [Upgrade!UpgradeNext]_(Upgrade!vars)
  BY <1>0, <1>5, <1>b DEF Record, Enter
<1>6. ASSUME NEW g \in Gateways, StatementFails(g) PROVE [Upgrade!UpgradeNext]_(Upgrade!vars)
  <2>1. serving' = serving
    BY <1>0, <1>6 DEF StatementFails, Enter, Exit
  <2> QED
    BY <1>6, <2>1, <1>a, <1>b DEF StatementFails
<1>7. ASSUME NEW g \in Gateways, Crash(g) PROVE [Upgrade!UpgradeNext]_(Upgrade!vars)
  BY <1>0, <1>7, <1>c DEF Crash, Enter, Exit
<1>8. ASSUME OrphanEnds PROVE [Upgrade!UpgradeNext]_(Upgrade!vars)
  BY <1>8, <1>a DEF OrphanEnds
<1>9. ASSUME UNCHANGED migrationVars PROVE [Upgrade!UpgradeNext]_(Upgrade!vars)
  BY <1>9, <1>a DEF migrationVars
<1> QED
  BY <1>1, <1>2, <1>3, <1>4, <1>5, <1>6, <1>7, <1>8, <1>9 DEF MigrationsNext, Migrate

\* The migrations implement the upgrade: a version that goes up by one, and
\* gateways that serve only once it has reached their release (main.go:52-56).
THEOREM MigrationsRefineUpgrade == MigrationsSpec => ImplementsUpgrade
<1> QED
  BY UpgradeInitially, UpgradeStep, IInvAlways, PTL DEF MigrationsSpec, ImplementsUpgrade, Upgrade!UpgradeSpec

===============================================================================
