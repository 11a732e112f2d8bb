SPECIFICATION StartupSpec
CONSTANTS
  g1 = g1
  g2 = g2
  c1 = c1
  c2 = c2
  Gateways = {g1, g2}
  Release <- MCRelease
  Repeatable = {1}
  Nobody = Nobody
  Orphan = Orphan
  MaxMishaps = 1
  Artifacts = {x}
  Contents = {c1, c2}
  Items <- MCItems
  Repeats <- MCRepeats
  Metas = {"none", "p"}
  Documents <- MCDocuments
  MaxTroubles = 1
  Earlier <- MCEarlier
  Imports = {i1}
  NoGateway = NoGateway
  MaxFailures = 1
INVARIANTS
  MigrationsInv
  MigrationsInOrder
  ServingSeesSchema
  IndexInv
  QuietIndexAgrees
  BackfillFillsFitting
  OnlyServingIndexes
PROPERTIES
  ImplementsUpgrade
  ReadyOrStuck
CHECK_DEADLOCK FALSE
