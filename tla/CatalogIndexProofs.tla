-------------------------- MODULE CatalogIndexProofs ---------------------------
(***************************************************************************)
(* Proofs about CatalogIndex, for any documents, imports, gateways and     *)
(* number of failures.                                                     *)
(***************************************************************************)
EXTENDS CatalogIndex, TLAPS

-------------------------------------------------------------------------------
\* Tables and stages.

LEMMA KindsAre ==
  Kinds = {"ControlCatalog", "ThreatCatalog", "RiskCatalog", "GuidanceCatalog",
           "MappingDocument", "Policy"}
BY DEF Kinds, Tables

\* Every kind has one to three tables, and no table twice.
LEMMA TablesOfKind ==
  ASSUME NEW k \in Kinds
  PROVE  /\ Len(Tables[k]) \in 1..3
         /\ \A n \in 1..Len(Tables[k]) : Tables[k][n] \in TableNames
         /\ \A m, n \in 1..Len(Tables[k]) : Tables[k][m] = Tables[k][n] => m = n
<1>1. /\ Len(Tables[k]) \in 1..3
      /\ DOMAIN Tables[k] = 1..Len(Tables[k])
      /\ \A m, n \in 1..Len(Tables[k]) : Tables[k][m] = Tables[k][n] => m = n
  <2>1. CASE k = "ControlCatalog"
    BY <2>1 DEF Tables
  <2>2. CASE k = "ThreatCatalog"
    BY <2>2 DEF Tables
  <2>3. CASE k = "RiskCatalog"
    BY <2>3 DEF Tables
  <2>4. CASE k = "GuidanceCatalog"
    BY <2>4 DEF Tables
  <2>5. CASE k = "MappingDocument"
    BY <2>5 DEF Tables
  <2>6. CASE k = "Policy"
    BY <2>6 DEF Tables
  <2>. QED
    BY <2>1, <2>2, <2>3, <2>4, <2>5, <2>6, KindsAre
<1>2. \A n \in DOMAIN Tables[k] : Tables[k][n] \in TableNames
  BY DEF TableNames
<1>. QED
  BY <1>1, <1>2

LEMMA StagesAre ==
  /\ Len(Stages) = 5 /\ DOMAIN Stages = 1..5
  /\ \A j \in 1..5 : Stages[j] \in Kinds
  /\ \A i, j \in 1..5 : Stages[i] = Stages[j] => i = j
BY KindsAre DEF Stages

-------------------------------------------------------------------------------
\* The rows of a document.

\* One row to a key.
Unique(rows) == \A r, q \in rows : r.key = q.key => r = q

LEMMA RowsOfDocument ==
  ASSUME NEW table \in TableNames, NEW d \in Document, NEW meta \in Metas
  PROVE  LET rows == RowsOf(table, d, meta)
         IN  /\ rows \in SUBSET Row /\ Unique(rows)
             /\ \A r \in rows : r.content = d.content
             /\ Items[d.content][table] # {} => rows # {}
<1>. DEFINE row(k) == [key |-> k, content |-> d.content, requirement |-> d.content, meta |-> meta]
            rows == RowsOf(table, d, meta)
<1>1. d.content \in Contents
  BY DEF Document
<1>2. \A k \in Items[d.content][table] :
        row(k) \in Row /\ row(k).key = k /\ row(k).content = d.content
  BY <1>1 DEF Row
<1>3. rows = {row(k) : k \in Items[d.content][table]}
  BY DEF RowsOf
<1>. HIDE DEF row, rows
<1>4. rows \in SUBSET Row /\ Unique(rows)
  BY <1>2, <1>3 DEF Unique
<1>5. \A r \in rows : r.content = d.content
  BY <1>2, <1>3
<1>6. Items[d.content][table] # {} => rows # {}
  BY <1>3
<1>. QED
  BY <1>4, <1>5, <1>6 DEF rows

\* Whatever the table, the parser gives it such rows.
LEMMA ParserGives ==
  ASSUME NEW k \in Kinds, NEW n \in 1..Len(Tables[k]), NEW d
  PROVE  LET t == Tables[k][n]
         IN  Parse(k, d)[t] \in {RowsOf(t, d, d.meta), RowsOf(t, d, "none")}
<1>1. CASE k = "ControlCatalog"
  <2>1. Parse(k, d) = ParseControlCatalog(d)
    BY <1>1 DEF Parse
  <2>2. n \in 1..3 /\ Tables[k] = <<"controls", "assessment_requirements", "control_threats">>
    BY <1>1 DEF Tables
  <2>. QED
    BY <2>1, <2>2 DEF ParseControlCatalog
<1>2. CASE k = "ThreatCatalog"
  <2>1. Parse(k, d) = ParseThreatCatalog(d)
    BY <1>2 DEF Parse
  <2>2. n = 1 /\ Tables[k] = <<"threats">>
    BY <1>2 DEF Tables
  <2>. QED
    BY <2>1, <2>2 DEF ParseThreatCatalog
<1>3. CASE k = "RiskCatalog"
  <2>1. Parse(k, d) = ParseRiskCatalog(d)
    BY <1>3 DEF Parse
  <2>2. n \in 1..2 /\ Tables[k] = <<"risks", "risk_threats">>
    BY <1>3 DEF Tables
  <2>. QED
    BY <2>1, <2>2 DEF ParseRiskCatalog
<1>4. CASE k = "GuidanceCatalog"
  <2>1. Parse(k, d) = ParseGuidanceCatalog(d)
    BY <1>4 DEF Parse
  <2>2. n = 1 /\ Tables[k] = <<"guidance_entries">>
    BY <1>4 DEF Tables
  <2>. QED
    BY <2>1, <2>2 DEF ParseGuidanceCatalog
<1>5. CASE k = "MappingDocument"
  <2>1. Parse(k, d) = ParseMappingEntries(d)
    BY <1>5 DEF Parse
  <2>2. n = 1 /\ Tables[k] = <<"mapping_entries">>
    BY <1>5 DEF Tables
  <2>. QED
    BY <2>1, <2>2 DEF ParseMappingEntries
<1>6. CASE k = "Policy"
  <2>1. Parse(k, d) = ExtractPolicyCriteria(d)
    BY <1>6 DEF Parse
  <2>2. n \in 1..2 /\ Tables[k] = <<"controls", "assessment_requirements">>
    BY <1>6 DEF Tables
  <2>. QED
    BY <2>1, <2>2 DEF ExtractPolicyCriteria
<1>. QED
  BY <1>1, <1>2, <1>3, <1>4, <1>5, <1>6, KindsAre

\* A batch that is refused for its own sake is of a content that its table does
\* not take.
LEMMA RowsForDocument ==
  ASSUME NEW a \in Artifacts, kind[a] \in Kinds, NEW n \in 1..Last(a), NEW d \in Document
  PROVE  LET rows == RowsFor(a, n, d)
             table == TableOf(a, n)
         IN  /\ rows \in SUBSET Row /\ Unique(rows)
             /\ Takes(table, d.content) => rows # {} /\ ~ (table \in Plain /\ KeyTwice(table, rows))
<1>. DEFINE rows == RowsFor(a, n, d)
            table == TableOf(a, n)
<1>1. rows \in {RowsOf(table, d, d.meta), RowsOf(table, d, "none")}
  BY ParserGives DEF RowsFor, TableOf, Last
<1>2. d.meta \in Metas /\ "none" \in Metas
  BY IndexAssumption DEF Document
<1>3. table \in TableNames
  BY TablesOfKind DEF TableOf, Last
<1>. HIDE DEF rows, table
<1>4. /\ rows \in SUBSET Row /\ Unique(rows) /\ \A r \in rows : r.content = d.content
      /\ Items[d.content][table] # {} => rows # {}
  BY <1>1, <1>2, <1>3, RowsOfDocument
<1>5. Takes(table, d.content) => rows # {} /\ ~ (table \in Plain /\ KeyTwice(table, rows))
  BY <1>4 DEF Takes, KeyTwice
<1>. QED
  BY <1>4, <1>5 DEF rows, table

-------------------------------------------------------------------------------
\* Batches.

\* The table has the rows of the document, mapping entries in the columns that
\* are overwritten.
Shows(table, rows, new) ==
  table \notin Plain =>
    IF table = "mapping_entries"
    THEN \A r \in new : \E o \in rows : o.key = r.key /\ o.content = r.content
    ELSE new \subseteq rows

\* What every batch does: rows of different keys stay so, and no table is emptied.
Sound(old, got) == got \in SUBSET Row /\ Unique(got) /\ (old # {} => got # {})

LEMMA OverlayRows ==
  ASSUME NEW old \in SUBSET Row, NEW new \in SUBSET Row, Unique(old), Unique(new)
  PROVE  Sound(old, Overlay(old, new)) /\ new \subseteq Overlay(old, new)
<1>1. Overlay(old, new) \in SUBSET Row /\ Unique(Overlay(old, new))
  BY DEF Overlay, Unique, Keys
<1>2. new \subseteq Overlay(old, new)
  BY DEF Overlay
<1>3. old # {} => Overlay(old, new) # {}
  BY DEF Overlay, Keys
<1>. QED
  BY <1>1, <1>2, <1>3 DEF Sound

LEMMA AddAllRows ==
  ASSUME NEW table, NEW old \in SUBSET Row, NEW new \in SUBSET Row, Unique(old), Unique(new)
  PROVE  /\ Sound(old, AddAll(table, old, new))
         /\ new # {} /\ ~ KeyTwice(table, new) => AddAll(table, old, new) # {}
<1>1. CASE Clash(old, new) \/ KeyTwice(table, new)
  <2>1. AddAll(table, old, new) = old
    BY <1>1 DEF AddAll
  <2>2. Clash(old, new) => old # {}
    BY DEF Clash, Keys
  <2>. QED
    BY <1>1, <2>1, <2>2 DEF Sound
<1>2. CASE ~ (Clash(old, new) \/ KeyTwice(table, new))
  <2>1. AddAll(table, old, new) = old \cup new
    BY <1>2 DEF AddAll
  <2>2. \A r \in old, q \in new : r.key # q.key
    BY <1>2 DEF Clash, Keys
  <2>. QED
    BY <2>1, <2>2 DEF Unique, Sound
<1>. QED
  BY <1>1, <1>2

LEMMA MappingRows ==
  ASSUME NEW old \in SUBSET Row, NEW new \in SUBSET Row, Unique(old), Unique(new)
  PROVE  LET got == InsertMappingEntries(old, new)
         IN  /\ Sound(old, got)
             /\ \A r \in new : \E o \in got : o.key = r.key /\ o.content = r.content
<1>. DEFINE stay == {r \in new : \E o \in old : o.key = r.key}
            first(r) == CHOOSE o \in old : o.key = r.key
            put(r) == [first(r) EXCEPT !.content = r.content]
            left == {r \in old : r.key \notin Keys(new)}
            added == new \ stay
            got == left \cup added \cup {put(r) : r \in stay}
<1>1. InsertMappingEntries(old, new) = got
  BY DEF InsertMappingEntries
<1>2. \A r \in stay : first(r) \in old /\ first(r).key = r.key
  OBVIOUS
<1>. HIDE DEF first
<1>3. \A r \in stay : put(r) \in Row /\ put(r).key = r.key /\ put(r).content = r.content
  BY <1>2 DEF Row
<1>. HIDE DEF put
<1>4. \A r \in left, q \in new : r.key # q.key
  BY DEF Keys
<1>5. left \in SUBSET Row /\ Unique(left) /\ added \in SUBSET Row /\ Unique(added)
      /\ Unique(stay)
  BY DEF Unique
<1>6. \A r \in old : r \in left \/ \E q \in new : q.key = r.key
  BY DEF Keys
<1>7. \A r \in new : r \in added \/ r \in stay
  OBVIOUS
<1>8. \A r \in added, q \in stay : r.key # q.key
  BY DEF Unique
<1>9. stay \subseteq new /\ added \subseteq new
  OBVIOUS
<1>. HIDE DEF stay, added, left
<1>10. got \in SUBSET Row
  BY <1>3, <1>5
<1>11. Unique(got)
  BY <1>3, <1>4, <1>5, <1>8, <1>9 DEF Unique
<1>12. old # {} => got # {}
  BY <1>6, <1>7
<1>13. \A r \in new : \E o \in got : o.key = r.key /\ o.content = r.content
  BY <1>3, <1>7
<1>. QED
  BY <1>1, <1>10, <1>11, <1>12, <1>13 DEF Sound

LEMMA TableNamesAre ==
  TableNames = {"controls", "assessment_requirements", "control_threats", "threats", "risks",
                "risk_threats", "guidance_entries", "mapping_entries"}
<1>1. \A k \in Kinds : {Tables[k][n] : n \in DOMAIN Tables[k]} =
        CASE k = "ControlCatalog" -> {"controls", "assessment_requirements", "control_threats"}
          [] k = "ThreatCatalog" -> {"threats"}
          [] k = "RiskCatalog" -> {"risks", "risk_threats"}
          [] k = "GuidanceCatalog" -> {"guidance_entries"}
          [] k = "MappingDocument" -> {"mapping_entries"}
          [] k = "Policy" -> {"controls", "assessment_requirements"}
  BY KindsAre DEF Tables
<1>. QED
  BY <1>1, KindsAre DEF TableNames

\* What a batch leaves in the table.
LEMMA BatchRows ==
  ASSUME NEW table \in TableNames,
         NEW old \in SUBSET Row, NEW new \in SUBSET Row, Unique(old), Unique(new)
  PROVE  LET got == Batch(table, old, new)
         IN  /\ Sound(old, got) /\ Shows(table, got, new)
             /\ new # {} /\ ~ (table \in Plain /\ KeyTwice(table, new)) => got # {}
<1>1. CASE table \in {"controls", "assessment_requirements", "guidance_entries"}
  <2>1. Batch(table, old, new) = Overlay(old, new)
    BY <1>1 DEF Batch, InsertControls, InsertAssessmentRequirements, InsertGuidanceEntries
  <2>. QED
    BY <1>1, <2>1, OverlayRows DEF Shows
<1>2. CASE table \in Plain
  <2>1. Batch(table, old, new) = AddAll(table, old, new)
    BY <1>2 DEF Batch, Plain, InsertControlThreats, InsertThreats, InsertRisks, InsertRiskThreats
  <2>. QED
    BY <1>2, <2>1, AddAllRows DEF Shows
<1>3. CASE table = "mapping_entries"
  <2>1. Batch(table, old, new) = InsertMappingEntries(old, new)
    BY <1>3 DEF Batch
  <2>. QED
    BY <1>3, <2>1, MappingRows DEF Shows
<1>. QED
  BY <1>1, <1>2, <1>3, TableNamesAre DEF Plain

-------------------------------------------------------------------------------
\* The parts of the invariant that every other part rests on.

ImportRec == [art : Artifacts, d : Document]
Entry == [art : Artifacts, d : [content : Contents \cup {"none"}, meta : Metas]]
Steps == {"list", "count", "get", "insert"}
Work == [stage : 0..6, step : Steps, todo : SUBSET Entry, now : Entry \cup {<< >>}, batch : 0..3]

LEMMA RecordsAreSomething ==
  /\ \A e \in Entry : e # << >>
  /\ \A e \in ImportRec : e # << >>
<1>1. "art" \notin DOMAIN << >>
  OBVIOUS
<1>2. \A e \in Entry : "art" \in DOMAIN e
  BY DEF Entry
<1>3. \A e \in ImportRec : "art" \in DOMAIN e
  BY DEF ImportRec
<1>. QED
  BY <1>1, <1>2, <1>3

StoreTyped ==
  /\ kind \in [Artifacts -> Kinds]
  /\ stored \in [Artifacts -> Document \cup {Absent}]
  /\ index \in [TableNames -> [Artifacts -> SUBSET Row]]

\* Rows are where they belong.
Filled(a, n) == index[TableOf(a, n)][a] # {}

RowsBelong ==
  \A t \in TableNames, a \in Artifacts :
    /\ index[t][a] # {} => stored[a] # Absent /\ \E n \in 1..Last(a) : TableOf(a, n) = t
    /\ Unique(index[t][a])

\* An import that was not finished is of a stored document, at one of its tables.
ImportsTyped ==
  /\ doc \in [Imports -> ImportRec \cup {<< >>}]
  /\ host \in [Imports -> Gateways \cup {NoGateway}]
  /\ next \in [Imports -> 0..Done]
  /\ \A i \in Imports : doc[i] # << >> =>
       next[i] \in 1..Last(doc[i].art) /\ stored[doc[i].art] # Absent

\* A document in a backfill's hands is stored, and of the kind of the stage.  A
\* mapping is there with its content, and so is every document to be inserted.
InHand(w) == w.todo \cup ({w.now} \ {<< >>})

WorkFits(w) ==
  /\ w \in Work
  /\ w.step # "list" => w.stage \in 1..5
  /\ w.step = "list" => w.todo = {}
  /\ w.step \in {"list", "count"} => w.now = << >>
  /\ w.step \in {"get", "insert"} => w.now # << >> /\ w.batch \in 1..Last(w.now.art)
  /\ w.step = "get" => w.batch = 1
  /\ \A e \in InHand(w) :
       /\ kind[e.art] = Stages[w.stage]
       /\ stored[e.art] # Absent
       /\ kind[e.art] = "MappingDocument" => e.d \in Document
  /\ w.step = "insert" => w.now.d \in Document

WorkTyped ==
  /\ work \in [Gateways -> Work]
  /\ \A g \in Gateways : WorkFits(work[g])

Ghosts ==
  /\ failures \in 0..MaxFailures
  /\ unsettled \subseteq Artifacts /\ torn \subseteq Artifacts
  /\ unfit \subseteq Artifacts \X (1..3)
  /\ due \in [Gateways -> SUBSET Artifacts]

Books == StoreTyped /\ RowsBelong /\ ImportsTyped /\ WorkTyped /\ Ghosts

LEMMA AbsentIsNoDocument == Absent \notin Document
BY IndexAssumption DEF Absent, Document

\* The tables of an artifact.
LEMMA TablesOfArtifact ==
  ASSUME StoreTyped, NEW a \in Artifacts
  PROVE  /\ kind[a] \in Kinds /\ Last(a) \in 1..3
         /\ \A n \in 1..Last(a) : TableOf(a, n) \in TableNames
         /\ \A m, n \in 1..Last(a) : TableOf(a, m) = TableOf(a, n) => m = n
         /\ \A c : Unfit(a, c) \subseteq Artifacts \X (1..3)
<1>1. kind[a] \in Kinds
  BY DEF StoreTyped
<1>2. Last(a) \in 1..3
  BY <1>1, TablesOfKind DEF Last
<1>3. \A n \in 1..Last(a) : n \in 1..3
  BY <1>2
<1>. QED
  BY <1>1, <1>2, <1>3, TablesOfKind DEF Last, TableOf, Unfit

-------------------------------------------------------------------------------
\* What the insert of a batch does to the index.
Inserted(a, n) ==
  /\ index' \in [TableNames -> [Artifacts -> SUBSET Row]]
  /\ \A t \in TableNames, b \in Artifacts :
       t # TableOf(a, n) \/ b # a => index'[t][b] = index[t][b]
  /\ index[TableOf(a, n)][a] # {} => index'[TableOf(a, n)][a] # {}
  /\ Unique(index'[TableOf(a, n)][a])

\* ... and that it shows the rows of d, and some row if the table takes d.
Displayed(a, n, d) ==
  /\ Shows(TableOf(a, n), index'[TableOf(a, n)][a], RowsFor(a, n, d))
  /\ Takes(TableOf(a, n), d.content) => index'[TableOf(a, n)][a] # {}

LEMMA InsertRowsInserts ==
  ASSUME StoreTyped, RowsBelong, NEW a \in Artifacts, NEW n \in 1..Last(a), NEW d \in Document,
         InsertRows(a, n, d)
  PROVE  Inserted(a, n) /\ Displayed(a, n, d)
<1>. DEFINE table == TableOf(a, n)
            new == RowsFor(a, n, d)
            got == Batch(table, index[table][a], new)
<1>1. table \in TableNames /\ kind[a] \in Kinds
  BY TablesOfArtifact
<1>2. /\ new \in SUBSET Row /\ Unique(new)
      /\ Takes(table, d.content) => new # {} /\ ~ (table \in Plain /\ KeyTwice(table, new))
  BY <1>1, RowsForDocument
<1>3. index[table][a] \in SUBSET Row /\ Unique(index[table][a])
  BY <1>1 DEF StoreTyped, RowsBelong
<1>4. index' = [index EXCEPT ![table][a] = got]
  BY DEF InsertRows
<1>. HIDE DEF table, new
<1>5. /\ got \in SUBSET Row /\ Unique(got) /\ (index[table][a] # {} => got # {})
      /\ Shows(table, got, new) /\ (Takes(table, d.content) => got # {})
  BY <1>1, <1>2, <1>3, BatchRows DEF Sound
<1>. HIDE DEF got
<1>6. index \in [TableNames -> [Artifacts -> SUBSET Row]]
  BY DEF StoreTyped
<1>7. /\ index' \in [TableNames -> [Artifacts -> SUBSET Row]]
      /\ index'[table][a] = got
      /\ \A t \in TableNames, b \in Artifacts : t # table \/ b # a => index'[t][b] = index[t][b]
  BY <1>1, <1>4, <1>5, <1>6
<1>. QED
  BY <1>5, <1>7 DEF Inserted, Displayed, table, new

\* An insert for a stored document keeps rows where they belong.
LEMMA InsertedBelongs ==
  ASSUME StoreTyped, RowsBelong, NEW a \in Artifacts, NEW n \in 1..Last(a), Inserted(a, n),
         stored[a] # Absent, UNCHANGED <<kind, stored>>
  PROVE  StoreTyped' /\ RowsBelong'
<1>1. StoreTyped'
  BY DEF StoreTyped, Inserted
<1>2. TableOf(a, n) \in TableNames
  BY TablesOfArtifact
<1>3. ASSUME NEW t \in TableNames, NEW b \in Artifacts
      PROVE  /\ index'[t][b] # {} => stored[b] # Absent /\ \E m \in 1..Last(b) : TableOf(b, m) = t
             /\ Unique(index'[t][b])
  <2>1. CASE t = TableOf(a, n) /\ b = a
    BY <2>1 DEF Inserted
  <2>2. CASE t # TableOf(a, n) \/ b # a
    <3>1. index'[t][b] = index[t][b]
      BY <2>2 DEF Inserted
    <3>. QED
      BY <3>1 DEF RowsBelong
  <2>. QED
    BY <2>1, <2>2
<1>4. \A b \in Artifacts : Last(b)' = Last(b) /\ \A m : TableOf(b, m)' = TableOf(b, m)
  BY DEF Last, TableOf
<1>. QED
  BY <1>1, <1>3, <1>4 DEF RowsBelong

-------------------------------------------------------------------------------
\* The moves of a backfill.

W(s, step, td, e, b) == [stage |-> s, step |-> step, todo |-> td, now |-> e, batch |-> b]
Idle(s) == W(s, "list", {}, << >>, 0)

\* On to the next document, or to the next kind.
PassOn(s, td) == IF td = {} THEN Idle(s + 1) ELSE W(s, "count", td, << >>, 0)

LEMMA FieldsOfW ==
  ASSUME NEW S1, NEW S2, NEW S3, NEW S4, NEW S5,
         NEW w \in [stage : S1, step : S2, todo : S3, now : S4, batch : S5]
  PROVE  w = W(w.stage, w.step, w.todo, w.now, w.batch)
BY DEF W

LEMMA IdleStages == Off = Idle(0) /\ \A s : [Off EXCEPT !.stage = s] = Idle(s)
<1>1. Off = Idle(0)
  BY DEF Off, Idle, W
<1>2. ASSUME NEW s PROVE [Off EXCEPT !.stage = s] = Idle(s)
  <2>. DEFINE v == [Off EXCEPT !.stage = s]
  <2>1. v \in [stage : {s}, step : {"list"}, todo : {{}}, now : {<< >>}, batch : {0}]
    BY DEF Off
  <2>. QED
    BY <2>1, FieldsOfW DEF Idle
<1>. QED
  BY <1>1, <1>2

LEMMA NextDocumentPasses ==
  ASSUME NEW w \in Work
  PROVE  NextDocument(w) = PassOn(w.stage, w.todo)
<1>1. CASE w.todo = {}
  BY <1>1, IdleStages DEF NextDocument, PassOn
<1>2. CASE w.todo # {}
  <2>. DEFINE v == [w EXCEPT !.step = "count", !.now = << >>, !.batch = 0]
  <2>1. NextDocument(w) = v
    BY <1>2 DEF NextDocument
  <2>2. v \in [stage : {w.stage}, step : {"count"}, todo : {w.todo}, now : {<< >>}, batch : {0}]
    BY DEF Work
  <2>3. v = W(w.stage, "count", w.todo, << >>, 0)
    BY <2>2, FieldsOfW
  <2>. QED
    BY <1>2, <2>1, <2>3 DEF PassOn
<1>. QED
  BY <1>1, <1>2

\* What a list of the documents of kind k holds.
Lists(k, docs) ==
  /\ docs \in SUBSET Entry
  /\ \A e \in docs :
       /\ kind[e.art] = k /\ stored[e.art] # Absent /\ e.d.meta = stored[e.art].meta
       /\ e.d.content \in {"none", stored[e.art].content}
       /\ k = "MappingDocument" => e.d = stored[e.art]
  /\ \A a \in Artifacts : kind[a] = k /\ stored[a] # Absent => \E e \in docs : e.art = a

\* The backfill of g gets on; a failure strikes its debts.
Frame(g, failed) ==
  /\ UNCHANGED <<kind, stored, doc, host, next, unsettled, unfit>>
  /\ failures' \in 0..MaxFailures
  /\ torn \subseteq torn' /\ torn' \subseteq Artifacts
  /\ due' = IF failed THEN [due EXCEPT ![g] = {}] ELSE due

MoveList(g) ==
  /\ work[g].step = "list"
  /\ \E docs : Lists(Stages[work[g].stage], docs) /\ Set(g, PassOn(work[g].stage, docs))
  /\ UNCHANGED index

\* A document is passed over: it has rows, or there was a failure.
MovePass(g, failed) ==
  /\ work[g].step # "insert"
  /\ \E td \in SUBSET work[g].todo :
       /\ Set(g, PassOn(work[g].stage, td))
       /\ failed \/ \E e \in work[g].todo :
                      td = work[g].todo \ {e} /\ Filled(e.art, 1) /\ work[g].step = "count"
  /\ UNCHANGED index

MoveTake(g) ==
  /\ work[g].step = "count"
  /\ \E e \in work[g].todo, step \in {"get", "insert"} :
       /\ step = "insert" => kind[e.art] = "MappingDocument"
       /\ Set(g, W(work[g].stage, step, work[g].todo \ {e}, e, 1))
  /\ UNCHANGED index

\* The entry that is at hand, with the content that is stored now.
WithContent(e) == [art |-> e.art, d |-> [content |-> stored[e.art].content, meta |-> e.d.meta]]

MoveGet(g) ==
  /\ work[g].step = "get"
  /\ Set(g, W(work[g].stage, "insert", work[g].todo, WithContent(work[g].now), 1))
  /\ UNCHANGED index

MoveInsert(g, failed) ==
  LET w == work[g]
      a == w.now.art
  IN /\ w.step = "insert"
     /\ \/ Inserted(a, w.batch) /\ Displayed(a, w.batch, w.now.d)
        \/ failed /\ UNCHANGED index
     /\ \/ Set(g, PassOn(w.stage, w.todo))
           /\ \/ failed \/ w.batch = Last(a)
              \/ w.batch = 1 /\ (Filled(a, 1) \/ ~ Takes(TableOf(a, 1), w.now.d.content))
        \/ Set(g, W(w.stage, "insert", w.todo, w.now, w.batch + 1))
           /\ w.batch < Last(a) /\ (failed => w.batch # 1)
     /\ failed => a \in torn'

BackfillMoves(g, failed) ==
  /\ work[g].stage \in 1..5
  /\ Frame(g, failed)
  /\ \/ MoveList(g) \/ MovePass(g, failed) \/ MoveTake(g) \/ MoveGet(g) \/ MoveInsert(g, failed)

LEMMA NothingFails ==
  ASSUME Ghosts, NEW g \in Gateways, UNCHANGED <<kind, stored, doc, host, next, failures, ghosts>>
  PROVE  Frame(g, FALSE)
BY DEF Ghosts, Frame, ghosts

\* Lists.
LEMMA ListedLists ==
  ASSUME StoreTyped, NEW k
  PROVE  /\ k = "MappingDocument" => Lists(k, ListAllMappings)
         /\ k # "MappingDocument" => Lists(k, ListCatalogs(k))
         /\ ListPolicies = ListCatalogs("Policy")
<1>. DEFINE is(a) == [art |-> a, d |-> stored[a]]
            bare(a) == [art |-> a, d |-> [content |-> "none", meta |-> stored[a].meta]]
            those == {a \in Artifacts : kind[a] = k /\ stored[a] # Absent}
<1>1. Listed(k) = {is(a) : a \in those}
  BY DEF Listed
<1>2. \A a \in those : stored[a] \in Document
  BY DEF StoreTyped
<1>3. \A a \in those : is(a) \in Entry /\ is(a).art = a /\ is(a).d = stored[a]
  BY <1>2 DEF Entry, Document
<1>4. \A a \in those : /\ bare(a) \in Entry /\ bare(a).art = a /\ bare(a).d.meta = stored[a].meta
                       /\ bare(a).d.content = "none"
  BY <1>2 DEF Entry, Document
<1>5. \A a \in those : [is(a) EXCEPT !.d.content = "none"] = bare(a)
  <2>1. \A a \in those : stored[a] = [content |-> stored[a].content, meta |-> stored[a].meta]
    BY <1>2 DEF Document
  <2>2. ASSUME NEW a \in those
        PROVE  [stored[a] EXCEPT !.content = "none"] = [content |-> "none", meta |-> stored[a].meta]
    <3>1. [stored[a] EXCEPT !.content = "none"] \in [content : {"none"}, meta : {stored[a].meta}]
      BY <1>2 DEF Document
    <3>. QED
      BY <3>1
  <2>3. \A a \in those :
          [is(a) EXCEPT !.d.content = "none"] = [art |-> a, d |-> [stored[a] EXCEPT !.content = "none"]]
    OBVIOUS
  <2>. QED
    BY <2>2, <2>3
<1>. HIDE DEF is, bare
<1>6. ListCatalogs(k) = {bare(a) : a \in those}
  BY <1>1, <1>5 DEF ListCatalogs
<1>7. k = "MappingDocument" => ListAllMappings = {is(a) : a \in those}
  BY <1>1 DEF ListAllMappings
<1>8. \A a \in those : a \in Artifacts /\ kind[a] = k /\ stored[a] # Absent
  OBVIOUS
<1>9. \A a \in Artifacts : kind[a] = k /\ stored[a] # Absent => a \in those
  OBVIOUS
<1>. HIDE DEF those
<1>10. k = "MappingDocument" => Lists(k, ListAllMappings)
  BY <1>3, <1>7, <1>8, <1>9 DEF Lists
<1>11. k # "MappingDocument" => Lists(k, ListCatalogs(k))
  BY <1>4, <1>6, <1>8, <1>9 DEF Lists
<1>12. ListPolicies = ListCatalogs("Policy")
  BY DEF ListPolicies, ListCatalogs
<1>. QED
  BY <1>10, <1>11, <1>12

\* Every stage runs the same four statements; only mappings come with content.
Statements(g) ==
  LET k == Stages[work[g].stage] IN
  \/ \E docs : Lists(k, docs) /\ ListDocuments(g, docs)
  \/ \E step \in {"get", "insert"} : (step = "insert" => k = "MappingDocument") /\ CountFirst(g, step)
  \/ GetContent(g)
  \/ InsertBatch(g)

LEMMA BackfillStatements ==
  ASSUME StoreTyped, NEW g \in Gateways, Backfill(g)
  PROVE  work[g].stage \in 1..5 /\ Statements(g)
<1>. DEFINE k == Stages[work[g].stage]
<1>1. \A j : Stage(g, j) => work[g].stage \in 1..5 /\ k = j
  BY StagesAre DEF Stage
<1>2. CASE PopulateMappingEntries(g)
  <2>1. k = "MappingDocument" /\ work[g].stage \in 1..5
    BY <1>1, <1>2 DEF PopulateMappingEntries
  <2>2. Lists(k, ListAllMappings)
    BY <2>1, ListedLists
  <2>. QED
    BY <1>2, <2>1, <2>2 DEF PopulateMappingEntries, Statements
<1>3. ASSUME NEW j \in {"ControlCatalog", "ThreatCatalog", "RiskCatalog"}, PopulateCatalogs(g, j)
      PROVE  work[g].stage \in 1..5 /\ Statements(g)
  <2>1. k = j /\ work[g].stage \in 1..5
    BY <1>1, <1>3 DEF PopulateCatalogs
  <2>2. Lists(k, ListCatalogs(j))
    BY <2>1, ListedLists
  <2>. QED
    BY <1>3, <2>1, <2>2 DEF PopulateCatalogs, Statements
<1>4. CASE PopulatePolicyCriteria(g)
  <2>1. k = "Policy" /\ work[g].stage \in 1..5
    BY <1>1, <1>4 DEF PopulatePolicyCriteria
  <2>2. Lists(k, ListPolicies)
    BY <2>1, ListedLists
  <2>. QED
    BY <1>4, <2>1, <2>2 DEF PopulatePolicyCriteria, Statements
<1>. QED
  BY <1>2, <1>3, <1>4 DEF Backfill, PopulateControls, PopulateThreats, PopulateRisks

LEMMA ListMoves ==
  ASSUME Books, NEW g \in Gateways, work[g].stage \in 1..5,
         NEW docs, Lists(Stages[work[g].stage], docs), ListDocuments(g, docs)
  PROVE  MoveList(g)
<1>. DEFINE w == [work[g] EXCEPT !.todo = docs]
<1>1. work[g] \in Work
  BY DEF Books, WorkTyped
<1>2. w \in Work /\ w.stage = work[g].stage /\ w.todo = docs
  BY <1>1 DEF Work, Lists
<1>3. Set(g, NextDocument(w)) /\ work[g].step = "list" /\ UNCHANGED index
  BY DEF ListDocuments
<1>4. NextDocument(w) = PassOn(w.stage, w.todo)
  BY <1>2, NextDocumentPasses
<1>. QED
  BY <1>2, <1>3, <1>4 DEF MoveList

LEMMA CountMoves ==
  ASSUME Books, NEW g \in Gateways, work[g].stage \in 1..5,
         NEW step \in {"get", "insert"}, step = "insert" => Stages[work[g].stage] = "MappingDocument",
         CountFirst(g, step)
  PROVE  MovePass(g, FALSE) \/ MoveTake(g)
<1>1. work[g] \in Work /\ WorkFits(work[g]) /\ work[g].step = "count" /\ UNCHANGED index
  BY DEF Books, WorkTyped, CountFirst
<1>2. PICK e \in work[g].todo :
        LET w == [work[g] EXCEPT !.todo = @ \ {e}] IN
        Set(g, IF CountRows(e.art) > 0 THEN NextDocument(w)
               ELSE [w EXCEPT !.step = step, !.now = e, !.batch = 1])
  BY DEF CountFirst
<1>. DEFINE w == [work[g] EXCEPT !.todo = @ \ {e}]
            v == [w EXCEPT !.step = step, !.now = e, !.batch = 1]
<1>3. w \in Work /\ w.stage = work[g].stage /\ w.todo = work[g].todo \ {e}
  BY <1>1 DEF Work
<1>4. NextDocument(w) = PassOn(w.stage, w.todo)
  BY <1>3, NextDocumentPasses
<1>5. v = W(w.stage, step, w.todo, e, 1)
  <2>1. v \in [stage : {w.stage}, step : {step}, todo : {w.todo}, now : {e}, batch : {1}]
    BY <1>1 DEF Work
  <2>. QED
    BY <2>1, FieldsOfW
<1>6. kind[e.art] = Stages[work[g].stage]
  BY <1>1 DEF WorkFits, InHand
<1>7. CASE CountRows(e.art) > 0
  <2>1. Filled(e.art, 1)
    BY <1>7 DEF CountRows, Filled
  <2>2. Set(g, PassOn(work[g].stage, work[g].todo \ {e}))
    BY <1>2, <1>3, <1>4, <1>7
  <2>. QED
    BY <1>1, <2>1, <2>2 DEF MovePass
<1>8. CASE ~ (CountRows(e.art) > 0)
  <2>1. Set(g, W(work[g].stage, step, work[g].todo \ {e}, e, 1))
    BY <1>2, <1>3, <1>5, <1>8
  <2>. QED
    BY <1>1, <1>6, <2>1 DEF MoveTake
<1>. QED
  BY <1>7, <1>8

LEMMA GetMoves ==
  ASSUME Books, NEW g \in Gateways, GetContent(g)
  PROVE  MoveGet(g)
<1>. DEFINE w == work[g]
            content == stored[w.now.art].content
            v == [w EXCEPT !.step = "insert", !.now.d.content = content]
<1>1. w \in Work /\ WorkFits(w) /\ w.step = "get" /\ UNCHANGED index /\ Set(g, v)
  BY DEF Books, WorkTyped, GetContent, Now
<1>2. w.now \in Entry /\ w.batch = 1
  BY <1>1 DEF WorkFits, Work
<1>3. [w.now.d EXCEPT !.content = content] = [content |-> content, meta |-> w.now.d.meta]
  <2>1. [w.now.d EXCEPT !.content = content] \in [content : {content}, meta : {w.now.d.meta}]
    BY <1>2 DEF Entry
  <2>. QED
    BY <2>1
<1>4. [w.now EXCEPT !.d.content = content] = WithContent(w.now)
  <2>1. [w.now EXCEPT !.d.content = content] = [w.now EXCEPT !.d = [content |-> content, meta |-> w.now.d.meta]]
    BY <1>3
  <2>2. [w.now EXCEPT !.d.content = content] \in
          [art : {w.now.art}, d : {[content |-> content, meta |-> w.now.d.meta]}]
    BY <1>2, <2>1 DEF Entry
  <2>. QED
    BY <2>2 DEF WithContent
<1>5. v = W(w.stage, "insert", w.todo, WithContent(w.now), 1)
  <2>1. v = [w EXCEPT !.step = "insert", !.now = WithContent(w.now)]
    BY <1>4
  <2>2. v \in [stage : {w.stage}, step : {"insert"}, todo : {w.todo}, now : {WithContent(w.now)}, batch : {1}]
    BY <1>1, <1>2, <2>1 DEF Work
  <2>. QED
    BY <2>2, FieldsOfW
<1>. QED
  BY <1>1, <1>5 DEF MoveGet

\* After the batch, failed or refused or not.
LEMMA AfterBatchMoves ==
  ASSUME Books, NEW g \in Gateways, work[g].step = "insert", NEW failed
  PROVE  LET w == work[g]
             a == w.now.art
         IN  \/ /\ AfterBatch(g, failed) = PassOn(w.stage, w.todo)
                /\ w.batch = Last(a) \/ (failed /\ w.batch = 1)
             \/ /\ AfterBatch(g, failed) = W(w.stage, "insert", w.todo, w.now, w.batch + 1)
                /\ w.batch < Last(a) /\ ~ (failed /\ w.batch = 1)
<1>. DEFINE w == work[g]
            v == [w EXCEPT !.batch = @ + 1]
<1>1. w \in Work /\ WorkFits(w)
  BY DEF Books, WorkTyped
<1>2. w.now.art \in Artifacts /\ w.batch \in 1..Last(w.now.art)
  BY <1>1 DEF WorkFits, Work, Entry
<1>3. Last(w.now.art) \in 1..3
  BY <1>2, TablesOfArtifact DEF Books
<1>4. NextDocument(w) = PassOn(w.stage, w.todo)
  BY <1>1, NextDocumentPasses
<1>5. v = W(w.stage, "insert", w.todo, w.now, w.batch + 1)
  <2>1. v \in [stage : {w.stage}, step : {"insert"}, todo : {w.todo}, now : {w.now}, batch : {w.batch + 1}]
    BY <1>1 DEF Work
  <2>. QED
    BY <2>1, FieldsOfW
<1>6. CASE w.batch = Last(w.now.art) \/ (failed /\ w.batch = 1)
  BY <1>4, <1>6 DEF AfterBatch, Now
<1>7. CASE ~ (w.batch = Last(w.now.art) \/ (failed /\ w.batch = 1))
  BY <1>2, <1>3, <1>5, <1>7 DEF AfterBatch, Now
<1>. QED
  BY <1>6, <1>7

\* What is inserted is a document that is stored, at a table of its kind.
LEMMA AtInsert ==
  ASSUME Books, NEW g \in Gateways, work[g].step = "insert"
  PROVE  /\ work[g].now.art \in Artifacts /\ work[g].batch \in 1..Last(work[g].now.art)
         /\ work[g].now.d \in Document /\ stored[work[g].now.art] # Absent
BY DEF Books, WorkTyped, WorkFits, InHand, Work, Entry

LEMMA InsertMoves ==
  ASSUME Books, NEW g \in Gateways, InsertBatch(g)
  PROVE  MoveInsert(g, FALSE)
<1>. DEFINE w == work[g]
            a == w.now.art
            table == TableOf(a, w.batch)
            refused == Refused(table, index[table][a], RowsFor(a, w.batch, w.now.d))
<1>1. w.step = "insert" /\ InsertRows(a, w.batch, w.now.d) /\ Set(g, AfterBatch(g, refused))
  BY DEF InsertBatch, Now
<1>2. Inserted(a, w.batch) /\ Displayed(a, w.batch, w.now.d)
  BY <1>1, AtInsert, InsertRowsInserts DEF Books
<1>3. refused /\ w.batch = 1 => Filled(a, 1) \/ ~ Takes(TableOf(a, 1), w.now.d.content)
  <2>1. a \in Artifacts /\ kind[a] \in Kinds /\ w.batch \in 1..Last(a) /\ w.now.d \in Document
    BY <1>1, AtInsert DEF Books, StoreTyped
  <2>2. Takes(table, w.now.d.content) => ~ (table \in Plain /\ KeyTwice(table, RowsFor(a, w.batch, w.now.d)))
    BY <2>1, RowsForDocument
  <2>3. Clash(index[table][a], RowsFor(a, w.batch, w.now.d)) => index[table][a] # {}
    BY DEF Clash, Keys
  <2>. QED
    BY <2>2, <2>3 DEF Refused, Filled
<1>. HIDE DEF refused
<1>. QED
  BY <1>1, <1>2, <1>3, AfterBatchMoves DEF MoveInsert

LEMMA BackfillIsMove ==
  ASSUME Books, NEW g \in Gateways, Backfill(g)
  PROVE  BackfillMoves(g, FALSE)
<1>1. work[g].stage \in 1..5 /\ Statements(g)
  BY BackfillStatements DEF Books
<1>2. Frame(g, FALSE)
  BY NothingFails DEF Books, Backfill
<1>3. MoveList(g) \/ MovePass(g, FALSE) \/ MoveTake(g) \/ MoveGet(g) \/ MoveInsert(g, FALSE)
  BY <1>1, ListMoves, CountMoves, GetMoves, InsertMoves DEF Statements
<1>. QED
  BY <1>1, <1>2, <1>3 DEF BackfillMoves

\* The ways on after an error.
LEMMA ErrorMoves ==
  ASSUME Books, NEW g \in Gateways, work[g].stage \in 1..5, UNCHANGED index,
         NEW v \in AfterError(work[g]), Set(g, v)
  PROVE  MovePass(g, TRUE) \/ MoveTake(g)
<1>. DEFINE w == work[g]
<1>1. w \in Work /\ WorkFits(w)
  BY DEF Books, WorkTyped
<1>2. CASE w.step = "list"
  <2>1. v = [Off EXCEPT !.stage = w.stage + 1]
    BY <1>2 DEF AfterError
  <2>2. v = PassOn(w.stage, {})
    BY <2>1, IdleStages DEF PassOn
  <2>. QED
    BY <1>2, <2>2 DEF MovePass
<1>3. CASE w.step = "count"
  <2>1. PICK e \in w.todo :
          v = IF Stages[w.stage] = "Policy"
              THEN [w EXCEPT !.step = "get", !.todo = @ \ {e}, !.now = e, !.batch = 1]
              ELSE NextDocument([w EXCEPT !.todo = @ \ {e}])
    BY <1>3 DEF AfterError
  <2>2. CASE Stages[w.stage] = "Policy"
    <3>1. v \in [stage : {w.stage}, step : {"get"}, todo : {w.todo \ {e}}, now : {e}, batch : {1}]
      BY <1>1, <2>1, <2>2 DEF Work
    <3>2. v = W(w.stage, "get", w.todo \ {e}, e, 1)
      BY <3>1, FieldsOfW
    <3>. QED
      BY <1>3, <3>2 DEF MoveTake
  <2>3. CASE Stages[w.stage] # "Policy"
    <3>. DEFINE u == [w EXCEPT !.todo = @ \ {e}]
    <3>1. u \in Work /\ u.stage = w.stage /\ u.todo = w.todo \ {e}
      BY <1>1 DEF Work
    <3>2. v = PassOn(w.stage, w.todo \ {e})
      BY <2>1, <2>3, <3>1, NextDocumentPasses
    <3>. QED
      BY <1>3, <3>2 DEF MovePass
  <2>. QED
    BY <2>2, <2>3
<1>4. CASE w.step = "get"
  <2>1. v = NextDocument(w)
    BY <1>4 DEF AfterError
  <2>2. v = PassOn(w.stage, w.todo)
    BY <1>1, <2>1, NextDocumentPasses
  <2>. QED
    BY <1>4, <2>2 DEF MovePass
<1>5. CASE w.step = "insert"
  BY <1>5 DEF AfterError
<1>. QED
  BY <1>1, <1>2, <1>3, <1>4, <1>5 DEF Work, Steps

LEMMA BackfillFailsIsMove ==
  ASSUME Books, NEW g \in Gateways, BackfillFails(g)
  PROVE  BackfillMoves(g, TRUE)
<1>. USE StagesAre
<1>. DEFINE w == work[g]
            a == w.now.art
<1>1. /\ w.stage \in 1..5 /\ failures' = failures + 1 /\ failures < MaxFailures
      /\ due' = [due EXCEPT ![g] = {}] /\ UNCHANGED <<kind, stored, doc, host, next, unsettled, unfit>>
  BY DEF BackfillFails
<1>2. failures' \in 0..MaxFailures
  BY <1>1, IndexAssumption DEF Books, Ghosts
<1>3. CASE (\E v \in AfterError(w) : Set(g, v)) /\ UNCHANGED <<index, torn>>
  <2>1. Frame(g, TRUE)
    BY <1>1, <1>2, <1>3 DEF Frame, Books, Ghosts
  <2>2. MovePass(g, TRUE) \/ MoveTake(g)
    BY <1>1, <1>3, ErrorMoves
  <2>. QED
    BY <1>1, <2>1, <2>2 DEF BackfillMoves
<1>4. CASE /\ w.step = "insert"
           /\ UNCHANGED index \/ InsertRows(a, w.batch, w.now.d)
           /\ Set(g, AfterBatch(g, TRUE))
           /\ torn' = torn \cup {a}
  <2>1. a \in Artifacts
    BY <1>4, AtInsert
  <2>2. Frame(g, TRUE)
    BY <1>1, <1>2, <1>4, <2>1 DEF Frame, Books, Ghosts
  <2>3. UNCHANGED index \/ (Inserted(a, w.batch) /\ Displayed(a, w.batch, w.now.d))
    BY <1>4, AtInsert, InsertRowsInserts DEF Books
  <2>4. \/ /\ AfterBatch(g, TRUE) = PassOn(w.stage, w.todo)
           /\ w.batch = Last(a) \/ w.batch = 1
        \/ /\ AfterBatch(g, TRUE) = W(w.stage, "insert", w.todo, w.now, w.batch + 1)
           /\ w.batch < Last(a) /\ w.batch # 1
    BY <1>4, AfterBatchMoves
  <2>5. MoveInsert(g, TRUE)
    BY <1>4, <2>3, <2>4 DEF MoveInsert
  <2>. QED
    BY <1>1, <2>2, <2>5 DEF BackfillMoves
<1>. QED
  BY <1>3, <1>4 DEF BackfillFails, Now

-------------------------------------------------------------------------------
\* The books are kept.

\* No artifact changes its kind, and no document is taken out of the store.
Keeps ==
  /\ kind' = kind
  /\ \A a \in Artifacts : stored[a] # Absent => stored'[a] # Absent

LEMMA WorkSet ==
  ASSUME WorkTyped, Keeps, NEW g \in Gateways, NEW v, WorkFits(v), Set(g, v)
  PROVE  WorkTyped'
<1>1. v \in Work
  BY DEF WorkFits
<1>2. work' \in [Gateways -> Work]
  BY <1>1 DEF WorkTyped, Set
<1>3. ASSUME NEW h \in Gateways, NEW w, WorkFits(w), work'[h] = w PROVE WorkFits(work[h])'
  BY <1>3 DEF WorkFits, Work, Entry, InHand, Keeps, Last
<1>4. ASSUME NEW h \in Gateways PROVE WorkFits(work[h])'
  BY <1>3 DEF WorkTyped, Set
<1>. QED
  BY <1>2, <1>4 DEF WorkTyped

LEMMA WorkStays ==
  ASSUME WorkTyped, Keeps, work' = work
  PROVE  WorkTyped'
<1>1. ASSUME NEW h \in Gateways, NEW w, WorkFits(w), work'[h] = w PROVE WorkFits(work[h])'
  BY <1>1 DEF WorkFits, Work, Entry, InHand, Keeps, Last
<1>. QED
  BY <1>1 DEF WorkTyped

\* An entry that the stage may have in hand.
Fits(e, s) ==
  /\ kind[e.art] = Stages[s]
  /\ stored[e.art] # Absent
  /\ kind[e.art] = "MappingDocument" => e.d \in Document

LEMMA PassOnFits ==
  ASSUME NEW s \in 1..5, NEW td \in SUBSET Entry, \A e \in td : Fits(e, s)
  PROVE  WorkFits(PassOn(s, td))
<1>1. CASE td = {}
  <2>. DEFINE v == W(s + 1, "list", {}, << >>, 0)
  <2>1. /\ v.stage = s + 1 /\ v.step = "list" /\ v.todo = {} /\ v.now = << >> /\ v.batch = 0
        /\ v \in Work
    BY DEF W, Work, Steps
  <2>2. PassOn(s, td) = v
    BY <1>1 DEF PassOn, Idle
  <2>. HIDE DEF v
  <2>. QED
    BY <2>1, <2>2 DEF WorkFits, InHand
<1>2. CASE td # {}
  <2>. DEFINE v == W(s, "count", td, << >>, 0)
  <2>1. /\ v.stage = s /\ v.step = "count" /\ v.todo = td /\ v.now = << >> /\ v.batch = 0
        /\ v \in Work
    BY DEF W, Work, Steps
  <2>2. PassOn(s, td) = v
    BY <1>2 DEF PassOn
  <2>. HIDE DEF v
  <2>. QED
    BY <2>1, <2>2 DEF WorkFits, InHand, Fits
<1>. QED
  BY <1>1, <1>2

LEMMA AtHandFits ==
  ASSUME StoreTyped, NEW s \in 1..5, NEW td \in SUBSET Entry, \A e \in td : Fits(e, s),
         NEW e \in Entry, Fits(e, s), NEW step \in {"get", "insert"}, NEW b \in 1..Last(e.art),
         step = "get" => b = 1, step = "insert" => e.d \in Document
  PROVE  WorkFits(W(s, step, td, e, b))
<1>. DEFINE v == W(s, step, td, e, b)
<1>1. e # << >>
  BY RecordsAreSomething
<1>2. Last(e.art) \in 1..3
  BY TablesOfArtifact DEF Entry
<1>3. /\ v.stage = s /\ v.step = step /\ v.todo = td /\ v.now = e /\ v.batch = b
      /\ v \in Work
  BY <1>2 DEF W, Work, Steps
<1>. HIDE DEF v
<1>4. WorkFits(v)
  BY <1>1, <1>3 DEF WorkFits, InHand, Fits
<1>. QED
  BY <1>4 DEF v

\* What is in hand fits.
LEMMA InHandFits ==
  ASSUME NEW w, WorkFits(w)
  PROVE  /\ w.todo \in SUBSET Entry /\ \A e \in w.todo : Fits(e, w.stage)
         /\ w.now # << >> => w.now \in Entry /\ Fits(w.now, w.stage)
BY DEF WorkFits, InHand, Fits, Work

LEMMA MovesFit ==
  ASSUME Books, NEW g \in Gateways, NEW failed, BackfillMoves(g, failed)
  PROVE  \E v : WorkFits(v) /\ Set(g, v)
<1>. DEFINE w == work[g]
<1>1. WorkFits(w) /\ w.stage \in 1..5 /\ StoreTyped /\ w \in Work
  BY DEF Books, WorkTyped, BackfillMoves
<1>2. /\ w.todo \in SUBSET Entry /\ \A e \in w.todo : Fits(e, w.stage)
      /\ w.now # << >> => w.now \in Entry /\ Fits(w.now, w.stage)
  BY <1>1, InHandFits
<1>3. CASE MoveList(g)
  <2>1. PICK docs : Lists(Stages[w.stage], docs) /\ Set(g, PassOn(w.stage, docs))
    BY <1>3 DEF MoveList
  <2>2. docs \in SUBSET Entry
    BY <2>1 DEF Lists
  <2>3. ASSUME NEW e \in docs PROVE Fits(e, w.stage)
    <3>1. kind[e.art] = Stages[w.stage] /\ stored[e.art] # Absent /\ e.art \in Artifacts
      BY <2>1, <2>2 DEF Lists, Entry
    <3>2. kind[e.art] = "MappingDocument" => e.d = stored[e.art]
      BY <2>1, <3>1 DEF Lists
    <3>. QED
      BY <1>1, <3>1, <3>2 DEF Fits, StoreTyped
  <2>4. WorkFits(PassOn(w.stage, docs))
    BY <1>1, <2>2, <2>3, PassOnFits
  <2>. QED
    BY <2>1, <2>4
<1>4. CASE MovePass(g, failed)
  <2>1. PICK td \in SUBSET w.todo : Set(g, PassOn(w.stage, td))
    BY <1>4 DEF MovePass
  <2>2. WorkFits(PassOn(w.stage, td))
    BY <1>1, <1>2, PassOnFits
  <2>. QED
    BY <2>1, <2>2
<1>5. CASE MoveTake(g)
  <2>1. PICK e \in w.todo, step \in {"get", "insert"} :
          /\ step = "insert" => kind[e.art] = "MappingDocument"
          /\ Set(g, W(w.stage, step, w.todo \ {e}, e, 1))
    BY <1>5 DEF MoveTake
  <2>2. e \in Entry /\ Fits(e, w.stage) /\ 1 \in 1..Last(e.art)
    BY <1>1, <1>2, TablesOfArtifact DEF Entry
  <2>3. step = "insert" => e.d \in Document
    BY <2>1, <2>2 DEF Fits
  <2>4. WorkFits(W(w.stage, step, w.todo \ {e}, e, 1))
    BY <1>1, <1>2, <2>2, <2>3, AtHandFits
  <2>. QED
    BY <2>1, <2>4
<1>6. CASE MoveGet(g)
  <2>. DEFINE e == WithContent(w.now)
  <2>1. w.now \in Entry /\ Fits(w.now, w.stage)
    BY <1>1, <1>2, <1>6 DEF MoveGet, WorkFits
  <2>2. w.now.art \in Artifacts /\ stored[w.now.art] \in Document /\ w.now.d.meta \in Metas
    BY <1>1, <2>1 DEF StoreTyped, Fits, Entry
  <2>3. e \in Entry /\ e.art = w.now.art /\ e.d \in Document
    BY <2>2 DEF WithContent, Entry, Document
  <2>4. Fits(e, w.stage) /\ 1 \in 1..Last(e.art)
    BY <1>1, <2>1, <2>2, <2>3, TablesOfArtifact DEF Fits
  <2>. HIDE DEF e
  <2>5. WorkFits(W(w.stage, "insert", w.todo, e, 1))
    BY <1>1, <1>2, <2>3, <2>4, AtHandFits
  <2>. QED
    BY <1>6, <2>5 DEF MoveGet, e
<1>7. CASE MoveInsert(g, failed)
  <2>1. /\ w.now \in Entry /\ Fits(w.now, w.stage) /\ w.now.d \in Document
        /\ w.now.art \in Artifacts /\ w.batch \in 1..Last(w.now.art)
    BY <1>1, <1>2, <1>7 DEF MoveInsert, WorkFits, Entry
  <2>2. CASE Set(g, PassOn(w.stage, w.todo))
    BY <1>1, <1>2, <2>2, PassOnFits
  <2>3. CASE Set(g, W(w.stage, "insert", w.todo, w.now, w.batch + 1)) /\ w.batch < Last(w.now.art)
    <3>1. w.batch + 1 \in 1..Last(w.now.art)
      BY <1>1, <2>1, <2>3, TablesOfArtifact
    <3>2. WorkFits(W(w.stage, "insert", w.todo, w.now, w.batch + 1))
      BY <1>1, <1>2, <2>1, <3>1, AtHandFits
    <3>. QED
      BY <2>3, <3>2
  <2>. QED
    BY <1>7, <2>2, <2>3 DEF MoveInsert
<1>. QED
  BY <1>3, <1>4, <1>5, <1>6, <1>7 DEF BackfillMoves

\* Anything that gateways do with the index, whichever of them serve.
IndexNext ==
  \E g \in Gateways : (work[g] = Off /\ BackfillStart(g)) \/ IndexStep(g) \/ Kill(g)

LEMMA BroughtAreDocuments == \A a \in Artifacts : Brought(a) \subseteq Document
<1>. SUFFICES ASSUME NEW a \in Artifacts PROVE Brought(a) \subseteq Document
  OBVIOUS
<1>1. Documents \subseteq Document /\ "none" \in Metas
  BY IndexAssumption DEF Document
<1>2. \A d \in Document : [d EXCEPT !.meta = "none"] \in Document
  BY <1>1 DEF Document
<1>. QED
  BY <1>1, <1>2 DEF Brought, Admit

\* Whatever the kind, the document is stored first.
Storing(i, g, a) == \E d \in Document : StoreDocument(i, g, a, d)

LEMMA ImportStores ==
  ASSUME NEW g \in Gateways, NEW i \in Imports, Import(i, g)
  PROVE  \E a \in Artifacts : Storing(i, g, a) \/ StoreFails(i, g, a)
BY BroughtAreDocuments DEF Import, StorePolicy, StoreMapping, StoreCatalog, Storing

LEMMA ImportsStay ==
  ASSUME ImportsTyped, Keeps, UNCHANGED <<doc, host, next>>
  PROVE  ImportsTyped'
BY DEF ImportsTyped, Keeps, Last, ImportRec

LEMMA DoneStaysTyped ==
  ASSUME ImportsTyped, Keeps, NEW i \in Imports, ImportDone(i)
  PROVE  ImportsTyped'
<1>1. /\ doc' \in [Imports -> ImportRec \cup {<< >>}]
      /\ host' \in [Imports -> Gateways \cup {NoGateway}]
      /\ next' \in [Imports -> 0..Done]
  BY DEF ImportsTyped, ImportDone, Done
<1>2. ASSUME NEW j \in Imports, doc'[j] # << >>
      PROVE  (next[j] \in 1..Last(doc[j].art) /\ stored[doc[j].art] # Absent)'
  <2>1. doc'[j] = doc[j] /\ next'[j] = next[j] /\ doc[j] \in ImportRec
    BY <1>2 DEF ImportsTyped, ImportDone
  <2>2. next[j] \in 1..Last(doc[j].art) /\ stored[doc[j].art] # Absent
    BY <1>2, <2>1 DEF ImportsTyped
  <2>. QED
    BY <2>1, <2>2 DEF Keeps, Last, ImportRec
<1>. QED
  BY <1>1, <1>2 DEF ImportsTyped

\* An import that gets on is at its next table, or done after its last.
LEMMA OnwardMoves ==
  ASSUME StoreTyped, ImportsTyped, NEW i \in Imports, doc[i] # << >>, Onward(i)
  PROVE  \/ ImportDone(i) /\ next[i] = Last(doc[i].art)
         \/ /\ next' = [next EXCEPT ![i] = next[i] + 1] /\ UNCHANGED <<doc, host>>
            /\ next[i] + 1 \in 1..Last(doc[i].art)
<1>1. doc[i].art \in Artifacts /\ next[i] \in 1..Last(doc[i].art)
  BY DEF ImportsTyped, ImportRec
<1>2. Last(doc[i].art) \in 1..3
  BY <1>1, TablesOfArtifact
<1>. QED
  BY <1>1, <1>2 DEF Onward

LEMMA OnwardStaysTyped ==
  ASSUME StoreTyped, ImportsTyped, Keeps, NEW i \in Imports, doc[i] # << >>, Onward(i)
  PROVE  ImportsTyped'
<1>1. CASE ImportDone(i)
  BY <1>1, DoneStaysTyped
<1>2. CASE /\ next' = [next EXCEPT ![i] = next[i] + 1] /\ UNCHANGED <<doc, host>>
           /\ next[i] + 1 \in 1..Last(doc[i].art)
  <2>1. doc[i].art \in Artifacts /\ Last(doc[i].art) \in 1..3
    BY TablesOfArtifact DEF ImportsTyped, ImportRec
  <2>2. next' \in [Imports -> 0..Done]
    BY <1>2, <2>1 DEF ImportsTyped, Done
  <2>3. ASSUME NEW j \in Imports, doc'[j] # << >>
        PROVE  (next[j] \in 1..Last(doc[j].art) /\ stored[doc[j].art] # Absent)'
    <3>1. doc'[j] = doc[j] /\ doc[j].art \in Artifacts /\ stored[doc[j].art] # Absent
      BY <1>2, <2>3 DEF ImportsTyped, ImportRec
    <3>2. next'[j] \in 1..Last(doc[j].art)
      BY <1>2, <2>3 DEF ImportsTyped
    <3>. QED
      BY <3>1, <3>2 DEF Keeps, Last
  <2>. QED
    BY <1>2, <2>2, <2>3 DEF ImportsTyped
<1>. QED
  BY <1>1, <1>2, OnwardMoves

\* Which import has what.
LEMMA ImportHas ==
  ASSUME ImportsTyped, NEW i \in Imports, doc[i] # << >>
  PROVE  /\ Importing(i)
         /\ doc[i].art \in Artifacts /\ doc[i].d \in Document
         /\ next[i] \in 1..Last(doc[i].art) /\ stored[doc[i].art] # Absent
<1>1. next[i] \in 1..Last(doc[i].art) /\ next[i] \in 0..Done
  BY DEF ImportsTyped
<1>2. next[i] > 0
  BY <1>1 DEF Done
<1>. QED
  BY <1>1, <1>2 DEF ImportsTyped, ImportRec, Importing

LEMMA RowsStay ==
  ASSUME StoreTyped, RowsBelong, Keeps, stored' \in [Artifacts -> Document \cup {Absent}],
         UNCHANGED index
  PROVE  StoreTyped' /\ RowsBelong'
<1>1. \A a \in Artifacts : Last(a)' = Last(a) /\ \A n : TableOf(a, n)' = TableOf(a, n)
  BY DEF Keeps, TableOf, Last
<1>2. StoreTyped'
  BY DEF StoreTyped, Keeps
<1>. QED
  BY <1>1, <1>2 DEF RowsBelong, Keeps, Unique

LEMMA MovesKeepBooks ==
  ASSUME Books, NEW g \in Gateways, NEW failed, BackfillMoves(g, failed)
  PROVE  Books'
<1>1. Keeps /\ UNCHANGED <<kind, stored, doc, host, next, unsettled>>
  BY DEF BackfillMoves, Frame, Keeps
<1>2. StoreTyped' /\ RowsBelong'
  <2>1. CASE UNCHANGED index
    BY <1>1, <2>1, RowsStay DEF Books, StoreTyped
  <2>2. CASE work[g].step = "insert" /\ Inserted(work[g].now.art, work[g].batch)
    BY <1>1, <2>2, AtInsert, InsertedBelongs DEF Books
  <2>. QED
    BY <2>1, <2>2 DEF BackfillMoves, MoveList, MovePass, MoveTake, MoveGet, MoveInsert
<1>3. ImportsTyped'
  BY <1>1, ImportsStay DEF Books
<1>4. WorkTyped'
  BY <1>1, MovesFit, WorkSet DEF Books
<1>5. Ghosts'
  BY DEF Books, Ghosts, BackfillMoves, Frame
<1>. QED
  BY <1>2, <1>3, <1>4, <1>5 DEF Books

LEMMA StoringKeepsBooks ==
  ASSUME Books, NEW g \in Gateways, NEW i \in Imports, NEW a \in Artifacts, Storing(i, g, a)
  PROVE  Books'
<1>1. PICK d \in Document : StoreDocument(i, g, a, d)
  BY DEF Storing
<1>2. /\ stored' = [stored EXCEPT ![a] = d] /\ doc' = [doc EXCEPT ![i] = [art |-> a, d |-> d]]
      /\ host' = [host EXCEPT ![i] = g] /\ next' = [next EXCEPT ![i] = 1]
      /\ UNCHANGED <<kind, index, work, failures, torn, due>>
  BY <1>1 DEF StoreDocument
<1>3. Keeps /\ stored' \in [Artifacts -> Document \cup {Absent}] /\ stored'[a] # Absent
  BY <1>2, AbsentIsNoDocument DEF Keeps, Books, StoreTyped
<1>4. StoreTyped' /\ RowsBelong'
  BY <1>2, <1>3, RowsStay DEF Books
<1>5. WorkTyped'
  BY <1>2, <1>3, WorkStays DEF Books
<1>6. Ghosts'
  <2>1. unfit' = unfit \cup Unfit(a, d.content) /\ Unfit(a, d.content) \subseteq Artifacts \X (1..3)
    BY <1>1, TablesOfArtifact DEF StoreDocument, Books
  <2>. QED
    BY <1>1, <2>1 DEF Books, Ghosts, StoreDocument
<1>7. ImportsTyped'
  <2>. DEFINE e == [art |-> a, d |-> d]
  <2>1. e \in ImportRec /\ e.art = a /\ doc' = [doc EXCEPT ![i] = e]
    BY <1>2 DEF ImportRec
  <2>. HIDE DEF e
  <2>2. /\ doc' \in [Imports -> ImportRec \cup {<< >>}]
        /\ host' \in [Imports -> Gateways \cup {NoGateway}]
        /\ next' \in [Imports -> 0..Done]
    BY <1>2, <2>1 DEF Books, ImportsTyped, Done
  <2>3. Last(a) \in 1..3
    BY TablesOfArtifact DEF Books
  <2>4. ASSUME NEW j \in Imports, doc'[j] # << >>
        PROVE  (next[j] \in 1..Last(doc[j].art) /\ stored[doc[j].art] # Absent)'
    <3>1. CASE j = i
      <4>1. doc'[j].art = a /\ next'[j] = 1
        BY <1>2, <2>1, <3>1 DEF Books, ImportsTyped
      <4>2. Last(doc[j].art)' = Last(a)
        BY <1>3, <4>1 DEF Keeps, Last
      <4>3. 1 \in 1..Last(a)
        BY <2>3
      <4>. QED
        BY <1>3, <4>1, <4>2, <4>3
    <3>2. CASE j # i
      <4>1. doc'[j] = doc[j] /\ next'[j] = next[j]
        BY <1>2, <3>2 DEF Books, ImportsTyped
      <4>2. doc[j].art \in Artifacts /\ next[j] \in 1..Last(doc[j].art) /\ stored[doc[j].art] # Absent
        BY <2>4, <4>1, ImportHas DEF Books
      <4>. QED
        BY <1>3, <4>1, <4>2 DEF Keeps, Last
    <3>. QED
      BY <3>1, <3>2
  <2>. QED
    BY <2>2, <2>4 DEF ImportsTyped
<1>. QED
  BY <1>4, <1>5, <1>6, <1>7 DEF Books

LEMMA StoreFailsKeepsBooks ==
  ASSUME Books, NEW g \in Gateways, NEW i \in Imports, NEW a \in Artifacts, StoreFails(i, g, a)
  PROVE  Books'
<1>1. kind' = kind /\ index' = index /\ work' = work /\ ImportDone(i)
  BY DEF StoreFails
<1>2. stored' = stored \/ \E d \in Document : stored' = [stored EXCEPT ![a] = d]
  BY BroughtAreDocuments DEF StoreFails
<1>3. Keeps /\ stored' \in [Artifacts -> Document \cup {Absent}]
  BY <1>1, <1>2, AbsentIsNoDocument DEF Keeps, Books, StoreTyped
<1>4. Ghosts'
  <2>1. unfit' = unfit \/ \E c : unfit' = unfit \cup Unfit(a, c)
    BY DEF StoreFails
  <2>2. unfit' \subseteq Artifacts \X (1..3)
    BY <2>1, TablesOfArtifact DEF Books, Ghosts
  <2>. QED
    BY <2>2, IndexAssumption DEF Books, Ghosts, StoreFails
<1>. QED
  BY <1>1, <1>3, <1>4, RowsStay, WorkStays, DoneStaysTyped DEF Books

LEMMA IndexingKeepsBooks ==
  ASSUME Books, NEW i \in Imports, IndexTable(i) \/ IndexFails(i)
  PROVE  Books'
<1>1. doc[i] # << >> /\ Keeps /\ UNCHANGED <<kind, stored, work>>
  BY DEF IndexTable, IndexFails, Importing, Keeps
<1>. DEFINE a == doc[i].art
<1>2. a \in Artifacts /\ doc[i].d \in Document /\ next[i] \in 1..Last(a) /\ stored[a] # Absent
  BY <1>1, ImportHas DEF Books
<1>3. StoreTyped' /\ RowsBelong'
  <2>1. CASE UNCHANGED index
    BY <1>1, <2>1, RowsStay DEF Books, StoreTyped
  <2>2. CASE InsertRows(a, next[i], doc[i].d)
    BY <1>1, <1>2, <2>2, InsertRowsInserts, InsertedBelongs DEF Books
  <2>. QED
    BY <2>1, <2>2 DEF IndexTable, IndexFails
<1>4. ImportsTyped'
  BY <1>1, OnwardStaysTyped, DoneStaysTyped DEF Books, IndexTable, IndexFails
<1>5. WorkTyped'
  BY <1>1, WorkStays DEF Books
<1>6. Ghosts'
  BY <1>2, IndexAssumption DEF Books, Ghosts, IndexTable, IndexFails, ghosts
<1>. QED
  BY <1>3, <1>4, <1>5, <1>6 DEF Books

LEMMA StartKeepsBooks ==
  ASSUME Books, NEW g \in Gateways, BackfillStart(g)
  PROVE  Books'
<1>1. /\ Set(g, Idle(1)) /\ due' = [due EXCEPT ![g] = {a \in Artifacts : stored[a] # Absent}]
      /\ UNCHANGED <<kind, stored, index, doc, host, next, failures, unsettled, torn, unfit>>
  BY IdleStages DEF BackfillStart
<1>2. Keeps /\ stored' \in [Artifacts -> Document \cup {Absent}]
  BY <1>1 DEF Keeps, Books, StoreTyped
<1>3. WorkFits(Idle(1))
  <2>. DEFINE v == Idle(1)
  <2>1. /\ v.step = "list" /\ v.todo = {} /\ v.now = << >> /\ v \in Work
    BY DEF Idle, W, Work, Steps
  <2>. HIDE DEF v
  <2>. QED
    BY <2>1 DEF WorkFits, InHand, v
<1>4. WorkTyped'
  BY <1>1, <1>2, <1>3, WorkSet DEF Books
<1>5. Ghosts'
  BY <1>1 DEF Books, Ghosts
<1>. QED
  BY <1>1, <1>2, <1>4, <1>5, RowsStay, ImportsStay DEF Books

LEMMA KillKeepsBooks ==
  ASSUME Books, NEW g \in Gateways, Kill(g)
  PROVE  Books'
<1>1. Set(g, Idle(0)) /\ UNCHANGED <<kind, stored, index, failures, unfit>> /\ due' = [due EXCEPT ![g] = {}]
  BY IdleStages DEF Kill
<1>2. Keeps /\ stored' \in [Artifacts -> Document \cup {Absent}]
  BY <1>1 DEF Keeps, Books, StoreTyped
<1>3. WorkFits(Idle(0))
  <2>. DEFINE v == Idle(0)
  <2>1. /\ v.step = "list" /\ v.todo = {} /\ v.now = << >> /\ v \in Work
    BY DEF Idle, W, Work, Steps
  <2>. HIDE DEF v
  <2>. QED
    BY <2>1 DEF WorkFits, InHand, v
<1>4. WorkTyped'
  BY <1>1, <1>2, <1>3, WorkSet DEF Books
<1>. DEFINE cut == {i \in Imports : Importing(i) /\ host[i] = g}
<1>5. \A i \in cut : doc[i] # << >> /\ doc[i].art \in Artifacts
  BY ImportHas DEF Books, Importing
<1>6. Ghosts'
  <2>. DEFINE half == IF work[g].step = "insert" THEN {Now(g).art} ELSE {}
  <2>1. /\ torn' = torn \cup half \cup {doc[i].art : i \in cut}
        /\ unsettled' = unsettled \cup {doc[i].art : i \in cut}
    BY DEF Kill
  <2>2. half \subseteq Artifacts
    BY AtInsert DEF Now
  <2>. HIDE DEF cut, half
  <2>. QED
    BY <1>1, <1>5, <2>1, <2>2 DEF Books, Ghosts
<1>7. ImportsTyped'
  <2>1. /\ doc' = [i \in Imports |-> IF i \in cut THEN << >> ELSE doc[i]]
        /\ host' = [i \in Imports |-> IF i \in cut THEN NoGateway ELSE host[i]]
        /\ next' = [i \in Imports |-> IF i \in cut THEN Done ELSE next[i]]
    BY DEF Kill
  <2>. HIDE DEF cut
  <2>2. /\ doc' \in [Imports -> ImportRec \cup {<< >>}]
        /\ host' \in [Imports -> Gateways \cup {NoGateway}]
        /\ next' \in [Imports -> 0..Done]
    BY <2>1 DEF Books, ImportsTyped, Done
  <2>3. ASSUME NEW j \in Imports, doc'[j] # << >>
        PROVE  (next[j] \in 1..Last(doc[j].art) /\ stored[doc[j].art] # Absent)'
    <3>1. doc'[j] = doc[j] /\ next'[j] = next[j]
      BY <2>1, <2>3
    <3>2. doc[j].art \in Artifacts /\ next[j] \in 1..Last(doc[j].art) /\ stored[doc[j].art] # Absent
      BY <2>3, <3>1, ImportHas DEF Books
    <3>. QED
      BY <1>2, <3>1, <3>2 DEF Keeps, Last
  <2>. QED
    BY <2>2, <2>3 DEF ImportsTyped
<1>. QED
  BY <1>1, <1>2, <1>4, <1>6, <1>7, RowsStay DEF Books

\* Every step is one of these.
LEMMA IndexCases ==
  ASSUME Books, IndexNext
  PROVE  \/ \E g \in Gateways : work[g] = Off /\ BackfillStart(g)
         \/ \E g \in Gateways : Kill(g)
         \/ \E g \in Gateways, failed \in BOOLEAN : BackfillMoves(g, failed)
         \/ \E g \in Gateways, i \in Imports, a \in Artifacts : Storing(i, g, a)
         \/ \E g \in Gateways, i \in Imports, a \in Artifacts : StoreFails(i, g, a)
         \/ \E i \in Imports : IndexTable(i) \/ IndexFails(i)
<1>1. PICK g \in Gateways : (work[g] = Off /\ BackfillStart(g)) \/ IndexStep(g) \/ Kill(g)
  BY DEF IndexNext
<1>2. Backfill(g) \/ BackfillFails(g) => \E failed \in BOOLEAN : BackfillMoves(g, failed)
  BY BackfillIsMove, BackfillFailsIsMove
<1>. QED
  BY <1>1, <1>2, ImportStores DEF IndexStep

LEMMA BooksStutter ==
  ASSUME Books, UNCHANGED indexVars
  PROVE  Books'
<1>1. Keeps
  BY DEF Keeps, indexVars
<1>. QED
  BY <1>1, RowsStay, ImportsStay, WorkStays DEF Books, StoreTyped, Ghosts, indexVars

LEMMA BooksStep == Books /\ [IndexNext]_indexVars => Books'
BY IndexCases, StartKeepsBooks, KillKeepsBooks, MovesKeepBooks, StoringKeepsBooks,
   StoreFailsKeepsBooks, IndexingKeepsBooks, BooksStutter

LEMMA BooksInit == IndexInit => Books
<1>. SUFFICES ASSUME IndexInit PROVE Books
  OBVIOUS
<1>. USE IndexAssumption DEF IndexInit
<1>1. StoreTyped
  <2>1. Earlier \subseteq Document
    BY DEF Document
  <2>. QED
    BY <2>1 DEF StoreTyped
<1>2. RowsBelong
  BY DEF RowsBelong, Unique
<1>3. ImportsTyped
  BY DEF ImportsTyped, Done
<1>4. WorkTyped
  <2>1. WorkFits(Idle(0)) /\ Idle(0) \in Work
    <3>. DEFINE v == Idle(0)
    <3>1. /\ v.step = "list" /\ v.todo = {} /\ v.now = << >> /\ v \in Work
      BY DEF Idle, W, Work, Steps
    <3>. HIDE DEF v
    <3>. QED
      BY <3>1 DEF WorkFits, InHand, v
  <2>2. work = [g \in Gateways |-> Idle(0)]
    BY IdleStages
  <2>. QED
    BY <2>1, <2>2 DEF WorkTyped
<1>5. Ghosts
  <2>1. \A a \in Artifacts : Unfit(a, stored[a].content) \subseteq Artifacts \X (1..3)
    BY <1>1, TablesOfArtifact
  <2>. QED
    BY <2>1 DEF Ghosts
<1>. QED
  BY <1>1, <1>2, <1>3, <1>4, <1>5 DEF Books

\* What the books say is what the run checks.
LEMMA BooksGiveInv == Books => IndexInv
<1>. SUFFICES ASSUME Books PROVE IndexInv
  OBVIOUS
<1>1. IndexTypeOK
  <2>1. \A g \in Gateways : work[g].stage \in 0..(Len(Stages) + 1)
    <3>1. Len(Stages) + 1 = 6
      BY StagesAre
    <3>2. \A g \in Gateways : work[g].stage \in 0..6
      BY DEF Books, WorkTyped, Work
    <3>. QED
      BY <3>1, <3>2
  <2>2. doc \in [Imports -> [art : Artifacts, d : Document] \cup {<< >>}]
    BY DEF Books, ImportsTyped, ImportRec
  <2>3. Done - 1 = 3
    BY DEF Done
  <2>. QED
    BY <2>1, <2>2, <2>3 DEF IndexTypeOK, Books, StoreTyped, ImportsTyped, Ghosts
<1>2. ASSUME NEW g \in Gateways, work[g].step = "insert"
      PROVE  /\ Now(g).d \in Document /\ stored[Now(g).art] # Absent
             /\ kind[Now(g).art] = Stages[work[g].stage]
  BY <1>2 DEF Now, Books, WorkTyped, WorkFits, InHand
<1>. QED
  BY <1>1, <1>2 DEF IndexInv, Books, RowsBelong, Unique

-------------------------------------------------------------------------------
\* What holds of a document whose last import was not disturbed: at most one
\* import is at it, with what is stored, the tables that it is past agree, and
\* so does what backfills have in hand.

Of(i, a) == doc[i] # << >> /\ doc[i].art = a
Past(a, n) == \A i \in Imports : Of(i, a) => n < next[i]
Agrees(a, n) == Shows(TableOf(a, n), index[TableOf(a, n)][a], RowsFor(a, n, stored[a]))

QuietImports(a) ==
  /\ stored[a] # Absent
  /\ \A i \in Imports : Of(i, a) => doc[i].d = stored[a]
  /\ \A i, j \in Imports : Of(i, a) /\ Of(j, a) => i = j

QuietTables(a) == \A n \in 1..Last(a) : Past(a, n) => Agrees(a, n)

Faithful(w, a) ==
  /\ \A e \in InHand(w) : e.art = a =>
       /\ e.d.meta = stored[a].meta
       /\ kind[a] = "MappingDocument" => e.d = stored[a]
  /\ w.step = "insert" /\ w.now.art = a => w.now.d = stored[a]

QuietWork(a) == \A g \in Gateways : Faithful(work[g], a)

Quiet(a) == QuietImports(a) /\ QuietTables(a) /\ QuietWork(a)

QuietInv == \A a \in Artifacts \ unsettled : Quiet(a)

\* An insert for a document leaves its other tables alone, and all of the others.
LEMMA InsertedElsewhere ==
  ASSUME StoreTyped, NEW b \in Artifacts, NEW m \in 1..Last(b), Inserted(b, m),
         NEW a \in Artifacts, NEW n \in 1..Last(a), a # b \/ n # m
  PROVE  index'[TableOf(a, n)][a] = index[TableOf(a, n)][a]
<1>1. TableOf(a, n) \in TableNames
  BY TablesOfArtifact
<1>2. a # b \/ TableOf(a, n) # TableOf(b, m)
  BY TablesOfArtifact
<1>. QED
  BY <1>1, <1>2 DEF Inserted

LEMMA AgreesStill ==
  ASSUME kind' = kind, NEW a \in Artifacts, stored'[a] = stored[a], NEW n,
         index'[TableOf(a, n)][a] = index[TableOf(a, n)][a], Agrees(a, n)
  PROVE  Agrees(a, n)'
<1>1. TableOf(a, n)' = TableOf(a, n)
  BY DEF TableOf
<1>2. RowsFor(a, n, stored[a])' = RowsFor(a, n, stored[a])
  BY <1>1 DEF RowsFor
<1>. QED
  BY <1>1, <1>2 DEF Agrees

\* The imports of a are where they were.
SameImports(a) ==
  \A i \in Imports : (Of(i, a)' <=> Of(i, a)) /\ (Of(i, a) => doc'[i] = doc[i] /\ next'[i] = next[i])

LEMMA SameImportsQuiet ==
  ASSUME kind' = kind, NEW a \in Artifacts, stored'[a] = stored[a], UNCHANGED index,
         SameImports(a), QuietImports(a), QuietTables(a)
  PROVE  QuietImports(a)' /\ QuietTables(a)'
<1>1. QuietImports(a)'
  BY DEF QuietImports, SameImports
<1>2. \A n : Past(a, n)' => Past(a, n)
  BY DEF Past, SameImports
<1>3. Last(a)' = Last(a)
  BY DEF Last
<1>. QED
  BY <1>1, <1>2, <1>3, AgreesStill DEF QuietTables

\* The rows of what is stored get into the next table.
LEMMA InsertQuiet ==
  ASSUME Books, kind' = kind, stored' = stored,
         NEW b \in Artifacts, NEW m \in 1..Last(b), NEW d, Inserted(b, m), Displayed(b, m, d),
         NEW a \in Artifacts, a = b => d = stored[a],
         QuietImports(a), QuietTables(a), QuietImports(a)',
         \A n \in 1..Last(a) : Past(a, n)' => Past(a, n) \/ (a = b /\ n = m)
  PROVE  QuietTables(a)'
<1>1. Last(a)' = Last(a)
  BY DEF Last
<1>2. ASSUME NEW n \in 1..Last(a), Past(a, n)' PROVE Agrees(a, n)'
  <2>1. CASE a = b /\ n = m
    <3>1. TableOf(a, n)' = TableOf(a, n)
      BY DEF TableOf
    <3>2. RowsFor(a, n, stored[a])' = RowsFor(a, n, stored[a])
      BY <3>1 DEF RowsFor
    <3>. QED
      BY <2>1, <3>1, <3>2 DEF Agrees, Displayed
  <2>2. CASE ~ (a = b /\ n = m)
    <3>1. Agrees(a, n)
      BY <1>2, <2>2 DEF QuietTables
    <3>2. index'[TableOf(a, n)][a] = index[TableOf(a, n)][a]
      BY <2>2, InsertedElsewhere DEF Books
    <3>. QED
      BY <3>1, <3>2, AgreesStill
  <2>. QED
    BY <2>1, <2>2
<1>. QED
  BY <1>1, <1>2 DEF QuietTables

LEMMA WorkQuiet ==
  ASSUME kind' = kind, NEW a \in Artifacts, stored'[a] = stored[a], QuietWork(a),
         work' = work \/ (WorkTyped /\ \E g \in Gateways : \E v : Set(g, v) /\ Faithful(v, a))
  PROVE  QuietWork(a)'
<1>1. ASSUME NEW h \in Gateways, NEW w, Faithful(w, a), work'[h] = w PROVE Faithful(work[h], a)'
  BY <1>1 DEF Faithful, InHand
<1>. QED
  BY <1>1 DEF QuietWork, WorkTyped, Set

LEMMA IdleFaithful == \A s, a : Faithful(Idle(s), a)
BY DEF Faithful, InHand, Idle, W

\* Whatever a backfill does next, what it has in hand is faithful to what is stored.
LEMMA MovesFaithful ==
  ASSUME Books, NEW g \in Gateways, NEW failed, BackfillMoves(g, failed),
         NEW a \in Artifacts, QuietWork(a)
  PROVE  \E v : Set(g, v) /\ Faithful(v, a)
<1>. DEFINE w == work[g]
            Like(e) == e.art = a => /\ e.d.meta = stored[a].meta
                                    /\ kind[a] = "MappingDocument" => e.d = stored[a]
<1>1. w \in Work /\ WorkFits(w) /\ w.stage \in 1..5
  BY DEF Books, WorkTyped, BackfillMoves
<1>2. /\ \A e \in w.todo : Like(e)
      /\ w.now # << >> => Like(w.now)
      /\ w.step = "insert" /\ w.now.art = a => w.now.d = stored[a]
  BY <1>1 DEF QuietWork, Faithful, InHand
<1>. HIDE DEF w
<1>3. ASSUME NEW td, \A e \in td : Like(e) PROVE Faithful(PassOn(w.stage, td), a)
  <2>1. CASE td = {}
    BY <2>1, IdleFaithful DEF PassOn
  <2>2. CASE td # {}
    <3>. DEFINE v == W(w.stage, "count", td, << >>, 0)
    <3>1. v.step = "count" /\ v.todo = td /\ v.now = << >> /\ v = PassOn(w.stage, td)
      BY <2>2 DEF W, PassOn
    <3>. QED
      BY <1>3, <3>1 DEF Faithful, InHand
  <2>. QED
    BY <2>1, <2>2
<1>4. ASSUME NEW s, NEW step, NEW td, \A e \in td : Like(e), NEW e, Like(e), NEW n,
             step = "insert" /\ e.art = a => e.d = stored[a]
      PROVE  Faithful(W(s, step, td, e, n), a)
  <2>. DEFINE v == W(s, step, td, e, n)
  <2>1. v.step = step /\ v.todo = td /\ v.now = e
    BY DEF W
  <2>. HIDE DEF v
  <2>2. Faithful(v, a)
    BY <1>4, <2>1 DEF Faithful, InHand
  <2>. QED
    BY <2>2 DEF v
<1>5. CASE MoveList(g)
  <2>1. PICK docs : Lists(Stages[w.stage], docs) /\ Set(g, PassOn(w.stage, docs))
    BY <1>5 DEF MoveList, w
  <2>2. \A e \in docs : Like(e)
    BY <2>1 DEF Lists
  <2>3. Faithful(PassOn(w.stage, docs), a)
    BY <1>3, <2>2
  <2>. QED
    BY <2>1, <2>3
<1>6. CASE MovePass(g, failed)
  <2>1. PICK td \in SUBSET w.todo : Set(g, PassOn(w.stage, td))
    BY <1>6 DEF MovePass, w
  <2>2. \A e \in td : Like(e)
    BY <1>2
  <2>3. Faithful(PassOn(w.stage, td), a)
    BY <1>3, <2>2
  <2>. QED
    BY <2>1, <2>3
<1>7. CASE MoveTake(g)
  <2>1. PICK e \in w.todo, step \in {"get", "insert"} :
          /\ step = "insert" => kind[e.art] = "MappingDocument"
          /\ Set(g, W(w.stage, step, w.todo \ {e}, e, 1))
    BY <1>7 DEF MoveTake, w
  <2>2. Like(e) /\ \A c \in w.todo \ {e} : Like(c)
    BY <1>2
  <2>3. step = "insert" /\ e.art = a => e.d = stored[a]
    BY <2>1, <2>2
  <2>4. Faithful(W(w.stage, step, w.todo \ {e}, e, 1), a)
    BY <1>4, <2>2, <2>3
  <2>. QED
    BY <2>1, <2>4
<1>8. CASE MoveGet(g)
  <2>. DEFINE e == WithContent(w.now)
  <2>1. w.now # << >> /\ w.now \in Entry /\ Fits(w.now, w.stage)
    BY <1>1, <1>8, InHandFits DEF MoveGet, WorkFits, w
  <2>2. e.art = w.now.art /\ e.d = [content |-> stored[w.now.art].content, meta |-> w.now.d.meta]
    BY DEF WithContent
  <2>3. e.art = a => e.d = stored[a] /\ e.d.meta = stored[a].meta
    <3>1. w.now.art \in Artifacts /\ stored[w.now.art] \in Document
      BY <2>1 DEF Fits, Books, StoreTyped, Entry
    <3>2. w.now.art = a => w.now.d.meta = stored[a].meta
      BY <1>2, <2>1
    <3>3. \A d \in Document : d = [content |-> d.content, meta |-> d.meta]
      BY DEF Document
    <3>. HIDE DEF e
    <3>. QED
      BY <2>2, <3>1, <3>2, <3>3
  <2>. HIDE DEF e
  <2>4. Faithful(W(w.stage, "insert", w.todo, e, 1), a)
    BY <1>2, <1>4, <2>3
  <2>. QED
    BY <1>8, <2>4 DEF MoveGet, e, w
<1>9. CASE MoveInsert(g, failed)
  <2>1. w.step = "insert" /\ w.now # << >>
    BY <1>1, <1>9 DEF MoveInsert, WorkFits, w
  <2>2. CASE Set(g, PassOn(w.stage, w.todo))
    BY <1>2, <1>3, <2>2
  <2>3. CASE Set(g, W(w.stage, "insert", w.todo, w.now, w.batch + 1))
    <3>1. Faithful(W(w.stage, "insert", w.todo, w.now, w.batch + 1), a)
      BY <1>2, <1>4, <2>1
    <3>. QED
      BY <2>3, <3>1
  <2>. QED
    BY <1>9, <2>2, <2>3 DEF MoveInsert, w
<1>. QED
  BY <1>5, <1>6, <1>7, <1>8, <1>9 DEF BackfillMoves

LEMMA MovesKeepQuiet ==
  ASSUME Books, QuietInv, NEW g \in Gateways, NEW failed, BackfillMoves(g, failed)
  PROVE  QuietInv'
<1>1. UNCHANGED <<kind, stored, doc, next, unsettled>>
  BY DEF BackfillMoves, Frame
<1>2. ASSUME NEW a \in Artifacts \ unsettled PROVE Quiet(a)'
  <2>1. QuietImports(a) /\ QuietTables(a) /\ QuietWork(a)
    BY DEF QuietInv, Quiet
  <2>2. QuietWork(a)'
    BY <1>1, <2>1, MovesFaithful, WorkQuiet DEF Books
  <2>3. SameImports(a)
    BY <1>1 DEF SameImports, Of
  <2>4. CASE UNCHANGED index
    BY <1>1, <2>1, <2>2, <2>3, <2>4, SameImportsQuiet DEF Quiet
  <2>5. CASE MoveInsert(g, failed) /\ ~ UNCHANGED index
    <3>. DEFINE w == work[g]
                b == w.now.art
    <3>1. w.step = "insert" /\ Inserted(b, w.batch) /\ Displayed(b, w.batch, w.now.d)
      BY <2>5 DEF MoveInsert
    <3>2. b \in Artifacts /\ w.batch \in 1..Last(b)
      BY <3>1, AtInsert
    <3>3. a = b => w.now.d = stored[a]
      BY <2>1, <3>1 DEF QuietWork, Faithful
    <3>4. QuietImports(a)' /\ \A n : Past(a, n)' => Past(a, n)
      BY <2>1, <2>3, <1>1 DEF QuietImports, Past, SameImports
    <3>. HIDE DEF w
    <3>5. QuietTables(a)'
      BY <1>1, <2>1, <3>1, <3>2, <3>3, <3>4, InsertQuiet
    <3>. QED
      BY <2>2, <3>4, <3>5 DEF Quiet
  <2>. QED
    BY <2>4, <2>5 DEF BackfillMoves, MoveList, MovePass, MoveTake, MoveGet
<1>. QED
  BY <1>1, <1>2 DEF QuietInv

\* Nobody is at an artifact that is not busy.
LEMMA NotBusy ==
  ASSUME Books, NEW a \in Artifacts, ~ Busy(a), UNCHANGED <<work, kind>>
  PROVE  QuietWork(a)' /\ \A i \in Imports : ~ Of(i, a)
<1>1. \A i \in Imports : ~ Of(i, a)
  BY ImportHas DEF Books, Busy, Of
<1>2. ASSUME NEW g \in Gateways PROVE \A e \in InHand(work[g]) : e.art # a
  <2>1. work[g].todo \in SUBSET Entry
    BY DEF Books, WorkTyped, Work
  <2>2. \A e \in work[g].todo \cup {work[g].now} : e # << >> => e.art # a
    BY DEF Busy, Backfilling
  <2>. QED
    BY <2>1, <2>2, RecordsAreSomething DEF InHand
<1>3. \A g \in Gateways : work[g].step = "insert" => work[g].now \in InHand(work[g])
  BY DEF Books, WorkTyped, WorkFits, InHand
<1>4. QuietWork(a)'
  BY <1>2, <1>3 DEF QuietWork, Faithful, InHand
<1>. QED
  BY <1>1, <1>4

LEMMA StoringKeepsQuiet ==
  ASSUME Books, QuietInv, NEW g \in Gateways, NEW i \in Imports, NEW b \in Artifacts, Storing(i, g, b)
  PROVE  QuietInv'
<1>1. PICK d \in Document : StoreDocument(i, g, b, d)
  BY DEF Storing
<1>. DEFINE e == [art |-> b, d |-> d]
<1>2. /\ next[i] = 0
      /\ stored' = [stored EXCEPT ![b] = d] /\ doc' = [doc EXCEPT ![i] = e]
      /\ next' = [next EXCEPT ![i] = 1] /\ UNCHANGED <<kind, index, work>>
      /\ unsettled' = IF Busy(b) THEN unsettled \cup {b} ELSE unsettled \ {b}
  BY <1>1 DEF StoreDocument
<1>3. doc[i] = << >>
  BY <1>2, ImportHas DEF Books
<1>4. e # << >> /\ e.art = b /\ e.d = d
  BY RecordsAreSomething DEF ImportRec
<1>. HIDE DEF e
<1>5. /\ doc'[i] = e /\ next'[i] = 1 /\ stored'[b] = d
      /\ \A j \in Imports \ {i} : doc'[j] = doc[j] /\ next'[j] = next[j]
      /\ \A a \in Artifacts \ {b} : stored'[a] = stored[a]
  BY <1>2 DEF Books, StoreTyped, ImportsTyped
<1>6. ASSUME NEW a \in Artifacts \ unsettled', a # b PROVE Quiet(a)'
  <2>1. QuietImports(a) /\ QuietTables(a) /\ QuietWork(a)
    BY <1>2, <1>6 DEF QuietInv, Quiet
  <2>2. SameImports(a)
    BY <1>3, <1>4, <1>5, <1>6 DEF SameImports, Of
  <2>3. stored'[a] = stored[a]
    BY <1>5, <1>6
  <2>. QED
    BY <1>2, <2>1, <2>2, <2>3, SameImportsQuiet, WorkQuiet DEF Quiet
<1>7. ASSUME b \notin unsettled' PROVE Quiet(b)'
  <2>1. ~ Busy(b)
    BY <1>2, <1>7
  <2>2. QuietWork(b)' /\ \A j \in Imports : ~ Of(j, b)
    BY <1>2, <2>1, NotBusy
  <2>3. \A j \in Imports : Of(j, b)' <=> j = i
    BY <1>4, <1>5, <2>2 DEF Of
  <2>4. QuietImports(b)'
    BY <1>4, <1>5, <2>3, AbsentIsNoDocument DEF QuietImports
  <2>5. \A n \in 1..Last(b)' : ~ Past(b, n)'
    BY <1>5, <2>3 DEF Past
  <2>. QED
    BY <2>2, <2>4, <2>5 DEF Quiet, QuietTables
<1>. QED
  BY <1>6, <1>7 DEF QuietInv

LEMMA StoreFailsKeepsQuiet ==
  ASSUME Books, QuietInv, NEW g \in Gateways, NEW i \in Imports, NEW b \in Artifacts,
         StoreFails(i, g, b)
  PROVE  QuietInv'
<1>1. /\ next[i] = 0 /\ doc' = [doc EXCEPT ![i] = << >>] /\ next' = [next EXCEPT ![i] = Done]
      /\ UNCHANGED <<kind, index, work>>
  BY DEF StoreFails, ImportDone
<1>2. doc[i] = << >>
  BY <1>1, ImportHas DEF Books
<1>3. unsettled \subseteq unsettled' /\ \A a \in Artifacts \ unsettled' : stored'[a] = stored[a]
  BY DEF StoreFails, Books, StoreTyped
<1>4. ASSUME NEW a \in Artifacts \ unsettled' PROVE Quiet(a)'
  <2>1. QuietImports(a) /\ QuietTables(a) /\ QuietWork(a) /\ stored'[a] = stored[a]
    BY <1>3, <1>4 DEF QuietInv, Quiet
  <2>2. SameImports(a)
    BY <1>1, <1>2 DEF SameImports, Of, Books, ImportsTyped
  <2>. QED
    BY <1>1, <2>1, <2>2, SameImportsQuiet, WorkQuiet DEF Quiet
<1>. QED
  BY <1>4 DEF QuietInv

LEMMA IndexingKeepsQuiet ==
  ASSUME Books, QuietInv, NEW i \in Imports, IndexTable(i) \/ IndexFails(i)
  PROVE  QuietInv'
<1>. DEFINE b == doc[i].art
            m == next[i]
<1>1. /\ doc[i] # << >> /\ b \in Artifacts /\ doc[i].d \in Document /\ m \in 1..Last(b)
  BY ImportHas DEF Books, IndexTable, IndexFails, Importing
<1>2. UNCHANGED <<kind, stored, work>> /\ unsettled \subseteq unsettled'
  BY DEF IndexTable, IndexFails, ghosts
<1>3. \/ doc' = [doc EXCEPT ![i] = << >>] /\ next' = [next EXCEPT ![i] = Done]
         /\ (m = Last(b) \/ b \in unsettled')
      \/ UNCHANGED doc /\ next' = [next EXCEPT ![i] = m + 1]
  BY <1>1, OnwardMoves DEF IndexTable, IndexFails, ImportDone, Books
<1>4. \A j \in Imports : doc'[j] # << >> =>
        doc'[j] = doc[j] /\ next'[j] = IF j = i THEN m + 1 ELSE next[j]
  BY <1>3 DEF Books, ImportsTyped
<1>5. \A j \in Imports \ {i} : doc'[j] = doc[j] /\ next'[j] = next[j]
  BY <1>3 DEF Books, ImportsTyped
<1>6. doc'[i] = << >> => m = Last(b) \/ b \in unsettled'
  BY <1>1, <1>3
<1>7. UNCHANGED index => b \in unsettled' \/ InsertRows(b, m, doc[i].d)
  BY DEF IndexTable, IndexFails
<1>8. UNCHANGED index \/ InsertRows(b, m, doc[i].d)
  BY DEF IndexTable, IndexFails
<1>. HIDE DEF b, m
<1>9. ASSUME NEW a \in Artifacts \ unsettled' PROVE Quiet(a)'
  <2>1. QuietImports(a) /\ QuietTables(a) /\ QuietWork(a)
    BY <1>2, <1>9 DEF QuietInv, Quiet
  <2>2. QuietWork(a)'
    BY <1>2, <2>1, WorkQuiet
  <2>3. CASE a # b
    <3>1. SameImports(a)
      BY <1>1, <1>4, <1>5, <2>3 DEF SameImports, Of, b
    <3>2. QuietImports(a)' /\ \A n : Past(a, n)' => Past(a, n)
      BY <1>2, <2>1, <3>1 DEF QuietImports, SameImports, Past
    <3>3. CASE UNCHANGED index
      BY <1>2, <2>1, <2>2, <3>1, <3>3, SameImportsQuiet DEF Quiet
    <3>4. CASE InsertRows(b, m, doc[i].d)
      <4>1. Inserted(b, m) /\ Displayed(b, m, doc[i].d)
        BY <1>1, <3>4, InsertRowsInserts DEF Books
      <4>2. QuietTables(a)'
        BY <1>1, <1>2, <2>1, <2>3, <3>2, <4>1, InsertQuiet
      <4>. QED
        BY <2>2, <3>2, <4>2 DEF Quiet
    <3>. QED
      BY <1>8, <3>3, <3>4
  <2>4. CASE a = b
    <3>1. InsertRows(b, m, doc[i].d) /\ (doc'[i] = << >> => m = Last(b))
      BY <1>6, <1>7, <1>8, <1>9, <2>4
    <3>2. Inserted(b, m) /\ Displayed(b, m, doc[i].d)
      BY <1>1, <3>1, InsertRowsInserts DEF Books
    <3>3. Of(i, a) /\ doc[i].d = stored[a] /\ \A j \in Imports : Of(j, a) => j = i
      BY <1>1, <2>1, <2>4 DEF QuietImports, Of, b
    <3>4. QuietImports(a)'
      BY <1>2, <1>4, <2>1 DEF QuietImports, Of
    <3>5. ASSUME NEW n \in 1..Last(a), Past(a, n)' PROVE Past(a, n) \/ n = m
      <4>1. m \in Nat /\ n \in Nat /\ Last(b) \in Nat
        BY <1>1, <2>4, TablesOfArtifact DEF Books
      <4>2. CASE doc'[i] = << >>
        BY <2>4, <3>1, <3>3, <3>5, <4>1, <4>2 DEF Past, m
      <4>3. CASE doc'[i] # << >>
        <5>1. Of(i, a)' /\ next'[i] = m + 1
          BY <1>4, <3>3, <4>3 DEF Of
        <5>2. n < m + 1
          BY <3>5, <5>1 DEF Past
        <5>3. n < m \/ n = m
          BY <4>1, <5>2
        <5>. QED
          BY <3>3, <5>3 DEF Past, m
      <4>. QED
        BY <4>2, <4>3
    <3>6. QuietTables(a)'
      BY <1>1, <1>2, <2>1, <2>4, <3>2, <3>3, <3>4, <3>5, InsertQuiet
    <3>. QED
      BY <2>2, <3>4, <3>6 DEF Quiet
  <2>. QED
    BY <2>3, <2>4
<1>. QED
  BY <1>9 DEF QuietInv

LEMMA StartKeepsQuiet ==
  ASSUME Books, QuietInv, NEW g \in Gateways, BackfillStart(g)
  PROVE  QuietInv'
<1>1. Set(g, Idle(1)) /\ UNCHANGED <<kind, stored, index, doc, next, unsettled>>
  BY IdleStages DEF BackfillStart
<1>2. ASSUME NEW a \in Artifacts \ unsettled PROVE Quiet(a)'
  <2>1. QuietImports(a) /\ QuietTables(a) /\ QuietWork(a)
    BY DEF QuietInv, Quiet
  <2>2. SameImports(a)
    BY <1>1 DEF SameImports, Of
  <2>. QED
    BY <1>1, <2>1, <2>2, SameImportsQuiet, WorkQuiet, IdleFaithful DEF Quiet, Books
<1>. QED
  BY <1>1, <1>2 DEF QuietInv

LEMMA KillKeepsQuiet ==
  ASSUME Books, QuietInv, NEW g \in Gateways, Kill(g)
  PROVE  QuietInv'
<1>. DEFINE cut == {i \in Imports : Importing(i) /\ host[i] = g}
<1>1. Set(g, Idle(0)) /\ UNCHANGED <<kind, stored, index>>
  BY IdleStages DEF Kill
<1>2. /\ doc' = [i \in Imports |-> IF i \in cut THEN << >> ELSE doc[i]]
      /\ next' = [i \in Imports |-> IF i \in cut THEN Done ELSE next[i]]
      /\ unsettled' = unsettled \cup {doc[i].art : i \in cut}
  BY DEF Kill
<1>. HIDE DEF cut
<1>3. ASSUME NEW a \in Artifacts \ unsettled' PROVE Quiet(a)'
  <2>1. QuietImports(a) /\ QuietTables(a) /\ QuietWork(a)
    BY <1>2, <1>3 DEF QuietInv, Quiet
  <2>2. \A i \in Imports : Of(i, a) => i \notin cut
    BY <1>2, <1>3 DEF Of
  <2>3. SameImports(a)
    BY <1>2, <2>2 DEF SameImports, Of
  <2>. QED
    BY <1>1, <2>1, <2>3, SameImportsQuiet, WorkQuiet, IdleFaithful DEF Quiet, Books
<1>. QED
  BY <1>3 DEF QuietInv

LEMMA QuietStutter ==
  ASSUME QuietInv, UNCHANGED indexVars
  PROVE  QuietInv'
<1>1. ASSUME NEW a \in Artifacts \ unsettled PROVE Quiet(a)'
  <2>1. QuietImports(a) /\ QuietTables(a) /\ QuietWork(a)
    BY DEF QuietInv, Quiet
  <2>2. SameImports(a)
    BY DEF SameImports, Of, indexVars
  <2>. QED
    BY <2>1, <2>2, SameImportsQuiet, WorkQuiet DEF Quiet, indexVars
<1>. QED
  BY <1>1 DEF QuietInv, indexVars

LEMMA QuietStep == Books /\ QuietInv /\ [IndexNext]_indexVars => QuietInv'
BY IndexCases, StartKeepsQuiet, KillKeepsQuiet, MovesKeepQuiet, StoringKeepsQuiet,
   StoreFailsKeepsQuiet, IndexingKeepsQuiet, QuietStutter

LEMMA QuietInit == IndexInit => QuietInv
BY DEF IndexInit, QuietInv

\* A document that is at rest and was not disturbed: nothing is left of Past.
LEMMA QuietGives == Books /\ QuietInv => QuietIndexAgrees
<1>. SUFFICES ASSUME Books, QuietInv, NEW a \in Artifacts \ unsettled,
                     \A i \in Imports : Importing(i) => doc[i].art # a,
                     NEW n \in 1..Last(a), TableOf(a, n) \notin Plain
              PROVE  IF TableOf(a, n) = "mapping_entries"
                     THEN \A r \in RowsFor(a, n, stored[a]) : \E o \in index[TableOf(a, n)][a] :
                            o.key = r.key /\ o.content = r.content
                     ELSE RowsFor(a, n, stored[a]) \subseteq index[TableOf(a, n)][a]
  BY DEF QuietIndexAgrees
<1>1. \A i \in Imports : ~ Of(i, a)
  BY ImportHas DEF Books, Of
<1>2. Agrees(a, n)
  BY <1>1 DEF QuietInv, Quiet, QuietTables, Past
<1>. QED
  BY <1>2 DEF Agrees, Shows

-------------------------------------------------------------------------------
\* What the tables of an artifact did not take is on record: whatever is stored,
\* imported or in a backfill's hands, a table takes it or is known not to.

Known(a, c) == \A n \in 1..Last(a) : <<a, n>> \in unfit \/ Takes(TableOf(a, n), c)

KnownStored == \A a \in Artifacts : stored[a] # Absent => Known(a, stored[a].content)
KnownImports == \A i \in Imports : doc[i] # << >> => Known(doc[i].art, doc[i].d.content)
InHandKnown(w) == \A e \in InHand(w) : e.d.content # "none" => Known(e.art, e.d.content)
KnownInHand == \A g \in Gateways : InHandKnown(work[g])
OnRecord == KnownStored /\ KnownImports /\ KnownInHand

\* ... after the step.
KnownThen(a, c) == \A n \in 1..Last(a) : <<a, n>> \in unfit' \/ Takes(TableOf(a, n), c)

LEMMA KnownStays ==
  ASSUME unfit \subseteq unfit'
  PROVE  \A a, c : Known(a, c) => KnownThen(a, c)
BY DEF Known, KnownThen

LEMMA UnfitKnown ==
  ASSUME NEW a, NEW c, Unfit(a, c) \subseteq unfit'
  PROVE  KnownThen(a, c)
BY DEF Unfit, KnownThen

StoredKnownThen == \A a \in Artifacts : stored'[a] # Absent => KnownThen(a, stored'[a].content)
ImportsKnownThen == \A i \in Imports : doc'[i] # << >> => KnownThen(doc'[i].art, doc'[i].d.content)
InHandKnownThen(w) == \A e \in InHand(w) : e.d.content # "none" => KnownThen(e.art, e.d.content)

LEMMA OnRecordKept ==
  ASSUME kind' = kind, StoredKnownThen, ImportsKnownThen,
         \A g \in Gateways : InHandKnownThen(work'[g])
  PROVE  OnRecord'
<1>1. KnownStored'
  BY DEF StoredKnownThen, KnownThen, KnownStored, Known, Last, TableOf, Takes
<1>2. KnownImports'
  BY DEF ImportsKnownThen, KnownThen, KnownImports, Known, Last, TableOf, Takes
<1>3. KnownInHand'
  BY DEF InHandKnownThen, KnownThen, KnownInHand, InHandKnown, InHand, Known, Last, TableOf, Takes
<1>. QED
  BY <1>1, <1>2, <1>3 DEF OnRecord

\* A document is not written over, an import is not made, a backfill stays where
\* it is or has what is on record.
LEMMA OnRecordStays ==
  ASSUME OnRecord, kind' = kind, unfit \subseteq unfit',
         stored' = stored \/ StoredKnownThen,
         (\A i \in Imports : doc'[i] # << >> => doc'[i] = doc[i]) \/ ImportsKnownThen,
         \A g \in Gateways : work'[g] = work[g] \/ InHandKnownThen(work'[g])
  PROVE  OnRecord'
<1>1. StoredKnownThen
  BY KnownStays DEF OnRecord, KnownStored, StoredKnownThen
<1>2. ImportsKnownThen
  BY KnownStays DEF OnRecord, KnownImports, ImportsKnownThen
<1>3. ASSUME NEW g \in Gateways PROVE InHandKnownThen(work'[g])
  <2>1. InHandKnownThen(work[g])
    BY KnownStays DEF OnRecord, KnownInHand, InHandKnown, InHandKnownThen
  <2>. QED
    BY <2>1
<1>. QED
  BY <1>1, <1>2, <1>3, OnRecordKept

LEMMA IdleKnown == \A s : InHandKnownThen(Idle(s))
BY DEF InHandKnownThen, InHand, Idle, W

LEMMA PassOnKnown ==
  ASSUME NEW s, NEW td, \A e \in td : e.d.content # "none" => KnownThen(e.art, e.d.content)
  PROVE  InHandKnownThen(PassOn(s, td))
<1>1. CASE td = {}
  BY <1>1, IdleKnown DEF PassOn
<1>2. CASE td # {}
  <2>. DEFINE v == W(s, "count", td, << >>, 0)
  <2>1. v.todo = td /\ v.now = << >> /\ PassOn(s, td) = v
    BY <1>2 DEF PassOn, W
  <2>. HIDE DEF v
  <2>. QED
    BY <2>1 DEF InHandKnownThen, InHand
<1>. QED
  BY <1>1, <1>2

LEMMA AtHandKnown ==
  ASSUME NEW s, NEW step, NEW n, NEW e, e.d.content # "none" => KnownThen(e.art, e.d.content),
         NEW td, \A c \in td : c.d.content # "none" => KnownThen(c.art, c.d.content)
  PROVE  InHandKnownThen(W(s, step, td, e, n))
<1>. DEFINE v == W(s, step, td, e, n)
<1>1. v.todo = td /\ v.now = e
  BY DEF W
<1>. HIDE DEF v
<1>2. InHandKnownThen(v)
  BY <1>1 DEF InHandKnownThen, InHand
<1>. QED
  BY <1>2 DEF v

LEMMA MovesOnRecord ==
  ASSUME Books, OnRecord, NEW g \in Gateways, NEW failed, BackfillMoves(g, failed)
  PROVE  OnRecord'
<1>. DEFINE w == work[g]
<1>1. w \in Work /\ WorkFits(w) /\ StoreTyped
  BY DEF Books, WorkTyped
<1>2. UNCHANGED <<kind, stored, doc, unfit>>
  BY DEF BackfillMoves, Frame
<1>3. /\ \A e \in w.todo : e.d.content # "none" => KnownThen(e.art, e.d.content)
      /\ w.now # << >> /\ w.now.d.content # "none" => KnownThen(w.now.art, w.now.d.content)
  BY <1>2, KnownStays DEF OnRecord, KnownInHand, InHandKnown, InHand
<1>4. \A a \in Artifacts : stored[a] # Absent => KnownThen(a, stored[a].content)
  BY <1>2, KnownStays DEF OnRecord, KnownStored
<1>5. \E v : Set(g, v) /\ InHandKnownThen(v)
  <2>. HIDE DEF w
  <2>1. CASE MoveList(g)
    <3>1. PICK docs : Lists(Stages[w.stage], docs) /\ Set(g, PassOn(w.stage, docs))
      BY <2>1 DEF MoveList, w
    <3>2. \A e \in docs : e.d.content # "none" => KnownThen(e.art, e.d.content)
      BY <1>4, <3>1 DEF Lists, Entry
    <3>. QED
      BY <3>1, <3>2, PassOnKnown
  <2>2. CASE MovePass(g, failed)
    <3>1. PICK td \in SUBSET w.todo : Set(g, PassOn(w.stage, td))
      BY <2>2 DEF MovePass, w
    <3>2. InHandKnownThen(PassOn(w.stage, td))
      BY <1>3, PassOnKnown
    <3>. QED
      BY <3>1, <3>2
  <2>3. CASE MoveTake(g)
    <3>1. PICK e \in w.todo, step \in {"get", "insert"} : Set(g, W(w.stage, step, w.todo \ {e}, e, 1))
      BY <2>3 DEF MoveTake, w
    <3>2. InHandKnownThen(W(w.stage, step, w.todo \ {e}, e, 1))
      BY <1>3, AtHandKnown
    <3>. QED
      BY <3>1, <3>2
  <2>4. CASE MoveGet(g)
    <3>. DEFINE e == WithContent(w.now)
    <3>1. w.now # << >> /\ w.now \in Entry /\ Fits(w.now, w.stage)
      BY <1>1, <2>4, InHandFits DEF MoveGet, WorkFits, w
    <3>2. e.art = w.now.art /\ e.d.content = stored[w.now.art].content
      BY DEF WithContent
    <3>3. KnownThen(e.art, e.d.content)
      BY <1>4, <3>1, <3>2 DEF Fits, Entry
    <3>. HIDE DEF e
    <3>4. InHandKnownThen(W(w.stage, "insert", w.todo, e, 1))
      BY <1>3, <3>3, AtHandKnown
    <3>. QED
      BY <2>4, <3>4 DEF MoveGet, w, e
  <2>5. CASE MoveInsert(g, failed)
    <3>1. w.now # << >>
      BY <1>1, <2>5 DEF MoveInsert, WorkFits, w
    <3>2. InHandKnownThen(PassOn(w.stage, w.todo))
      BY <1>3, PassOnKnown
    <3>3. InHandKnownThen(W(w.stage, "insert", w.todo, w.now, w.batch + 1))
      BY <1>3, <3>1, AtHandKnown
    <3>. QED
      BY <2>5, <3>2, <3>3 DEF MoveInsert, w
  <2>. QED
    BY <2>1, <2>2, <2>3, <2>4, <2>5 DEF BackfillMoves
<1>6. \A h \in Gateways : work'[h] = work[h] \/ InHandKnownThen(work'[h])
  BY <1>5 DEF Set, Books, WorkTyped
<1>. QED
  BY <1>2, <1>6, OnRecordStays

LEMMA StoringOnRecord ==
  ASSUME Books, OnRecord, NEW g \in Gateways, NEW i \in Imports, NEW b \in Artifacts, Storing(i, g, b)
  PROVE  OnRecord'
<1>1. PICK d \in Document : StoreDocument(i, g, b, d)
  BY DEF Storing
<1>. DEFINE e == [art |-> b, d |-> d]
<1>2. /\ stored' = [stored EXCEPT ![b] = d] /\ doc' = [doc EXCEPT ![i] = e]
      /\ UNCHANGED <<kind, work>> /\ unfit' = unfit \cup Unfit(b, d.content)
  BY <1>1 DEF StoreDocument
<1>3. e.art = b /\ e.d = d
  OBVIOUS
<1>. HIDE DEF e
<1>4. KnownThen(b, d.content)
  BY <1>2, UnfitKnown
<1>5. StoredKnownThen
  BY <1>2, <1>4, KnownStays DEF StoredKnownThen, OnRecord, KnownStored, Books, StoreTyped
<1>6. ImportsKnownThen
  BY <1>2, <1>3, <1>4, KnownStays DEF ImportsKnownThen, OnRecord, KnownImports, Books, ImportsTyped
<1>. QED
  BY <1>2, <1>5, <1>6, OnRecordStays

LEMMA StoreFailsOnRecord ==
  ASSUME Books, OnRecord, NEW g \in Gateways, NEW i \in Imports, NEW b \in Artifacts,
         StoreFails(i, g, b)
  PROVE  OnRecord'
<1>1. /\ UNCHANGED <<kind, work>> /\ doc' = [doc EXCEPT ![i] = << >>]
      /\ \/ UNCHANGED <<stored, unfit>>
         \/ \E d : stored' = [stored EXCEPT ![b] = d] /\ unfit' = unfit \cup Unfit(b, d.content)
  BY DEF StoreFails, ImportDone
<1>2. \A j \in Imports : doc'[j] # << >> => doc'[j] = doc[j]
  BY <1>1 DEF Books, ImportsTyped
<1>3. CASE \E d : stored' = [stored EXCEPT ![b] = d] /\ unfit' = unfit \cup Unfit(b, d.content)
  <2>1. PICK d : stored' = [stored EXCEPT ![b] = d] /\ unfit' = unfit \cup Unfit(b, d.content)
    BY <1>3
  <2>2. KnownThen(b, d.content)
    BY <2>1, UnfitKnown
  <2>3. StoredKnownThen
    BY <2>1, <2>2, KnownStays DEF StoredKnownThen, OnRecord, KnownStored, Books, StoreTyped
  <2>. QED
    BY <1>1, <1>2, <2>1, <2>3, OnRecordStays
<1>. QED
  BY <1>1, <1>2, <1>3, OnRecordStays

LEMMA IndexingOnRecord ==
  ASSUME Books, OnRecord, NEW i \in Imports, IndexTable(i) \/ IndexFails(i)
  PROVE  OnRecord'
<1>1. UNCHANGED <<kind, stored, work, unfit>>
  BY DEF IndexTable, IndexFails, ghosts
<1>2. doc' = doc \/ doc' = [doc EXCEPT ![i] = << >>]
  BY DEF IndexTable, IndexFails, Onward, ImportDone
<1>3. \A j \in Imports : doc'[j] # << >> => doc'[j] = doc[j]
  BY <1>2 DEF Books, ImportsTyped
<1>. QED
  BY <1>1, <1>3, OnRecordStays

LEMMA StartOnRecord ==
  ASSUME Books, OnRecord, NEW g \in Gateways, BackfillStart(g)
  PROVE  OnRecord'
<1>1. Set(g, Idle(1)) /\ UNCHANGED <<kind, stored, doc, unfit>>
  BY IdleStages DEF BackfillStart
<1>2. \A h \in Gateways : work'[h] = work[h] \/ InHandKnownThen(work'[h])
  BY <1>1, IdleKnown DEF Set, Books, WorkTyped
<1>. QED
  BY <1>1, <1>2, OnRecordStays

LEMMA KillOnRecord ==
  ASSUME Books, OnRecord, NEW g \in Gateways, Kill(g)
  PROVE  OnRecord'
<1>1. Set(g, Idle(0)) /\ UNCHANGED <<kind, stored, unfit>>
  BY IdleStages DEF Kill
<1>2. \A h \in Gateways : work'[h] = work[h] \/ InHandKnownThen(work'[h])
  BY <1>1, IdleKnown DEF Set, Books, WorkTyped
<1>3. \A j \in Imports : doc'[j] # << >> => doc'[j] = doc[j]
  BY DEF Kill
<1>. QED
  BY <1>1, <1>2, <1>3, OnRecordStays

LEMMA OnRecordStutter ==
  ASSUME OnRecord, UNCHANGED indexVars
  PROVE  OnRecord'
BY OnRecordStays DEF indexVars

LEMMA OnRecordStep == Books /\ OnRecord /\ [IndexNext]_indexVars => OnRecord'
BY IndexCases, StartOnRecord, KillOnRecord, MovesOnRecord, StoringOnRecord, StoreFailsOnRecord,
   IndexingOnRecord, OnRecordStutter

LEMMA OnRecordInit == IndexInit => OnRecord
<1>. SUFFICES ASSUME IndexInit PROVE OnRecord
  OBVIOUS
<1>1. KnownStored
  <2>1. ASSUME NEW a \in Artifacts, stored[a] # Absent PROVE Known(a, stored[a].content)
    <3>1. Unfit(a, stored[a].content) \subseteq unfit
      BY <2>1 DEF IndexInit
    <3>. QED
      BY <3>1 DEF Unfit, Known
  <2>. QED
    BY <2>1 DEF KnownStored
<1>2. KnownImports
  BY DEF IndexInit, KnownImports
<1>3. KnownInHand
  <2>1. \A g \in Gateways : work[g] = Off
    BY DEF IndexInit
  <2>2. InHand(Off) = {}
    BY DEF InHand, Off
  <2>. QED
    BY <2>1, <2>2 DEF KnownInHand, InHandKnown
<1>. QED
  BY <1>1, <1>2, <1>3 DEF OnRecord

-------------------------------------------------------------------------------
\* What holds of the tables that take every version: unless some rows failed to be
\* written, an import has filled the tables it is past, and so has a backfill.

Covered(a, n) == Filled(a, n) \/ <<a, n>> \in unfit

ImportFills ==
  \A i \in Imports : doc[i] # << >> =>
    doc[i].art \in torn \/ \A n \in 1..(next[i] - 1) : Covered(doc[i].art, n)

BackfillFills ==
  \A g \in Gateways : work[g].step = "insert" =>
    work[g].now.art \in torn \/ \A n \in 1..(work[g].batch - 1) : Covered(work[g].now.art, n)

BackfillFirst ==
  \A g \in Gateways : work[g].step = "insert" /\ work[g].batch > 1 => Covered(work[g].now.art, 1)

\* A document whose first table is filled, and another is not, has a reason.
AllCovered(a) == \A n \in 1..Last(a) : Covered(a, n)
Later(g, a) == work[g].step = "insert" /\ work[g].now.art = a /\ work[g].batch > 1
Reason(a) ==
  Filled(a, 1) /\ <<a, 1>> \notin unfit =>
    a \in torn \/ AllCovered(a) \/ (\E i \in Imports : Of(i, a)) \/ (\E g \in Gateways : Later(g, a))

\* A document that the backfill w owes is still to come, is in its hands or has rows.
Settles(w, a) ==
  /\ w.stage > 0
  /\ \A j \in 1..5 : kind[a] = Stages[j] =>
       \/ j > w.stage \/ (j = w.stage /\ w.step = "list")
       \/ Covered(a, 1)
       \/ (j = w.stage /\ \E e \in InHand(w) : e.art = a)
Owed == \A g \in Gateways : \A a \in due[g] : stored[a] # Absent /\ Settles(work[g], a)

Fills == ImportFills /\ BackfillFills /\ BackfillFirst
Reasons == \A a \in Artifacts : Reason(a)

\* ... after the step.
FilledThen(a, n) == index'[TableOf(a, n)][a] # {}
CoveredThen(a, n) == FilledThen(a, n) \/ <<a, n>> \in unfit'

\* What is filled stays filled, and what was torn or did not fit stays so.
Grows ==
  /\ kind' = kind /\ torn \subseteq torn' /\ unfit \subseteq unfit'
  /\ \A a \in Artifacts : \A n \in 1..Last(a) : Filled(a, n) => FilledThen(a, n)

LEMMA GrowsCovers ==
  ASSUME Grows, NEW a \in Artifacts, NEW n \in 1..Last(a), Covered(a, n)
  PROVE  CoveredThen(a, n)
BY DEF Grows, Covered, CoveredThen

LEMMA IdleGrows ==
  ASSUME kind' = kind, torn \subseteq torn', unfit \subseteq unfit', UNCHANGED index
  PROVE  Grows /\ \A a : FilledThen(a, 1) => Filled(a, 1)
BY DEF Grows, Filled, FilledThen

LEMMA InsertGrows ==
  ASSUME StoreTyped, kind' = kind, torn \subseteq torn', unfit \subseteq unfit',
         NEW b \in Artifacts, NEW m \in 1..Last(b), Inserted(b, m)
  PROVE  Grows /\ \A a \in Artifacts \ {b} : FilledThen(a, 1) => Filled(a, 1)
<1>1. ASSUME NEW a \in Artifacts, NEW n \in 1..Last(a), a # b \/ n # m
      PROVE  FilledThen(a, n) <=> Filled(a, n)
  BY <1>1, InsertedElsewhere DEF Filled, FilledThen
<1>2. Filled(b, m) => FilledThen(b, m)
  BY DEF Inserted, Filled, FilledThen
<1>3. \A a \in Artifacts : 1 \in 1..Last(a)
  BY TablesOfArtifact
<1>. QED
  BY <1>1, <1>2, <1>3 DEF Grows

\* A batch of what is on record covers its table.
LEMMA DisplayedCovers ==
  ASSUME unfit \subseteq unfit', NEW b, NEW m \in 1..Last(b), NEW d,
         Known(b, d.content), Displayed(b, m, d)
  PROVE  CoveredThen(b, m)
BY DEF Known, Displayed, CoveredThen, FilledThen

LEMMA CoveredPrimed ==
  ASSUME kind' = kind, NEW a
  PROVE  Last(a)' = Last(a) /\ \A n : Covered(a, n)' <=> CoveredThen(a, n)
BY DEF Last, Covered, CoveredThen, Filled, FilledThen, TableOf

\* Where an import may get to.
LEMMA ImportFillsKept ==
  ASSUME Books, ImportFills, Grows,
         \A i \in Imports : doc'[i] # << >> =>
           \/ next'[i] = 1
           \/ doc'[i] = doc[i] /\ next'[i] = next[i]
           \/ /\ doc'[i] = doc[i] /\ next'[i] = next[i] + 1
              /\ doc[i].art \in torn' \/ CoveredThen(doc[i].art, next[i])
  PROVE  ImportFills'
<1>1. ASSUME NEW i \in Imports, doc'[i] # << >>, next'[i] # 1, doc'[i].art \notin torn',
             NEW n \in 1..(next'[i] - 1)
      PROVE  CoveredThen(doc'[i].art, n)
  <2>. DEFINE a == doc[i].art
              m == next[i]
  <2>1. doc'[i] = doc[i] /\ (next'[i] = m \/ (next'[i] = m + 1 /\ CoveredThen(a, m)))
    BY <1>1
  <2>2. a \in Artifacts /\ m \in 1..Last(a) /\ Last(a) \in 1..3 /\ a \notin torn
    BY <1>1, <2>1, ImportHas, TablesOfArtifact DEF Books, Grows
  <2>3. \A k \in 1..(m - 1) : Covered(a, k)
    BY <1>1, <2>1, <2>2 DEF ImportFills
  <2>. HIDE DEF a, m
  <2>4. \A k \in 1..(m - 1) : CoveredThen(a, k)
    BY <2>2, <2>3, GrowsCovers DEF Grows
  <2>5. n \in 1..(m - 1) \/ (n = m /\ CoveredThen(a, m))
    BY <2>1, <2>2
  <2>. QED
    BY <2>1, <2>4, <2>5 DEF a
<1>2. ASSUME NEW i \in Imports, doc'[i] # << >>, doc'[i].art \notin torn',
             NEW n \in 1..(next'[i] - 1)
      PROVE  CoveredThen(doc'[i].art, n)
  <2>1. next'[i] # 1
    BY <1>2
  <2>. QED
    BY <1>1, <1>2, <2>1
<1>. QED
  BY <1>2, CoveredPrimed DEF ImportFills, Grows

\* Where a backfill may get to.
LEMMA BackfillFillsKept ==
  ASSUME Books, BackfillFills, BackfillFirst, Grows,
         \A g \in Gateways : work'[g].step = "insert" =>
           \/ work'[g].batch = 1
           \/ work'[g] = work[g]
           \/ /\ work[g].step = "insert" /\ work'[g].now = work[g].now
              /\ work'[g].batch = work[g].batch + 1
              /\ work[g].now.art \in torn' \/ CoveredThen(work[g].now.art, work[g].batch)
              /\ work[g].batch = 1 => CoveredThen(work[g].now.art, 1)
  PROVE  BackfillFills' /\ BackfillFirst'
<1>1. ASSUME NEW g \in Gateways, work'[g].step = "insert", work'[g].batch # 1
      PROVE  /\ work'[g].now.art \in torn'
                \/ \A n \in 1..(work'[g].batch - 1) : CoveredThen(work'[g].now.art, n)
             /\ CoveredThen(work'[g].now.art, 1)
  <2>1. work[g].step = "insert" /\ work'[g].now = work[g].now
    BY <1>1
  <2>. DEFINE a == work[g].now.art
              b == work[g].batch
              c == work'[g].batch
  <2>2. a \in Artifacts /\ b \in 1..Last(a) /\ Last(a) \in 1..3
    BY <2>1, AtInsert, TablesOfArtifact DEF Books
  <2>3. a \in torn \/ \A n \in 1..(b - 1) : Covered(a, n)
    BY <2>1 DEF BackfillFills
  <2>4. b > 1 => Covered(a, 1)
    BY <2>1 DEF BackfillFirst
  <2>5. c = b \/ (c = b + 1 /\ (a \in torn' \/ CoveredThen(a, b)) /\ (b = 1 => CoveredThen(a, 1)))
    BY <1>1, <2>1
  <2>6. c # 1
    BY <1>1
  <2>. HIDE DEF a, b, c
  <2>7. a \in torn' \/ \A n \in 1..(b - 1) : CoveredThen(a, n)
    BY <2>2, <2>3, GrowsCovers DEF Grows
  <2>8. b > 1 => CoveredThen(a, 1)
    BY <2>2, <2>4, GrowsCovers
  <2>9. b = 1 \/ b > 1
    BY <2>2
  <2>10. CoveredThen(a, 1)
    BY <2>5, <2>6, <2>8, <2>9
  <2>11. a \in torn' \/ \A n \in 1..(c - 1) : CoveredThen(a, n)
    <3>1. c = b + 1 => \A n \in 1..(c - 1) : n \in 1..(b - 1) \/ n = b
      BY <2>2
    <3>. QED
      BY <2>5, <2>7, <3>1
  <2>. QED
    BY <2>1, <2>10, <2>11 DEF a, c
<1>2. BackfillFills'
  <2>1. ASSUME NEW g \in Gateways, work'[g].step = "insert", work'[g].now.art \notin torn',
               NEW n \in 1..(work'[g].batch - 1)
        PROVE  CoveredThen(work'[g].now.art, n)
    <3>1. work'[g].batch # 1
      BY <2>1
    <3>. QED
      BY <1>1, <2>1, <3>1
  <2>. QED
    BY <2>1, CoveredPrimed DEF BackfillFills, Grows
<1>3. BackfillFirst'
  <2>1. ASSUME NEW g \in Gateways, work'[g].step = "insert", work'[g].batch > 1
        PROVE  CoveredThen(work'[g].now.art, 1)
    BY <1>1, <2>1
  <2>. QED
    BY <2>1, CoveredPrimed DEF BackfillFirst, Grows
<1>. QED
  BY <1>2, <1>3

LEMMA ReasonKept ==
  ASSUME Grows, NEW a \in Artifacts, Reason(a), FilledThen(a, 1) => Filled(a, 1),
         \A i \in Imports : Of(i, a) => Of(i, a)' \/ a \in torn',
         \A g \in Gateways : Later(g, a) => Later(g, a)' \/ a \in torn'
  PROVE  Reason(a)'
<1>1. Filled(a, 1)' <=> FilledThen(a, 1)
  BY DEF Grows, Filled, FilledThen, TableOf
<1>2. AllCovered(a) => AllCovered(a)'
  BY GrowsCovers, CoveredPrimed DEF AllCovered, Grows
<1>. QED
  BY <1>1, <1>2 DEF Reason, Grows

\* Debts are settled step by step.
Settling(v, a) ==
  /\ v.stage > 0
  /\ \A j \in 1..5 : kind[a] = Stages[j] =>
       \/ j > v.stage \/ (j = v.stage /\ v.step = "list")
       \/ CoveredThen(a, 1)
       \/ (j = v.stage /\ \E e \in InHand(v) : e.art = a)

LEMMA OwedKept ==
  ASSUME Books, Owed, Grows, Keeps,
         \A g \in Gateways :
           \/ work'[g] = work[g] /\ due'[g] = due[g]
           \/ \A a \in due'[g] : a \in Artifacts /\ stored[a] # Absent /\ Settling(work'[g], a)
  PROVE  Owed'
<1>1. \A a \in Artifacts : 1 \in 1..Last(a)
  BY TablesOfArtifact DEF Books
<1>2. ASSUME NEW g \in Gateways, NEW a \in due'[g]
      PROVE  a \in Artifacts /\ stored'[a] # Absent /\ Settling(work'[g], a)
  <2>1. CASE work'[g] = work[g] /\ due'[g] = due[g]
    <3>1. a \in Artifacts /\ stored[a] # Absent /\ Settles(work[g], a)
      BY <1>2, <2>1 DEF Owed, Books, Ghosts
    <3>2. Covered(a, 1) => CoveredThen(a, 1)
      BY <1>1, <3>1, GrowsCovers
    <3>3. Settling(work[g], a)
      BY <3>1, <3>2 DEF Settles, Settling
    <3>. QED
      BY <2>1, <3>1, <3>3 DEF Keeps
  <2>2. CASE \A c \in due'[g] : c \in Artifacts /\ stored[c] # Absent /\ Settling(work'[g], c)
    BY <1>2, <2>2 DEF Keeps
  <2>. QED
    BY <2>1, <2>2
<1>3. \A a : Covered(a, 1)' <=> CoveredThen(a, 1)
  BY CoveredPrimed DEF Grows
<1>4. kind' = kind
  BY DEF Grows
<1>5. ASSUME NEW g \in Gateways, NEW a, Settling(work'[g], a) PROVE Settles(work[g], a)'
  BY <1>3, <1>4, <1>5 DEF Settles, Settling, InHand
<1>. QED
  BY <1>2, <1>5 DEF Owed

\* None of it is left out.
NoneLeft == Fills /\ Reasons /\ Owed

\* Steps that neither insert rows nor move a backfill.
LEMMA OtherKeepsNoneLeft ==
  ASSUME Books, NoneLeft, Keeps, torn \subseteq torn', unfit \subseteq unfit',
         UNCHANGED <<index, work, due>>,
         \A i \in Imports : doc'[i] # << >> =>
           next'[i] = 1 \/ (doc'[i] = doc[i] /\ next'[i] = next[i]),
         \A i \in Imports : doc[i] # << >> => doc'[i] = doc[i]
  PROVE  NoneLeft'
<1>1. Grows /\ \A a : FilledThen(a, 1) => Filled(a, 1)
  BY IdleGrows DEF Keeps
<1>2. ImportFills'
  BY <1>1, ImportFillsKept DEF NoneLeft, Fills
<1>3. BackfillFills' /\ BackfillFirst'
  BY <1>1, BackfillFillsKept DEF NoneLeft, Fills
<1>4. Reasons'
  <2>1. ASSUME NEW a \in Artifacts PROVE Reason(a)'
    <3>1. \A i \in Imports : Of(i, a) => Of(i, a)'
      BY DEF Of
    <3>2. \A g \in Gateways : Later(g, a) => Later(g, a)'
      BY DEF Later
    <3>. QED
      BY <1>1, <3>1, <3>2, ReasonKept DEF NoneLeft, Reasons
  <2>. QED
    BY <2>1 DEF Reasons
<1>5. Owed'
  BY <1>1, OwedKept DEF NoneLeft
<1>. QED
  BY <1>2, <1>3, <1>4, <1>5 DEF NoneLeft, Fills

LEMMA StoringKeepsNoneLeft ==
  ASSUME Books, NoneLeft, NEW g \in Gateways, NEW i \in Imports, NEW b \in Artifacts,
         Storing(i, g, b) \/ StoreFails(i, g, b)
  PROVE  NoneLeft'
<1>1. /\ next[i] = 0 /\ UNCHANGED <<kind, index, work, due>>
      /\ torn \subseteq torn' /\ unfit \subseteq unfit'
      /\ \/ \E d \in Document : stored' = [stored EXCEPT ![b] = d]
         \/ UNCHANGED stored
  BY BroughtAreDocuments DEF Storing, StoreDocument, StoreFails
<1>2. \E e : doc' = [doc EXCEPT ![i] = e]
             /\ (next' = [next EXCEPT ![i] = 1] \/ (e = << >> /\ next' = [next EXCEPT ![i] = Done]))
  BY DEF Storing, StoreDocument, StoreFails, ImportDone
<1>3. doc[i] = << >>
  BY <1>1, ImportHas DEF Books
<1>4. Keeps
  BY <1>1, AbsentIsNoDocument DEF Keeps, Books, StoreTyped
<1>5. /\ \A j \in Imports : doc'[j] # << >> =>
           next'[j] = 1 \/ (doc'[j] = doc[j] /\ next'[j] = next[j])
      /\ \A j \in Imports : doc[j] # << >> => doc'[j] = doc[j]
  BY <1>2, <1>3 DEF Books, ImportsTyped
<1>. QED
  BY <1>1, <1>4, <1>5, OtherKeepsNoneLeft

LEMMA IndexingAtKeepsNoneLeft ==
  ASSUME Books, OnRecord, NoneLeft, NEW i \in Imports, IndexTable(i) \/ IndexFails(i),
         NEW b, b = doc[i].art, NEW m, m = next[i]
  PROVE  NoneLeft'
<1>1. /\ doc[i] # << >> /\ b \in Artifacts /\ doc[i].d \in Document /\ m \in 1..Last(b)
      /\ Last(b) \in 1..3
  BY ImportHas, TablesOfArtifact DEF Books, IndexTable, IndexFails, Importing
<1>2. UNCHANGED <<kind, stored, work, unfit>> /\ Keeps /\ torn \subseteq torn'
  BY DEF IndexTable, IndexFails, ghosts, Keeps
<1>3. \/ doc' = [doc EXCEPT ![i] = << >>] /\ next' = [next EXCEPT ![i] = Done]
         /\ (m = Last(b) \/ b \in torn')
      \/ UNCHANGED doc /\ next' = [next EXCEPT ![i] = m + 1]
  BY <1>1, OnwardMoves DEF IndexTable, IndexFails, ImportDone, Books
<1>4. \A j \in Imports : doc'[j] # << >> =>
        doc'[j] = doc[j] /\ next'[j] = IF j = i THEN m + 1 ELSE next[j]
  BY <1>3 DEF Books, ImportsTyped
<1>5. \A j \in Imports \ {i} : doc'[j] = doc[j]
  BY <1>3 DEF Books, ImportsTyped
<1>6. doc'[i] = doc[i] \/ m = Last(b) \/ b \in torn'
  BY <1>1, <1>3
<1>7. InsertRows(b, m, doc[i].d) \/ (UNCHANGED index /\ b \in torn')
  BY DEF IndexTable, IndexFails
<1>8. due' = due
  BY DEF IndexTable, IndexFails, ghosts
<1>9. /\ Grows /\ (b \in torn' \/ CoveredThen(b, m))
      /\ \A a \in Artifacts \ {b} : FilledThen(a, 1) => Filled(a, 1)
  <2>1. CASE InsertRows(b, m, doc[i].d)
    <3>1. Inserted(b, m) /\ Displayed(b, m, doc[i].d)
      BY <1>1, <2>1, InsertRowsInserts DEF Books
    <3>2. Known(b, doc[i].d.content)
      BY <1>1 DEF OnRecord, KnownImports
    <3>3. CoveredThen(b, m)
      BY <1>1, <1>2, <3>1, <3>2, DisplayedCovers
    <3>. QED
      BY <1>1, <1>2, <3>1, <3>3, InsertGrows DEF Books
  <2>2. CASE UNCHANGED index /\ b \in torn'
    BY <1>2, <2>2, IdleGrows
  <2>. QED
    BY <1>7, <2>1, <2>2
<1>10. ImportFills'
  BY <1>4, <1>9, ImportFillsKept DEF NoneLeft, Fills
<1>11. BackfillFills' /\ BackfillFirst'
  BY <1>2, <1>9, BackfillFillsKept DEF NoneLeft, Fills
<1>12. Owed'
  BY <1>2, <1>8, <1>9, OwedKept DEF NoneLeft
<1>13. b \in torn \/ \A n \in 1..(m - 1) : Covered(b, n)
  BY <1>1 DEF NoneLeft, Fills, ImportFills
<1>14. Of(i, b)' \/ m = Last(b) \/ b \in torn'
  BY <1>1, <1>6 DEF Of
<1>15. \A j \in Imports \ {i} : \A a : Of(j, a) => Of(j, a)'
  BY <1>5 DEF Of
<1>16. \A a : Of(i, a) => a = b
  BY DEF Of
<1>17. \A g \in Gateways, a \in Artifacts : Later(g, a)' <=> Later(g, a)
  BY <1>2 DEF Later
<1>18. Reason(b)'
  <2>1. CASE Of(i, b)' \/ b \in torn'
    BY <2>1 DEF Reason
  <2>2. CASE m = Last(b) /\ b \notin torn'
    <3>1. \A n \in 1..(m - 1) : CoveredThen(b, n)
      BY <1>1, <1>9, <1>13, <2>2, GrowsCovers DEF Grows
    <3>2. \A n \in 1..Last(b) : n \in 1..(m - 1) \/ n = m
      BY <1>1, <2>2
    <3>3. \A n \in 1..Last(b) : CoveredThen(b, n)
      BY <1>9, <2>2, <3>1, <3>2
    <3>. QED
      BY <1>2, <3>3, CoveredPrimed DEF Reason, AllCovered
  <2>. QED
    BY <1>14, <2>1, <2>2
<1>19. ASSUME NEW a \in Artifacts, a # b PROVE Reason(a)'
  BY <1>9, <1>15, <1>16, <1>17, <1>19, ReasonKept DEF NoneLeft, Reasons
<1>20. Reasons'
  BY <1>18, <1>19 DEF Reasons
<1>. QED
  BY <1>10, <1>11, <1>12, <1>20 DEF NoneLeft, Fills

LEMMA IndexingKeepsNoneLeft ==
  ASSUME Books, OnRecord, NoneLeft, NEW i \in Imports, IndexTable(i) \/ IndexFails(i)
  PROVE  NoneLeft'
BY IndexingAtKeepsNoneLeft

\* A document that is still to come, is held or has rows.
Owing(s, held, a) ==
  \A j \in 1..5 : kind[a] = Stages[j] =>
    j > s \/ CoveredThen(a, 1) \/ (j = s /\ \E e \in held : e.art = a)

LEMMA PassOnSettles ==
  ASSUME NEW s \in 1..5, NEW td, NEW a, Owing(s, td, a)
  PROVE  Settling(PassOn(s, td), a)
<1>1. CASE td = {}
  <2>. DEFINE v == Idle(s + 1)
  <2>1. v.stage = s + 1 /\ v.step = "list" /\ PassOn(s, td) = v
    BY <1>1 DEF Idle, W, PassOn
  <2>2. \A j \in 1..5 : j > s => j > s + 1 \/ j = s + 1
    OBVIOUS
  <2>. HIDE DEF v
  <2>. QED
    BY <1>1, <2>1, <2>2 DEF Settling, Owing
<1>2. CASE td # {}
  <2>. DEFINE v == W(s, "count", td, << >>, 0)
  <2>1. v.stage = s /\ v.todo = td /\ PassOn(s, td) = v
    BY <1>2 DEF W, PassOn
  <2>. HIDE DEF v
  <2>. QED
    BY <2>1 DEF Settling, Owing, InHand
<1>. QED
  BY <1>1, <1>2

LEMMA AtHandSettles ==
  ASSUME NEW s \in 1..5, NEW step, NEW td, NEW e, e # << >>, NEW n, NEW a, Owing(s, td \cup {e}, a)
  PROVE  Settling(W(s, step, td, e, n), a)
<1>. DEFINE v == W(s, step, td, e, n)
<1>1. v.stage = s /\ v.todo = td /\ v.now = e
  BY DEF W
<1>. HIDE DEF v
<1>2. Settling(v, a)
  BY <1>1 DEF Settling, Owing, InHand
<1>. QED
  BY <1>2 DEF v

\* A move that does not fail leaves no debt out.
LEMMA MovesSettle ==
  ASSUME Books, OnRecord, NoneLeft, Grows, NEW g \in Gateways, NEW failed, ~ failed,
         BackfillMoves(g, failed), NEW a \in due[g]
  PROVE  Settling(work'[g], a)
<1>. DEFINE w == work[g]
            s == w.stage
<1>1. w \in Work /\ WorkFits(w) /\ s \in 1..5 /\ a \in Artifacts /\ stored[a] # Absent
  BY DEF Books, WorkTyped, BackfillMoves, Ghosts, NoneLeft, Owed
<1>2. \A v : Set(g, v) => work'[g] = v
  BY DEF Set, Books, WorkTyped
<1>3. Covered(a, 1) => CoveredThen(a, 1)
  BY <1>1, TablesOfArtifact, GrowsCovers DEF Books
<1>4. \A j \in 1..5 : kind[a] = Stages[j] =>
        \/ j > s \/ (j = s /\ w.step = "list")
        \/ CoveredThen(a, 1)
        \/ (j = s /\ \E e \in InHand(w) : e.art = a)
  BY <1>3 DEF NoneLeft, Owed, Settles
<1>. HIDE DEF w
<1>5. CASE MoveList(g)
  <2>1. PICK docs : Lists(Stages[s], docs) /\ Set(g, PassOn(s, docs))
    BY <1>5 DEF MoveList, w
  <2>2. InHand(w) = {}
    BY <1>1, <1>5 DEF MoveList, WorkFits, InHand, w
  <2>3. kind[a] = Stages[s] => \E e \in docs : e.art = a
    BY <1>1, <2>1 DEF Lists
  <2>4. Owing(s, docs, a)
    BY <1>4, <2>2, <2>3 DEF Owing
  <2>. HIDE DEF s
  <2>. QED
    BY <1>1, <1>2, <2>1, <2>4, PassOnSettles
<1>6. CASE MovePass(g, failed)
  <2>1. PICK e \in w.todo : /\ Set(g, PassOn(s, w.todo \ {e}))
                            /\ Filled(e.art, 1) /\ w.step = "count"
    BY <1>6 DEF MovePass, w
  <2>2. InHand(w) = w.todo
    BY <1>1, <2>1 DEF WorkFits, InHand
  <2>3. Owing(s, w.todo \ {e}, a)
    BY <1>3, <1>4, <2>1, <2>2 DEF Owing, Covered
  <2>. HIDE DEF s
  <2>. QED
    BY <1>1, <1>2, <2>1, <2>3, PassOnSettles
<1>7. CASE MoveTake(g)
  <2>1. w.step = "count"
    BY <1>7 DEF MoveTake, w
  <2>2. PICK e \in w.todo, step \in {"get", "insert"} : Set(g, W(s, step, w.todo \ {e}, e, 1))
    BY <1>7 DEF MoveTake, w
  <2>3. InHand(w) = (w.todo \ {e}) \cup {e}
    BY <1>1, <2>1, <2>2 DEF WorkFits, InHand
  <2>4. e # << >>
    BY <1>1, RecordsAreSomething DEF Work
  <2>5. Owing(s, (w.todo \ {e}) \cup {e}, a)
    BY <1>4, <2>1, <2>3 DEF Owing
  <2>. HIDE DEF s
  <2>6. Settling(W(s, step, w.todo \ {e}, e, 1), a)
    BY <1>1, <2>4, <2>5, AtHandSettles
  <2>. QED
    BY <1>2, <2>2, <2>6
<1>8. CASE MoveGet(g)
  <2>. DEFINE e == WithContent(w.now)
  <2>1. w.step = "get" /\ Set(g, W(s, "insert", w.todo, e, 1))
    BY <1>8 DEF MoveGet, w
  <2>2. InHand(w) \subseteq w.todo \cup {w.now}
    BY DEF InHand
  <2>3. e.art = w.now.art
    BY DEF WithContent
  <2>4. e # << >>
    <3>1. w.now \in Entry /\ Fits(w.now, s)
      BY <1>1, <2>1, InHandFits DEF WorkFits
    <3>2. stored[w.now.art] \in Document /\ w.now.art \in Artifacts /\ w.now.d.meta \in Metas
      BY <3>1 DEF Fits, Entry, Books, StoreTyped
    <3>3. e \in Entry
      BY <3>2 DEF WithContent, Entry, Document
    <3>. QED
      BY <3>3, RecordsAreSomething
  <2>. HIDE DEF e, s
  <2>5. Owing(s, w.todo \cup {e}, a)
    BY <1>4, <2>1, <2>2, <2>3 DEF Owing
  <2>6. Settling(W(s, "insert", w.todo, e, 1), a)
    BY <1>1, <2>4, <2>5, AtHandSettles
  <2>. QED
    BY <1>2, <2>1, <2>6
<1>9. CASE MoveInsert(g, failed)
  <2>. DEFINE b == w.now.art
  <2>1. w.step = "insert" /\ w.now # << >>
    BY <1>1, <1>9 DEF MoveInsert, WorkFits, w
  <2>2. InHand(w) = w.todo \cup {w.now}
    BY <2>1 DEF InHand
  <2>3. CoveredThen(b, 1)
    <3>1. Displayed(b, w.batch, w.now.d)
      BY <1>9 DEF MoveInsert, w
    <3>2. b \in Artifacts /\ w.batch \in 1..Last(b) /\ 1 \in 1..Last(b) /\ Last(b) \in 1..3
      BY <2>1, AtInsert, TablesOfArtifact DEF Books, w
    <3>3. CASE w.batch = 1
      <4>1. w.now.d \in Document
        BY <1>1, <2>1 DEF WorkFits
      <4>2. w.now.d.content # "none"
        BY <4>1, IndexAssumption DEF Document
      <4>3. Known(b, w.now.d.content)
        BY <2>1, <4>2 DEF OnRecord, KnownInHand, InHandKnown, InHand, w
      <4>. QED
        BY <3>1, <3>2, <3>3, <4>3, DisplayedCovers DEF Grows
    <3>4. CASE w.batch > 1
      <4>1. Covered(b, 1)
        BY <2>1, <3>4 DEF NoneLeft, Fills, BackfillFirst, w
      <4>. QED
        BY <3>2, <4>1, GrowsCovers
    <3>. QED
      BY <3>2, <3>3, <3>4
  <2>4. Owing(s, w.todo, a)
    BY <1>4, <2>1, <2>2, <2>3 DEF Owing
  <2>5. Owing(s, w.todo \cup {w.now}, a)
    BY <2>4 DEF Owing
  <2>6. CASE Set(g, PassOn(s, w.todo))
    <3>. HIDE DEF s
    <3>. QED
      BY <1>1, <1>2, <2>4, <2>6, PassOnSettles
  <2>7. CASE Set(g, W(s, "insert", w.todo, w.now, w.batch + 1))
    <3>. HIDE DEF s
    <3>1. Settling(W(s, "insert", w.todo, w.now, w.batch + 1), a)
      BY <1>1, <2>1, <2>5, AtHandSettles
    <3>. QED
      BY <1>2, <2>7, <3>1
  <2>. QED
    BY <1>9, <2>6, <2>7 DEF MoveInsert, w
<1>. QED
  BY <1>5, <1>6, <1>7, <1>8, <1>9 DEF BackfillMoves

LEMMA PassOnIsNoInsert == \A s, td : PassOn(s, td).step # "insert"
BY DEF PassOn, Idle, W

\* Moves that insert nothing.
LEMMA ReadingKeepsNoneLeft ==
  ASSUME Books, OnRecord, NoneLeft, NEW g \in Gateways, NEW failed, BackfillMoves(g, failed),
         work[g].step # "insert"
  PROVE  NoneLeft'
<1>1. /\ UNCHANGED <<kind, stored, doc, next, index, unfit>> /\ torn \subseteq torn'
      /\ due' = IF failed THEN [due EXCEPT ![g] = {}] ELSE due
  BY DEF BackfillMoves, Frame, MoveList, MovePass, MoveTake, MoveGet, MoveInsert
<1>2. Grows /\ Keeps /\ \A a : FilledThen(a, 1) => Filled(a, 1)
  BY <1>1, IdleGrows DEF Keeps
<1>3. PICK v : Set(g, v) /\ (v.step = "insert" => v.batch = 1)
  <2>1. \A s, step, td, e, n : W(s, step, td, e, n).batch = n
    BY DEF W
  <2>2. CASE MoveList(g)
    BY <2>2, PassOnIsNoInsert DEF MoveList
  <2>3. CASE MovePass(g, failed)
    BY <2>3, PassOnIsNoInsert DEF MovePass
  <2>4. CASE MoveTake(g)
    BY <2>1, <2>4 DEF MoveTake
  <2>5. CASE MoveGet(g)
    BY <2>1, <2>5 DEF MoveGet
  <2>. QED
    BY <2>2, <2>3, <2>4, <2>5 DEF BackfillMoves, MoveInsert
<1>4. work'[g] = v /\ \A h \in Gateways \ {g} : work'[h] = work[h]
  BY <1>3 DEF Set, Books, WorkTyped
<1>5. ImportFills'
  BY <1>1, <1>2, ImportFillsKept DEF NoneLeft, Fills
<1>6. BackfillFills' /\ BackfillFirst'
  <2>1. \A h \in Gateways : work'[h].step = "insert" => work'[h].batch = 1 \/ work'[h] = work[h]
    BY <1>3, <1>4
  <2>. QED
    BY <1>2, <2>1, BackfillFillsKept DEF NoneLeft, Fills
<1>7. ASSUME NEW a \in Artifacts PROVE Reason(a)'
  <2>1. \A i \in Imports : Of(i, a) => Of(i, a)'
    BY <1>1 DEF Of
  <2>2. \A h \in Gateways : Later(h, a) => Later(h, a)'
    BY <1>4 DEF Later
  <2>. QED
    BY <1>2, <2>1, <2>2, ReasonKept DEF NoneLeft, Reasons
<1>8. Owed'
  <2>1. ASSUME NEW h \in Gateways, h # g PROVE work'[h] = work[h] /\ due'[h] = due[h]
    BY <1>1, <1>4, <2>1 DEF Books, Ghosts
  <2>2. ASSUME NEW a \in due'[g] PROVE a \in Artifacts /\ stored[a] # Absent /\ Settling(work'[g], a)
    <3>1. ~ failed /\ a \in due[g]
      BY <1>1, <2>2 DEF Books, Ghosts
    <3>. QED
      BY <1>2, <3>1, MovesSettle DEF NoneLeft, Owed, Books, Ghosts
  <2>. QED
    BY <1>2, <2>1, <2>2, OwedKept DEF NoneLeft
<1>. QED
  BY <1>5, <1>6, <1>7, <1>8 DEF NoneLeft, Fills, Reasons

\* The batch m of b.
LEMMA InsertingKeepsNoneLeft ==
  ASSUME Books, OnRecord, NoneLeft, NEW g \in Gateways, NEW failed, BackfillMoves(g, failed),
         work[g].step = "insert", NEW b, b = work[g].now.art, NEW m, m = work[g].batch
  PROVE  NoneLeft'
<1>1. /\ UNCHANGED <<kind, stored, doc, next, unfit>> /\ torn \subseteq torn'
      /\ due' = IF failed THEN [due EXCEPT ![g] = {}] ELSE due
      /\ MoveInsert(g, failed)
  BY DEF BackfillMoves, Frame, MoveList, MovePass, MoveTake, MoveGet
<1>2. b \in Artifacts /\ m \in 1..Last(b) /\ Last(b) \in 1..3 /\ 1 \in 1..Last(b)
  BY AtInsert, TablesOfArtifact DEF Books
<1>3. (Inserted(b, m) /\ Displayed(b, m, work[g].now.d)) \/ (failed /\ UNCHANGED index)
  BY <1>1 DEF MoveInsert
<1>14. Known(b, work[g].now.d.content)
  <2>1. work[g].now # << >> /\ work[g].now.d \in Document
    BY DEF Books, WorkTyped, WorkFits
  <2>2. work[g].now.d.content # "none"
    BY <2>1, IndexAssumption DEF Document
  <2>. QED
    BY <2>1, <2>2 DEF OnRecord, KnownInHand, InHandKnown, InHand
<1>4. failed => b \in torn'
  BY <1>1 DEF MoveInsert
<1>5. /\ Grows /\ Keeps /\ (CoveredThen(b, m) \/ (failed /\ b \in torn'))
      /\ \A a \in Artifacts \ {b} : FilledThen(a, 1) => Filled(a, 1)
  <2>1. Keeps
    BY <1>1 DEF Keeps
  <2>2. CASE Inserted(b, m) /\ Displayed(b, m, work[g].now.d)
    <3>1. CoveredThen(b, m)
      BY <1>1, <1>2, <1>14, <2>2, DisplayedCovers
    <3>. QED
      BY <1>1, <1>2, <2>1, <2>2, <3>1, InsertGrows DEF Books
  <2>3. CASE failed /\ UNCHANGED index
    BY <1>1, <1>4, <2>1, <2>3, IdleGrows
  <2>. QED
    BY <1>3, <2>2, <2>3
<1>. DEFINE Full == Filled(b, 1) \/ ~ Takes(TableOf(b, 1), work[g].now.d.content)
<1>6. PICK v : /\ Set(g, v)
               /\ \/ v.step # "insert" /\ (failed \/ m = Last(b) \/ (m = 1 /\ Full))
                  \/ /\ v.step = "insert" /\ v.now = work[g].now /\ v.batch = m + 1
                     /\ failed => m # 1
  <2>1. \A s, step, td, e, n :
          LET c == W(s, step, td, e, n) IN c.step = step /\ c.now = e /\ c.batch = n
    BY DEF W
  <2>. QED
    BY <1>1, <2>1, PassOnIsNoInsert DEF MoveInsert
<1>7. work'[g] = v /\ \A h \in Gateways \ {g} : work'[h] = work[h]
  BY <1>6 DEF Set, Books, WorkTyped
<1>8. ImportFills'
  BY <1>1, <1>5, ImportFillsKept DEF NoneLeft, Fills
<1>9. BackfillFills' /\ BackfillFirst'
  <2>1. m = 1 /\ ~ failed => CoveredThen(b, 1)
    BY <1>5
  <2>2. \A h \in Gateways \ {g} : work'[h] = work[h]
    BY <1>7
  <2>3. work'[g].step = "insert" =>
          /\ work'[g].now = work[g].now /\ work'[g].batch = m + 1
          /\ m = 1 => CoveredThen(b, 1)
    BY <1>6, <1>7, <2>1
  <2>. QED
    BY <1>5, <2>2, <2>3, BackfillFillsKept DEF NoneLeft, Fills
<1>10. ASSUME NEW a \in Artifacts, FilledThen(a, 1) => Filled(a, 1), m = 1 \/ a # b PROVE Reason(a)'
  <2>1. \A i \in Imports : Of(i, a) => Of(i, a)'
    BY <1>1 DEF Of
  <2>2. ~ Later(g, a)
    BY <1>10 DEF Later
  <2>3. \A h \in Gateways : Later(h, a) => Later(h, a)'
    BY <1>7, <2>2 DEF Later
  <2>. QED
    BY <1>5, <1>10, <2>1, <2>3, ReasonKept DEF NoneLeft, Reasons
<1>11. Reason(b)'
  <2>1. CASE failed
    BY <1>4, <2>1 DEF Reason
  <2>2. CASE v.step = "insert"
    <3>1. m + 1 > 1
      BY <1>2
    <3>2. Later(g, b)'
      BY <1>6, <1>7, <2>2, <3>1 DEF Later
    <3>. QED
      BY <3>2 DEF Reason
  <2>3. CASE m = Last(b) /\ b \notin torn'
    <3>1. b \notin torn
      BY <1>1, <2>3
    <3>2. \A n \in 1..(m - 1) : Covered(b, n)
      BY <3>1 DEF NoneLeft, Fills, BackfillFills
    <3>3. \A n \in 1..Last(b) : n \in 1..(m - 1) \/ n = m
      BY <1>2, <2>3
    <3>4. \A n \in 1..(m - 1) : n \in 1..Last(b)
      BY <1>2
    <3>5. \A n \in 1..Last(b) : CoveredThen(b, n)
      BY <1>2, <1>5, <2>3, <3>2, <3>3, <3>4, GrowsCovers
    <3>. QED
      BY <1>1, <3>5, CoveredPrimed DEF Reason, AllCovered
  <2>4. CASE m = 1 /\ Filled(b, 1)
    BY <1>2, <1>10, <2>4
  <2>6. CASE m = 1 /\ ~ Takes(TableOf(b, 1), work[g].now.d.content)
    <3>1. <<b, 1>> \in unfit
      BY <1>2, <1>14, <2>6 DEF Known
    <3>. QED
      BY <1>1, <3>1 DEF Reason
  <2>5. CASE b \in torn'
    BY <2>5 DEF Reason
  <2>. QED
    BY <1>6, <2>1, <2>2, <2>3, <2>4, <2>5, <2>6
<1>12. Reasons'
  BY <1>5, <1>10, <1>11 DEF Reasons
<1>13. Owed'
  <2>1. ASSUME NEW h \in Gateways, h # g PROVE work'[h] = work[h] /\ due'[h] = due[h]
    BY <1>1, <1>7, <2>1 DEF Books, Ghosts
  <2>2. ASSUME NEW a \in due'[g] PROVE a \in Artifacts /\ stored[a] # Absent /\ Settling(work'[g], a)
    <3>1. ~ failed /\ a \in due[g]
      BY <1>1, <2>2 DEF Books, Ghosts
    <3>. QED
      BY <1>5, <3>1, MovesSettle DEF NoneLeft, Owed, Books, Ghosts
  <2>. QED
    BY <1>5, <2>1, <2>2, OwedKept DEF NoneLeft
<1>. QED
  BY <1>8, <1>9, <1>12, <1>13 DEF NoneLeft, Fills

LEMMA MovesKeepNoneLeft ==
  ASSUME Books, OnRecord, NoneLeft, NEW g \in Gateways, NEW failed, BackfillMoves(g, failed)
  PROVE  NoneLeft'
BY ReadingKeepsNoneLeft, InsertingKeepsNoneLeft

LEMMA StartKeepsNoneLeft ==
  ASSUME Books, NoneLeft, NEW g \in Gateways, work[g] = Off, BackfillStart(g)
  PROVE  NoneLeft'
<1>1. /\ Set(g, Idle(1)) /\ due' = [due EXCEPT ![g] = {a \in Artifacts : stored[a] # Absent}]
      /\ UNCHANGED <<kind, stored, index, doc, host, next, failures, unsettled, torn, unfit>>
  BY IdleStages DEF BackfillStart
<1>2. Grows /\ Keeps /\ \A a : FilledThen(a, 1) => Filled(a, 1)
  BY <1>1, IdleGrows DEF Keeps
<1>3. /\ \A s : Idle(s).stage = s /\ Idle(s).step = "list"
      /\ work[g] = Idle(0)
  BY IdleStages DEF Idle, W
<1>4. work'[g] = Idle(1) /\ \A h \in Gateways \ {g} : work'[h] = work[h]
  BY <1>1 DEF Set, Books, WorkTyped
<1>5. ImportFills'
  BY <1>1, <1>2, ImportFillsKept DEF NoneLeft, Fills
<1>6. BackfillFills' /\ BackfillFirst'
  <2>1. \A h \in Gateways : work'[h].step = "insert" => work'[h] = work[h]
    BY <1>3, <1>4
  <2>. QED
    BY <1>2, <2>1, BackfillFillsKept DEF NoneLeft, Fills
<1>7. ASSUME NEW a \in Artifacts PROVE Reason(a)'
  <2>1. \A i \in Imports : Of(i, a) => Of(i, a)'
    BY <1>1 DEF Of
  <2>2. \A h \in Gateways : Later(h, a) => Later(h, a)'
    BY <1>3, <1>4 DEF Later
  <2>. QED
    BY <1>2, <2>1, <2>2, ReasonKept DEF NoneLeft, Reasons
<1>8. Owed'
  <2>1. ASSUME NEW h \in Gateways, h # g PROVE work'[h] = work[h] /\ due'[h] = due[h]
    BY <1>1, <1>4, <2>1 DEF Books, Ghosts
  <2>2. due'[g] = {a \in Artifacts : stored[a] # Absent}
    BY <1>1 DEF Books, Ghosts
  <2>3. \A a : Settling(work'[g], a)
    <3>1. \A j \in 1..5 : j > 1 \/ j = 1
      OBVIOUS
    <3>. QED
      BY <1>3, <1>4, <3>1 DEF Settling
  <2>. QED
    BY <1>2, <2>1, <2>2, <2>3, OwedKept DEF NoneLeft
<1>. QED
  BY <1>5, <1>6, <1>7, <1>8 DEF NoneLeft, Fills, Reasons

LEMMA KillKeepsNoneLeft ==
  ASSUME Books, NoneLeft, NEW g \in Gateways, Kill(g)
  PROVE  NoneLeft'
<1>. DEFINE cut == {i \in Imports : Importing(i) /\ host[i] = g}
            half == IF work[g].step = "insert" THEN {Now(g).art} ELSE {}
<1>1. /\ Set(g, Idle(0)) /\ UNCHANGED <<kind, stored, index, unfit>> /\ due' = [due EXCEPT ![g] = {}]
      /\ torn' = torn \cup half \cup {doc[i].art : i \in cut}
  BY IdleStages DEF Kill
<1>2. /\ doc' = [i \in Imports |-> IF i \in cut THEN << >> ELSE doc[i]]
      /\ next' = [i \in Imports |-> IF i \in cut THEN Done ELSE next[i]]
  BY DEF Kill
<1>3. \A a : Later(g, a) => a \in half
  BY DEF Later, Now
<1>. HIDE DEF cut, half
<1>4. Grows /\ Keeps /\ \A a : FilledThen(a, 1) => Filled(a, 1)
  BY <1>1, IdleGrows DEF Keeps
<1>5. Idle(0).step = "list"
  BY DEF Idle, W
<1>6. work'[g] = Idle(0) /\ \A h \in Gateways \ {g} : work'[h] = work[h]
  BY <1>1 DEF Set, Books, WorkTyped
<1>7. ImportFills'
  <2>1. \A i \in Imports : doc'[i] # << >> => doc'[i] = doc[i] /\ next'[i] = next[i]
    BY <1>2
  <2>. QED
    BY <1>4, <2>1, ImportFillsKept DEF NoneLeft, Fills
<1>8. BackfillFills' /\ BackfillFirst'
  <2>1. \A h \in Gateways : work'[h].step = "insert" => work'[h] = work[h]
    BY <1>5, <1>6
  <2>. QED
    BY <1>4, <2>1, BackfillFillsKept DEF NoneLeft, Fills
<1>9. ASSUME NEW a \in Artifacts PROVE Reason(a)'
  <2>1. \A i \in Imports : Of(i, a) => Of(i, a)' \/ a \in torn'
    BY <1>1, <1>2 DEF Of
  <2>2. \A h \in Gateways : Later(h, a) => Later(h, a)' \/ a \in torn'
    BY <1>1, <1>3, <1>6 DEF Later
  <2>. QED
    BY <1>4, <2>1, <2>2, ReasonKept DEF NoneLeft, Reasons
<1>10. Owed'
  <2>1. ASSUME NEW h \in Gateways, h # g PROVE work'[h] = work[h] /\ due'[h] = due[h]
    BY <1>1, <1>6, <2>1 DEF Books, Ghosts
  <2>2. due'[g] = {}
    BY <1>1 DEF Books, Ghosts
  <2>. QED
    BY <1>4, <2>1, <2>2, OwedKept DEF NoneLeft
<1>. QED
  BY <1>7, <1>8, <1>9, <1>10 DEF NoneLeft, Fills, Reasons

LEMMA NoneLeftStutter ==
  ASSUME Books, NoneLeft, UNCHANGED indexVars
  PROVE  NoneLeft'
<1>1. Keeps
  BY DEF Keeps, indexVars
<1>. QED
  BY <1>1, OtherKeepsNoneLeft DEF indexVars

LEMMA NoneLeftStep == Books /\ OnRecord /\ NoneLeft /\ [IndexNext]_indexVars => NoneLeft'
BY IndexCases, StartKeepsNoneLeft, KillKeepsNoneLeft, MovesKeepNoneLeft, StoringKeepsNoneLeft,
   IndexingKeepsNoneLeft, NoneLeftStutter

LEMMA NoneLeftInit == IndexInit => NoneLeft
<1>. SUFFICES ASSUME IndexInit PROVE NoneLeft
  OBVIOUS
<1>1. Fills
  <2>1. \A g \in Gateways : work[g].step = "list"
    BY DEF IndexInit, Off
  <2>. QED
    BY <2>1 DEF IndexInit, Fills, ImportFills, BackfillFills, BackfillFirst
<1>2. Reasons
  <2>1. StoreTyped
    BY BooksInit DEF Books
  <2>2. \A a \in Artifacts : TableOf(a, 1) \in TableNames
    BY <2>1, TablesOfArtifact
  <2>. QED
    BY <2>2 DEF IndexInit, Reasons, Reason, Filled
<1>3. Owed
  BY DEF IndexInit, Owed
<1>. QED
  BY <1>1, <1>2, <1>3 DEF NoneLeft

LEMMA NoneLeftGives == Books /\ NoneLeft => BackfillFillsFitting
<1>. SUFFICES ASSUME Books, NoneLeft, NEW g \in Gateways, work[g] = Finished,
                     NEW a \in due[g], Backfilled(a), <<a, 1>> \notin unfit
              PROVE  Filled(a, 1) /\ (a \in torn \/ Busy(a) \/ AllCovered(a))
  BY DEF BackfillFillsFitting, Filled, AllCovered, Covered
<1>1. a \in Artifacts
  BY DEF Books, Ghosts
<1>2. work[g].stage = 6
  <2>1. Finished = Idle(5 + 1)
    BY StagesAre, IdleStages DEF Finished
  <2>. QED
    BY <2>1 DEF Idle, W
<1>3. PICK j \in 1..5 : kind[a] = Stages[j]
  BY StagesAre DEF Backfilled
<1>4. Settles(work[g], a)
  BY DEF NoneLeft, Owed
<1>5. Filled(a, 1)
  BY <1>2, <1>3, <1>4 DEF Settles, Covered
<1>6. ASSUME NEW i \in Imports, Of(i, a) PROVE Busy(a)
  BY <1>6, ImportHas DEF Books, Of, Busy
<1>7. ASSUME NEW h \in Gateways, Later(h, a) PROVE Busy(a)
  <2>1. work[h].now # << >>
    BY <1>7 DEF Later, Books, WorkTyped, WorkFits
  <2>. QED
    BY <1>7, <2>1 DEF Later, Busy, Backfilling
<1>. QED
  BY <1>1, <1>5, <1>6, <1>7 DEF NoneLeft, Reasons, Reason

-------------------------------------------------------------------------------
\* The inductive invariant.
CatalogIInv == Books /\ QuietInv /\ OnRecord /\ NoneLeft

LEMMA CatalogIInvInit == IndexInit => CatalogIInv
BY BooksInit, QuietInit, OnRecordInit, NoneLeftInit DEF CatalogIInv

LEMMA CatalogIInvStep == CatalogIInv /\ [IndexNext]_indexVars => CatalogIInv'
BY BooksStep, QuietStep, OnRecordStep, NoneLeftStep DEF CatalogIInv

LEMMA CatalogIInvGives ==
  CatalogIInv => IndexInv /\ QuietIndexAgrees /\ BackfillFillsFitting
BY BooksGiveInv, QuietGives, NoneLeftGives DEF CatalogIInv
===============================================================================
