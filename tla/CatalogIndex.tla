----------------------------- MODULE CatalogIndex -----------------------------
(***************************************************************************)
(* Imported documents and the tables that index them.  An import stores    *)
(* the document and then inserts the rows it parses to, table by table     *)
(* (handlers_import.go, handlers_catalogs.go); at startup every gateway    *)
(* runs a backfill for the documents that have no rows (populate.go).      *)
(*                                                                         *)
(* Every statement and every batch of rows is a transaction of its own;    *)
(* imports and backfills of all gateways interleave.  A row is a key, the  *)
(* content it was parsed from, and what it has from outside the content.   *)
(* A document may have no rows for a table, and the same key twice.        *)
(***************************************************************************)
EXTENDS Deployment, Naturals, Sequences

CONSTANTS Artifacts,    \* ids of documents
          Contents,     \* what a document may say
          Items,        \* content -> table -> the keys of its rows
          Repeats,      \* content -> the tables for which it has a key twice
          Metas,        \* policy_id of a catalog, framework of a mapping
          Earlier,      \* documents that may be stored before the gateways start
          Documents,    \* documents that are imported
          Imports,      \* imports, each made once
          NoGateway,    \* an import that was not made yet
          MaxFailures   \* bound: statements that fail

ASSUME IndexAssumption ==
  /\ "none" \in Metas /\ "none" \notin Contents
  /\ Documents \cup Earlier \subseteq [content : Contents, meta : Metas]
  /\ NoGateway \notin Gateways /\ MaxFailures \in Nat

VARIABLES kind,      \* artifact -> its type, for good
          stored,    \* artifact -> its document, in the table of its kind
          index,     \* table -> artifact -> its rows
          doc,       \* import -> the document it brings
          host,      \* import -> the gateway that handles it
          next,      \* import -> the table it is at; past the last, it is done
          work,      \* gateway -> where its backfill is
          failures,  \* failures so far
          unsettled, \* ghost: artifacts whose last import was disturbed
          torn,      \* ghost: artifacts some of whose rows failed to be written
          unfit,     \* ghost: tables that did not take some version of an artifact
          due        \* ghost: gateway -> what an undisturbed backfill owes

indexVars == <<kind, stored, index, doc, host, next, work, failures, unsettled, torn, unfit, due>>
ghosts == <<unsettled, torn, unfit, due>>

\* The tables of each kind, in the order in which they are filled; the first one
\* tells the backfill whether there is anything to do.
Tables == [ControlCatalog  |-> <<"controls", "assessment_requirements", "control_threats">>,
           ThreatCatalog   |-> <<"threats">>,
           RiskCatalog     |-> <<"risks", "risk_threats">>,
           GuidanceCatalog |-> <<"guidance_entries">>,
           MappingDocument |-> <<"mapping_entries">>,
           Policy          |-> <<"controls", "assessment_requirements">>]
Kinds == DOMAIN Tables
TableNames == UNION {{Tables[k][n] : n \in DOMAIN Tables[k]} : k \in Kinds}

Document == [content : Contents, meta : Metas]
Absent == [content |-> "none", meta |-> "none"]

\* requirement is the content that the requirement_id of a mapping entry is from;
\* with all other rows it is content.
Row == [key : UNION {Items[c][t] : c \in Contents, t \in TableNames},
        content : Contents, requirement : Contents, meta : Metas \cup {"none"}]

-------------------------------------------------------------------------------
\* Parsers: the rows of a document, by table.

RowsOf(table, d, meta) ==
  {[key |-> k, content |-> d.content, requirement |-> d.content, meta |-> meta] :
     k \in Items[d.content][table]}

ParseControlCatalog(d) ==
  [controls |-> RowsOf("controls", d, d.meta),
   assessment_requirements |-> RowsOf("assessment_requirements", d, "none"),
   control_threats |-> RowsOf("control_threats", d, "none")]
ParseThreatCatalog(d) == [threats |-> RowsOf("threats", d, d.meta)]
ParseRiskCatalog(d) ==
  [risks |-> RowsOf("risks", d, d.meta), risk_threats |-> RowsOf("risk_threats", d, "none")]
ParseGuidanceCatalog(d) == [guidance_entries |-> RowsOf("guidance_entries", d, "none")]
ParseMappingEntries(d) == [mapping_entries |-> RowsOf("mapping_entries", d, d.meta)]
\* The policy_id of the controls of a policy is the policy's own id.
ExtractPolicyCriteria(d) ==
  [controls |-> RowsOf("controls", d, "none"),
   assessment_requirements |-> RowsOf("assessment_requirements", d, "none")]

Parse(k, d) ==
  CASE k = "ControlCatalog" -> ParseControlCatalog(d)
    [] k = "ThreatCatalog" -> ParseThreatCatalog(d)
    [] k = "RiskCatalog" -> ParseRiskCatalog(d)
    [] k = "GuidanceCatalog" -> ParseGuidanceCatalog(d)
    [] k = "MappingDocument" -> ParseMappingEntries(d)
    [] k = "Policy" -> ExtractPolicyCriteria(d)

-------------------------------------------------------------------------------
\* Batches of rows, each one transaction: what the table holds afterwards.

Keys(rows) == {r.key : r \in rows}
Clash(old, new) == Keys(old) \cap Keys(new) # {}

KeyTwice(table, rows) == \E r \in rows : table \in Repeats[r.content]

\* ON CONFLICT DO UPDATE of all columns.  Rows that the new content does not have
\* are left alone.
Overlay(old, new) == {r \in old : r.key \notin Keys(new)} \cup new

\* A plain INSERT: one row whose key is taken, by a row of the table or of the
\* batch itself, undoes the whole batch.
AddAll(table, old, new) ==
  IF Clash(old, new) \/ KeyTwice(table, new) THEN old ELSE old \cup new

InsertControls(old, new) == Overlay(old, new)
InsertAssessmentRequirements(old, new) == Overlay(old, new)
InsertControlThreats(old, new) == AddAll("control_threats", old, new)
InsertThreats(old, new) == AddAll("threats", old, new)
InsertRisks(old, new) == AddAll("risks", old, new)
InsertRiskThreats(old, new) == AddAll("risk_threats", old, new)
InsertGuidanceEntries(old, new) == Overlay(old, new)

\* The upsert of mapping entries sets strength and confidence only: framework and
\* requirement_id stay as the row was first inserted.
InsertMappingEntries(old, new) ==
  LET stay == {r \in new : \E o \in old : o.key = r.key}
      first(r) == CHOOSE o \in old : o.key = r.key
  IN {r \in old : r.key \notin Keys(new)} \cup (new \ stay)
       \cup {[first(r) EXCEPT !.content = r.content] : r \in stay}

Plain == {"control_threats", "threats", "risks", "risk_threats"}

Batch(table, old, new) ==
  CASE table = "controls" -> InsertControls(old, new)
    [] table = "assessment_requirements" -> InsertAssessmentRequirements(old, new)
    [] table = "control_threats" -> InsertControlThreats(old, new)
    [] table = "threats" -> InsertThreats(old, new)
    [] table = "risks" -> InsertRisks(old, new)
    [] table = "risk_threats" -> InsertRiskThreats(old, new)
    [] table = "guidance_entries" -> InsertGuidanceEntries(old, new)
    [] table = "mapping_entries" -> InsertMappingEntries(old, new)

Refused(table, old, new) == table \in Plain /\ (Clash(old, new) \/ KeyTwice(table, new))

\* The n-th batch of document d of artifact a.
TableOf(a, n) == Tables[kind[a]][n]
RowsFor(a, n, d) == Parse(kind[a], d)[TableOf(a, n)]
InsertRows(a, n, d) ==
  index' = [index EXCEPT ![TableOf(a, n)][a] = Batch(TableOf(a, n), @, RowsFor(a, n, d))]

Done == 1 + 3   \* past the tables of every kind
Last(a) == Len(Tables[kind[a]])

\* A table, when it is empty, has rows after a batch of rows of content c; and the
\* tables of a of which this is not true.
Takes(table, c) == Items[c][table] # {} /\ ~(table \in Plain /\ table \in Repeats[c])
Unfit(a, c) == {<<a, n>> : n \in {m \in 1..Last(a) : ~Takes(TableOf(a, m), c)}}

-------------------------------------------------------------------------------
\* Backfill stages and positions.

Stages == <<"MappingDocument", "ControlCatalog", "ThreatCatalog", "RiskCatalog", "Policy">>
Off == [stage |-> 0, step |-> "list", todo |-> {}, now |-> << >>, batch |-> 0]
Finished == [Off EXCEPT !.stage = Len(Stages) + 1]

\* A policy has no attribute besides its content.
Admit(a, docs) == IF kind[a] = "Policy" THEN {[d EXCEPT !.meta = "none"] : d \in docs} ELSE docs
Brought(a) == Admit(a, Documents)

IndexInit ==
  /\ kind \in [Artifacts -> Kinds]
  /\ stored \in {f \in [Artifacts -> Document \cup {Absent}] :
                  \A a \in Artifacts : f[a] \in Admit(a, Earlier) \cup {Absent}}
  /\ index = [t \in TableNames |-> [a \in Artifacts |-> {}]]
  /\ doc = [i \in Imports |-> << >>]
  /\ host = [i \in Imports |-> NoGateway]
  /\ next = [i \in Imports |-> 0]
  /\ work = [g \in Gateways |-> Off]
  /\ failures = 0
  /\ unsettled = Artifacts /\ torn = {}
  /\ unfit = UNION {Unfit(a, stored[a].content) : a \in {b \in Artifacts : stored[b] # Absent}}
  /\ due = [g \in Gateways |-> {}]

Importing(i) == next[i] > 0 /\ doc[i] # << >>
Backfilling(g, a) == \E e \in work[g].todo \cup {work[g].now} : e # << >> /\ e.art = a
Busy(a) == \/ \E i \in Imports : Importing(i) /\ doc[i].art = a
           \/ \E g \in Gateways : Backfilling(g, a)

-------------------------------------------------------------------------------
\* Imports, by the ingest worker or a request to gateway g.

ImportDone(i) ==
  /\ doc' = [doc EXCEPT ![i] = << >>]
  /\ host' = [host EXCEPT ![i] = NoGateway]
  /\ next' = [next EXCEPT ![i] = Done]

StoreDocument(i, g, a, d) ==
  /\ next[i] = 0
  /\ stored' = [stored EXCEPT ![a] = d]
  /\ doc' = [doc EXCEPT ![i] = [art |-> a, d |-> d]]
  /\ host' = [host EXCEPT ![i] = g]
  /\ next' = [next EXCEPT ![i] = 1]
  /\ unsettled' = IF Busy(a) THEN unsettled \cup {a} ELSE unsettled \ {a}
  /\ unfit' = unfit \cup Unfit(a, d.content)
  /\ UNCHANGED <<kind, index, work, failures, torn, due>>

StorePolicy(i, g, a) ==
  /\ kind[a] = "Policy"
  /\ \E d \in Brought(a) : StoreDocument(i, g, a, d)

\* The framework of a mapping is its title, so it comes with the content.
StoreMapping(i, g, a) ==
  /\ kind[a] = "MappingDocument"
  /\ \E d \in Brought(a) : StoreDocument(i, g, a, d)

\* POST /api/catalogs/import may name a policy; the worker never does.
StoreCatalog(i, g, a) ==
  /\ kind[a] \notin {"Policy", "MappingDocument"}
  /\ \E d \in Brought(a) : StoreDocument(i, g, a, d)

\* The statement fails, and the import with it; or only its answer is lost.
StoreFails(i, g, a) ==
  /\ next[i] = 0
  /\ failures < MaxFailures /\ failures' = failures + 1
  /\ \/ UNCHANGED <<stored, unsettled, torn, unfit>>
     \/ /\ \E d \in Brought(a) :
             stored' = [stored EXCEPT ![a] = d] /\ unfit' = unfit \cup Unfit(a, d.content)
        /\ unsettled' = unsettled \cup {a} /\ torn' = torn \cup {a}
  /\ ImportDone(i)
  /\ UNCHANGED <<kind, index, work, due>>

Onward(i) ==
  IF next[i] = Last(doc[i].art) THEN ImportDone(i)
  ELSE next' = [next EXCEPT ![i] = @ + 1] /\ UNCHANGED <<doc, host>>

\* Mutated form: the rows of a document that has some are left alone.
IndexOnlyNew(i) ==
  /\ Importing(i)
  /\ IF index[TableOf(doc[i].art, next[i])][doc[i].art] = {}
     THEN InsertRows(doc[i].art, next[i], doc[i].d) ELSE UNCHANGED index
  /\ Onward(i)
  /\ UNCHANGED <<kind, stored, work, failures, ghosts>>

\* The next table.  A batch that is refused is logged, and the import goes on, as
\* it does when there are no rows.
IndexTable(i) ==
  /\ Importing(i)
  /\ InsertRows(doc[i].art, next[i], doc[i].d)
  /\ Onward(i)
  /\ UNCHANGED <<kind, stored, work, failures, ghosts>>

\* A batch fails, or its answer is lost.  Only the criteria of a policy stop at
\* the first table.
IndexFails(i) ==
  /\ Importing(i) /\ RowsFor(doc[i].art, next[i], doc[i].d) # {}
  /\ failures < MaxFailures /\ failures' = failures + 1
  /\ \/ UNCHANGED index
     \/ InsertRows(doc[i].art, next[i], doc[i].d)
  /\ IF kind[doc[i].art] = "Policy" THEN ImportDone(i) ELSE Onward(i)
  /\ unsettled' = unsettled \cup {doc[i].art}
  /\ torn' = torn \cup {doc[i].art}
  /\ UNCHANGED <<kind, stored, work, unfit, due>>

Import(i, g) ==
  \E a \in Artifacts : StorePolicy(i, g, a) \/ StoreMapping(i, g, a) \/ StoreCatalog(i, g, a)
                       \/ StoreFails(i, g, a)

-------------------------------------------------------------------------------
\* The backfill of gateway g: for each kind, list the documents, and for each of
\* them count its rows, get its content, and insert its rows.

Now(g) == work[g].now
Set(g, w) == work' = [work EXCEPT ![g] = w]

\* The loop goes on, or the next kind is due.
NextDocument(w) ==
  IF w.todo = {} THEN [Off EXCEPT !.stage = w.stage + 1]
  ELSE [w EXCEPT !.step = "count", !.now = << >>, !.batch = 0]

BackfillStart(g) ==
  /\ Set(g, [Off EXCEPT !.stage = 1])
  /\ due' = [due EXCEPT ![g] = {a \in Artifacts : stored[a] # Absent}]
  /\ UNCHANGED <<kind, stored, index, doc, host, next, failures, unsettled, torn, unfit>>

Listed(k) == {[art |-> a, d |-> stored[a]] : a \in {b \in Artifacts : kind[b] = k /\ stored[b] # Absent}}

\* Lists of catalogs and policies come without content.
ListAllMappings == Listed("MappingDocument")
ListCatalogs(k) == {[e EXCEPT !.d.content = "none"] : e \in Listed(k)}
ListPolicies == {[e EXCEPT !.d.content = "none"] : e \in Listed("Policy")}

ListDocuments(g, docs) ==
  /\ work[g].step = "list"
  /\ Set(g, NextDocument([work[g] EXCEPT !.todo = docs]))
  /\ UNCHANGED index

\* CountControls, CountThreats, CountRisks, CountMappingEntries: the rows of a in
\* the first table of its kind.
CountRows(a) == IF index[TableOf(a, 1)][a] = {} THEN 0 ELSE 1

\* A document that has rows is passed over.
CountFirst(g, step) ==
  /\ work[g].step = "count"
  /\ \E e \in work[g].todo :
       LET w == [work[g] EXCEPT !.todo = @ \ {e}] IN
       Set(g, IF CountRows(e.art) > 0 THEN NextDocument(w)
              ELSE [w EXCEPT !.step = step, !.now = e, !.batch = 1])
  /\ UNCHANGED index

\* GetCatalog, GetPolicy: the content of now, beside what was listed.
GetContent(g) ==
  /\ work[g].step = "get"
  /\ Set(g, [work[g] EXCEPT !.step = "insert", !.now.d.content = stored[Now(g).art].content])
  /\ UNCHANGED index

\* Mutated form: one batch to a document.
AfterBatchNext(g, failed) == NextDocument(work[g])

\* After the batch: a first batch that failed ends the document.
AfterBatch(g, failed) ==
  LET w == work[g] IN
  IF w.batch = Last(Now(g).art) \/ (failed /\ w.batch = 1) THEN NextDocument(w)
  ELSE [w EXCEPT !.batch = @ + 1]

InsertBatch(g) ==
  LET a == Now(g).art
      table == TableOf(a, work[g].batch)
  IN /\ work[g].step = "insert"
     /\ InsertRows(a, work[g].batch, Now(g).d)
     /\ Set(g, AfterBatch(g, Refused(table, index[table][a], RowsFor(a, work[g].batch, Now(g).d))))

Stage(g, k) == work[g].stage \in DOMAIN Stages /\ Stages[work[g].stage] = k

PopulateMappingEntries(g) ==
  /\ Stage(g, "MappingDocument")
  /\ ListDocuments(g, ListAllMappings) \/ CountFirst(g, "insert") \/ InsertBatch(g)

PopulateCatalogs(g, k) ==
  /\ Stage(g, k)
  /\ ListDocuments(g, ListCatalogs(k)) \/ CountFirst(g, "get") \/ GetContent(g) \/ InsertBatch(g)

PopulateControls(g) == PopulateCatalogs(g, "ControlCatalog")
PopulateThreats(g) == PopulateCatalogs(g, "ThreatCatalog")
PopulateRisks(g) == PopulateCatalogs(g, "RiskCatalog")

PopulatePolicyCriteria(g) ==
  /\ Stage(g, "Policy")
  /\ ListDocuments(g, ListPolicies) \/ CountFirst(g, "get") \/ GetContent(g) \/ InsertBatch(g)

\* One goroutine runs the stages in turn.  Effective controls come between risks
\* and policies, and never find a policy with imports: ListPolicies selects no
\* content.
Backfill(g) ==
  /\ \/ PopulateMappingEntries(g) \/ PopulateControls(g) \/ PopulateThreats(g)
     \/ PopulateRisks(g) \/ PopulatePolicyCriteria(g)
  /\ UNCHANGED <<kind, stored, doc, host, next, failures, ghosts>>

\* Mutated form: the error of the get is not looked at.
AfterErrorUnchecked(w) ==
  IF w.step = "get" THEN {[w EXCEPT !.step = "insert"]} ELSE {}

\* What an error of the statement leads to: the next kind, the next document, or
\* the next batch.  An error of the count is no reason to pass over a policy.
AfterError(w) ==
  CASE w.step = "list" -> {[Off EXCEPT !.stage = w.stage + 1]}
    [] w.step = "count" ->
         {IF Stages[w.stage] = "Policy"
          THEN [w EXCEPT !.step = "get", !.todo = @ \ {e}, !.now = e, !.batch = 1]
          ELSE NextDocument([w EXCEPT !.todo = @ \ {e}]) : e \in w.todo}
    [] w.step = "get" -> {NextDocument(w)}
    [] OTHER -> {}

BackfillFails(g) ==
  /\ work[g].stage \in DOMAIN Stages
  /\ failures < MaxFailures /\ failures' = failures + 1
  /\ \/ /\ \E w \in AfterError(work[g]) : Set(g, w)
        /\ UNCHANGED <<index, torn>>
     \/ /\ work[g].step = "insert" /\ RowsFor(Now(g).art, work[g].batch, Now(g).d) # {}
        /\ UNCHANGED index \/ InsertRows(Now(g).art, work[g].batch, Now(g).d)
        /\ Set(g, AfterBatch(g, TRUE))
        /\ torn' = torn \cup {Now(g).art}
  /\ due' = [due EXCEPT ![g] = {}]
  /\ UNCHANGED <<kind, stored, doc, host, next, unsettled, unfit>>

\* The process of g dies, and what it was at is not taken up again.
Kill(g) ==
  LET cut == {i \in Imports : Importing(i) /\ host[i] = g}
      half == IF work[g].step = "insert" THEN {Now(g).art} ELSE {}
  IN /\ doc' = [i \in Imports |-> IF i \in cut THEN << >> ELSE doc[i]]
     /\ host' = [i \in Imports |-> IF i \in cut THEN NoGateway ELSE host[i]]
     /\ next' = [i \in Imports |-> IF i \in cut THEN Done ELSE next[i]]
     /\ unsettled' = unsettled \cup {doc[i].art : i \in cut}
     /\ torn' = torn \cup half \cup {doc[i].art : i \in cut}
     /\ Set(g, Off)
     /\ due' = [due EXCEPT ![g] = {}]
     /\ UNCHANGED <<kind, stored, index, failures, unfit>>

\* What a serving gateway does with the index.
IndexStep(g) ==
  \/ \E i \in Imports : Import(i, g)
  \/ \E i \in Imports : host[i] = g /\ (IndexTable(i) \/ IndexFails(i))
  \/ Backfill(g)
  \/ BackfillFails(g)

-------------------------------------------------------------------------------
\* Properties.

IndexTypeOK ==
  /\ kind \in [Artifacts -> Kinds]
  /\ stored \in [Artifacts -> Document \cup {Absent}]
  /\ index \in [TableNames -> [Artifacts -> SUBSET Row]]
  /\ doc \in [Imports -> [art : Artifacts, d : Document] \cup {<< >>}]
  /\ host \in [Imports -> Gateways \cup {NoGateway}]
  /\ next \in [Imports -> 0..Done]
  /\ \A g \in Gateways : work[g].stage \in 0..(Len(Stages) + 1)
  /\ failures \in 0..MaxFailures
  /\ unsettled \subseteq Artifacts /\ torn \subseteq Artifacts
  /\ unfit \subseteq Artifacts \X (1..(Done - 1))
  /\ due \in [Gateways -> SUBSET Artifacts]

\* Types; rows are only in the tables of their artifact's kind, one row to a key,
\* for stored documents; and no backfill inserts rows of a document whose content
\* it has not got.
IndexInv ==
  /\ IndexTypeOK
  /\ \A t \in TableNames, a \in Artifacts :
       /\ index[t][a] # {} =>
            stored[a] # Absent /\ \E n \in 1..Last(a) : TableOf(a, n) = t
       /\ \A r, q \in index[t][a] : r.key = q.key => r = q
  /\ \A g \in Gateways : work[g].step = "insert" =>
       /\ Now(g).d \in Document /\ stored[Now(g).art] # Absent
       /\ kind[Now(g).art] = Stages[work[g].stage]

\* After the last import of a document, once it is over, nothing failed and no
\* older import or backfill was on its way, the tables that are upserted have the
\* rows of the stored content, for its policy, whichever backfills ran since
\* (handlers_import.go:119-202, populate.go).  Of a mapping entry that goes for
\* strength and confidence; framework and requirement_id may be older.
QuietIndexAgrees ==
  \A a \in Artifacts \ unsettled :
    (\A i \in Imports : Importing(i) => doc[i].art # a) =>
      \A n \in {m \in 1..Last(a) : TableOf(a, m) \notin Plain} :
        IF TableOf(a, n) = "mapping_entries"
        THEN \A r \in RowsFor(a, n, stored[a]) : \E o \in index[TableOf(a, n)][a] :
               o.key = r.key /\ o.content = r.content
        ELSE RowsFor(a, n, stored[a]) \subseteq index[TableOf(a, n)][a]

\* Guidance catalogs have no backfill.
Backfilled(a) == \E j \in DOMAIN Stages : Stages[j] = kind[a]

\* When a backfill has run through without a failure, every document that was
\* there when it began, is of a kind with a backfill, and had no version that its
\* first table did not take, has rows in that table, though its own import may
\* have failed to write them.  It has rows in every other table that took all its
\* versions, too, unless somebody is at it or a batch of it went wrong
\* (populate.go:17-167,296).
BackfillFillsFitting ==
  \A g \in Gateways : work[g] = Finished =>
    \A a \in {b \in due[g] : Backfilled(b) /\ <<b, 1>> \notin unfit} :
      /\ index[TableOf(a, 1)][a] # {}
      /\ \/ a \in torn \/ Busy(a)
         \/ \A n \in 1..Last(a) : <<a, n>> \in unfit \/ index[TableOf(a, n)][a] # {}

\* populate.go:17-21, "Skips documents that already have entries. Safe to call on
\* every startup": a backfill adds entries and changes none.
BackfillChangesNoEntry ==
  [][\A g \in Gateways : work'[g] # work[g] =>
       \A a \in Artifacts : kind[a] = "MappingDocument" =>
         index["mapping_entries"][a] \subseteq index'["mapping_entries"][a]]_indexVars

===============================================================================
