# Formal models of the ComplyTime gateway

This directory holds TLA+ models of the gateway (`cmd/gateway` and `internal/`),
the TLC configurations that check them on small instances, and proofs that TLAPS
checks for instances of every size. `PROJECT.json` lists the runs, the lines of
code behind every definition, the hazards the properties are aimed at, and the
theorems.

To check a module: `tlc -workers 2 -config MCDebouncer.cfg MCDebouncer`.
To check the proofs: `tlapm M.tla` for `M` each of
`DebouncerProofs`, `CertificationProofs`, `IngestJobsProofs`, `DraftReviewProofs`,
`UserRolesProofs`, `MigrationsProofs`, `CatalogIndexProofs`, `StartupProofs`.

## The system

The gateway is one Go process in front of PostgreSQL and NATS.

| Component | State | Operations | Hard behaviour |
|---|---|---|---|
| Ingest handler (`store/handlers_ingest.go`) | none | `POST /api/ingest`: file a job, publish the document; `GET /api/ingest/jobs/{id}` | the worker may be ahead of the response; publish fails after the job was filed |
| Ingest tracker (`store/ingest_tracker.go`) | map of jobs under a mutex, in memory | Create, Complete, CompleteArtifact, Fail, Get, evict | lost at a restart; eviction against late updates |
| Ingest worker (`store/ingest_worker.go`, `handlers_import.go`) | none | parse, store, announce, report, one message at a time | statements that fail, unacknowledged commits, order of store, event and report |
| Event bus (`events/nats.go`) | NATS connection | PublishEvidence, PublishIngestRaw, two subscriptions | core NATS: at most once |
| Evidence store (`store/store.go`) | tables `evidence`, `certifications` | InsertEvidence (upsert), QueryRecentEvidence, InsertCertifications, UpdateEvidenceCertified | what an upsert leaves as it was |
| Evidence debouncer (`events/debounce.go`) | timers and in-flight marks, under a mutex | Push, fire | timers that go off while Push runs; events dropped in flight |
| Certification handler (`events/certification_handler.go`, `certifier/`) | none | query, then verdicts and flag of row after row | works on a snapshot; two statements per row that fail apart |
| Draft audit logs (`store/handlers_audit.go`, `store.go`) | tables `draft_audit_logs`, `audit_logs` | create, edit (PATCH), promote | read outside the transaction, row locks, lost answers to COMMIT |
| Users and roles (`auth/`, `postgres/users.go`) | tables `users`, `role_changes` | upsert on every request, bootstrap, set role | concurrent statements at READ COMMITTED; audit row in a second statement |
| Migrations (`postgres/client.go`) | `schema_migrations`, the schema | run all that are missing, under an advisory lock | crash between a migration and its record |
| Catalog index and backfill (`store/populate.go`, `handlers_catalogs.go`) | tables of controls, requirements, threats, risks, mappings | index on import, backfill at startup | partial inserts; import and backfill at once |
| Degraded mode (`postgres/degraded.go`) | cached ping under a lock | per request | a result cached from a request that was cancelled |
| Parsers, flattening, effective controls (`gemara/`, `ingest/`) | none | one document to rows | pure |
| Queries, posture, inventory, blob, registry, HTTP plumbing | none | read-only SQL, I/O | none that a model would show |

How they interact: the ingest handler files a job and publishes the document on
`core.ingest`; the subscription's callback is the worker, which writes the tables
and publishes an evidence event on `core.evidence.<policy>`; the subscription of
those events pushes them to the debouncer, whose handler queries the evidence
table and writes verdicts and flags. The tracker is shared by the HTTP handlers,
the worker and the evictor. Draft review only meets itself: any number of
concurrent requests on the same two tables.

What makes each correct:

- debouncer: one handler per policy at a time; the newest event of a burst is
  not the one that is stopped; every burst on an idle policy is served.
- certification: flag and verdicts agree but for what a failure between their two
  statements leaves; a handler that met no failure judged
  all of its window; a judgement is not replaced by an older one.
- ingest jobs: what a client is told is so and stays so; order is kept; jobs end.
- drafts: the tables agree; a promoted draft is frozen; "promoted" and "conflict" are
  answered only when they are so ("saved" and "not found" are not, see below).
- roles: whoever is served had the right to it; a change needs an admin or a moment
  without one; the audit trail explains the roles.
- migrations: the schema grows in order, one gateway at a time; a gateway serves only on
  the schema of its release.
- catalog index: after an undisturbed import the upserted tables have what the stored
  document says (of a mapping entry, strength and confidence); a backfill fills the first
  table of every document that is of a kind with a backfill and that the table takes.

## Modules

### `Debouncer` (with `CoalescingNotifier`, `DebouncerProofs`, `MCDebouncer`)

`debounce.go`. Event `e` is the `e`-th call of Push, and the timer that it arms has
the same number. `stage[e]` says where the timer and its goroutine are; `timers`
and `inflight` are the two maps of the struct. What the code does under one hold of
`d.mu` is one action: `Push`, `FireSkip`, `FireRun`, `Return` (the deferred
function). `Expire` is the runtime starting the timer's goroutine; it is separate
from the fire that follows because a Push may come between them: its `Stop` then
returns false and the code does not look. The handler is the time between
`FireRun` and `Return`, of any length.

`CoalescingNotifier` is what a caller may rely on, without timers or locks:
notifications of a policy wait, newer ones may take the place of older ones, one
is served at a time, and one disappears unserved only while another is being
served. `ImplementsNotifier` is the refinement, with the armed and expired events
as those that wait and the running one as the one that is served.

### `Certification` (with `CertificationProofs`, `MCCertification`)

Extends `Debouncer` with the tables, the bus, the clock and the handler. Each
statement that the code sends to PostgreSQL is one action, and each has its failing
twin: `Query`/`QueryFails`, `SaveVerdicts`/`SaveVerdictsFails`, `SetFlag`/`SetFlagFails`.
`IngestLog` is `handleEvidenceIngest` up to the commit, `PublishEvidence` the
event after it, `Deliver` the subscription that calls `Push`. `ExportLog` is the
OpenTelemetry exporter, which writes the evidence table directly. `Crash` is the
end of the process and its restart: timers, marks, handlers and messages in
transit are gone, tables stay.

Data is kept to what the properties tell apart. A document has an evidence id, the policy
it refers to, and for each requirement what the schema and the executor certifier
will say of the row. The provenance certifier is computed: `flatten.go` fills
neither `source_registry` nor `attestation_ref`, so it fails every row that came
through the gateway, and such a row is never flagged certified; rows that the
exporter wrote have them. `Upsert` follows the
`ON CONFLICT` clause of `store.go:873`: the evaluation is overwritten, `policy_id`,
`ingested_at`, provenance and `certified` are not.

`SaveVerdictsFails` may leave the verdicts in the table: the answer to the COMMIT of
`InsertCertifications` can be lost, and the handler passes the row over either way.

Ghost variables record what no table holds: `judged` (the write of a row whose content has
saved verdicts), `spoiled` (events whose handler met a failed statement), `torn` (ids
with verdicts saved and a flag that did not follow, because its statement failed, the
verdicts' COMMIT was not acknowledged or the gateway died).

### `IngestJobs` (with `IngestJobsProofs`, `MCIngestJobs`)

The life of a job from the request to the last poll. `Post` and `Accept`/`Refuse`
are the two halves of the handler, with the tracker's `Create` in the first and the
publish in the second: nothing keeps the worker from finishing the job before the
handler has written its response. (The poll of a job comes after the response: only then
does a client know the id.) The worker's actions are the steps of one message, from
`Take` to `Reject`, `StoreFails` or `Report`; `Finish` is the tracker's three ways to
end a job, which ignore a job it does not know. `Evict` is a tick of the evictor. `Restart`
empties what is in memory. `StoreFails` may leave the document in its table: the
answer to a COMMIT can be lost.

`outcome` is a ghost: what this process has reported of a job and when.

### `DraftReview` (with `DraftReviewProofs`, `MCDraftReview`)

A request is a PATCH that carries edits or a promotion. Each statement is a step,
with PostgreSQL at READ COMMITTED: an UPDATE waits for the row's lock and then looks
at the row again, which matters for the guarded UPDATE of the PATCH and, in its
absence, for the unguarded one of the promotion. Edits are compared, never merged
text: the official log is the draft and the edits that were read. `Fail` is
a failed statement, a client that goes away or a crash at any point after the
first read, including a COMMIT, or the UPDATE of a PATCH, whose answer is lost. `ReadFails`
is the first read: the PATCH takes every error for a draft that is not there and answers
404, the promotion answers 500. `Write` answers "saved" whether or not a row matched, and
the ghost `applied` tells the two apart.

### `UserRoles` (with `UserRolesProofs`, `MCUserRoles`)

What every API request does to the `users` table, statement by statement. `EnsureUser`
is the upsert on the way in; a caller in the proxy's admin group goes on to a
promotion (`seed_read`, `seed_write`, `seed_trail`), the others to the write protection
(`RequireWrite`) or straight to the handler. `CheckAdmin` is the handlers' own
check. `SetRole` and `BootstrapAdmin` are UPDATEs whose other parts are evaluated in the
statement's snapshot: `Select` takes it, and the write that follows waits for the row and
does not look again at the old role or the number of admins, because only conditions on
the updated row are re-evaluated at READ COMMITTED. `InsertRoleChange` is a second
statement. `Fail` is any failed statement, lost answer or abandoned request, with what the
code takes it for: a caller without a role, a user that does not exist, a record that is
not missed.

A sub may already belong to another row (a user whose address has changed): the unique
index refuses the upsert, and the request goes on as that of somebody without a row.
All reads under the admin check are one kind of request, all other reads another.

Two ghosts: `credit` collects what spoke for a request since it arrived, and `blurred` the
users whose trail cannot be expected to add up, because two changes overlapped or
a record failed.

### `Migrations` (with `Deployment`, `SchemaUpgrade`, `MigrationsProofs`)

`EnsureSchema` of several gateways on one database, each with the migrations of its own
release. `Lock`, `Check`, `RunScript` and `Record` are the statements of
`runMigrations`. `StatementFails` ends the process, as `main` does, and may leave the
effect of the statement behind. `Crash` in the middle of a script leaves an orphan: the server
finishes the script and holds the advisory lock until then (`OrphanEnds`). Scripts differ in one thing,
whether they can run on their own result; 004 and 011 cannot.

`SchemaUpgrade` is the promise: a version that goes up by one, and gateways that serve
only once it has reached their release. `ImplementsUpgrade` is the refinement, with the number of
recorded migrations for the version. It holds because records are made in order, under
the lock, and after the script.

### `CatalogIndex` (with `Deployment`, `CatalogIndexProofs`)

Documents (policies, mappings, four kinds of catalogs) and the eight tables that index
them. A row is a key, the version of the content it was parsed from, and what it takes from
elsewhere (`policy_id`, the mapping's framework); for a mapping entry also the version that
its `requirement_id` is from. A document may have no rows for a table, which is then passed over
without a statement, and may name a key twice (`Repeats`). There is one operator for each insert of the
store, because they differ: controls, requirements and guidance overwrite rows of the same
key; mapping entries overwrite strength and confidence and keep framework and `requirement_id`
(`store.go:345-348`); threats, risks and the links of both are plain INSERTs, where one row that
exists, in the table or earlier in the batch, undoes the batch, at every attempt. No insert removes the rows that a new version no
longer has.

An import is `StorePolicy`, `StoreMapping` or `StoreCatalog`, then one `IndexTable` for each
table. The backfill of a gateway goes through `Stages`; in each it lists, and for every
listed document counts the rows of the first table, gets the content and inserts batch after batch,
each step a transaction of its own. `PopulateMappingEntries` differs: it keeps the content it
listed. `IndexFails`, `StoreFails`, `BackfillFails` and `Kill` are what may go wrong.

Ghosts: `unsettled` (documents whose last import was disturbed), `torn` (documents a
batch of which went wrong), `unfit` (tables that did not take some version of a document, for
want of rows or for a key named twice), `due` (what a backfill found stored when it began).

`BackfillFillsFitting` says what the backfill achieves and no more. Guidance catalogs have no
backfill (`main.go:76-96`): when the rows of one fail to be inserted it stays without them. A
document that a plain INSERT refuses is refused at every startup again. And a document with
rows in its first table is never looked at, so a later table that failed stays empty.

### `Startup` (with `StartupProofs`, `MCStartup`)

Composes `Migrations` and `CatalogIndex` as `main.go` does: a gateway whose `EnsureSchema` has
returned starts its backfill and serves imports, and a crash ends both. Properties of the
two modules are checked on the composition, with two of its own: only a gateway on its
schema touches the index, and every gateway gets ready or is stuck.

## Runs

| Run | Instance | Distinct states | Shows |
|---|---|---|---|
| `debouncer` | 2 policies, 4 pushes | 9,733 | the five properties of `Debouncer` |
| `certification` | 2 policies, 4 documents, 3 writes, 3 events, 1 fault, clock to 2 | 3.4 million | the four properties of `Certification` |
| `ingest_jobs` | 2 jobs, any document, ttl 1, clock to 2, 2 faults | 470,302 | seven properties of `IngestJobs` |
| `drafts` | 1 draft, 3 requests, 2 edits | 63,076 | five properties of `DraftReview` |
| `user_roles` | 2 users, 3 identities, 2 requests at a time, 3 in all, 1 fault | 665,228 | the four properties of `UserRoles` |
| `startup` | 2 gateways of releases 1 and 2, 1 document of any kind in 2 versions, 1 import, 1 failure or crash | 295,608 | nine properties of `Migrations`, `CatalogIndex` and `Startup` |
| `certify_every_ingest` | 1 policy, 2 logs, no fault | violated | `EveryIngestCertified` |
| `draft_promoted_twice` | 1 draft, 3 requests | violated | `AtMostOneOfficial` |
| `draft_edit_lost` | 1 draft, 3 requests | violated | `OfficialIsCopyOfDraft` |
| `draft_saved_unwritten` | 1 draft, 3 requests | violated | `SavedMeansApplied` |
| `bootstrap_twice` | 2 users, 2 requests, no fault | violated | `PromotionFindsNoAdmin` |
| `backfill_overwrites` | as `startup`, no failure | violated | `BackfillChangesNoEntry` |

The six violated properties restate a sentence of the repository that the code does not
keep:

- `evidence-quality-boundary.md:44`, certifiers "run on every ingest". An event that fires
  while its policy is in flight is dropped, and the handler that is in flight queried before.
- `openapi.yaml:471-472`, 409 for a draft that is already promoted. Two promotions that
  read before either commits both succeed.
- `store.go:1444`, promotion "copies" the draft. Edits saved between its read and its
  UPDATE stay in the draft and are not in the official log.
- `openapi.yaml:578-579`, 409 for an edit of a promoted draft. A promotion that commits between
  the read of a PATCH and its UPDATE leaves the UPDATE without a row; nobody looks at the rows
  affected, and edits that were dropped are answered "saved".
- `users.go:131-133`, a user is promoted "if and only if no admin exists". Two promotions
  that count in their snapshots before either commits both succeed: they
  update different rows, so neither waits for the other.
- `populate.go:17-18`, the backfill "skips documents that already have entries". An
  import between its count and its insert has its entries overwritten by those of the version the
  backfill listed, and every later backfill skips the document.

Two more disagreements are in the models and have no run of their own, because a single step
shows them:

- `openapi.yaml:576-577`, 404 for a draft that is not found. The PATCH answers so to any error of
  its read (`ReadFails` in `DraftReview`).
- `async-ingest-durability.md:29`, callers "can distinguish completion from loss". After a restart
  a stored job and a lost one are both 404 (`Restart` in `IngestJobs`).

### Bounds and why they are enough

- Four pushes: one whose timer goes off, a Push that finds it expired and so leaves
  a timer outside the map, a third Push that cannot stop that one, and a fourth that
  meets the in-flight handler. Two policies: what one does must not touch the other.
- Certification: three writes and three events let a log be ingested, corrected, and ingested
  again while the handler of the first is at work; the documents include a correction
  with one more requirement (two rows with one evidence id) and an id that two policies refer to.
  One fault is any one lost message, failed statement or crash. The window and
  the look-back are one tick each, so that a row can be on, before and after the edge.
- Ingest: two jobs can overtake and outlive one another; two faults let a failed
  statement or a lost message precede a restart; the clock passes the ttl.
- Drafts: three requests are two promotions and an edit, or two edits and a
  promotion. Requests about different drafts share nothing but code.
- Roles: three requests are a promotion, a change by that admin and one more that runs beside it;
  the sub of one identity belongs to the other user's row. Two requests at a time show every pairwise overlap.
- Startup: the old release has one migration and the new one two, the second of which cannot
  run twice, so both gateways want the first and only one the second. The document may be
  there before the gateways start, in an old version, and the import brings one that shares a
  key with it and differs in another: rows are added, overwritten and left over. The old version has
  no threats of its risks, and the new one names a threat twice, so both ways not to fit a table
  occur in the first table of a kind and in a later one. One trouble (a
  failed statement or a crash) anywhere; two troubles only repeat what `RepeatsArePaid` counts.

Deadlock is not checked (`CHECK_DEADLOCK FALSE`): in every model the bounds on
pushes, writes, requests and the clock run out and nothing is left to do.

### Assumptions about the environment

- Timers may be late by any amount in `Debouncer`. In `Certification` the clock
  does not overtake a timer that is due, nor the instructions between a commit and its
  event: a delay of minutes there would put rows outside the five-minute window.
  For the same reason `ingested_at`, which PostgreSQL takes at the start of the transaction,
  is the time of its commit.
- An evidence id is what the document says; logs without `metadata.id`, which get a
  random id for each row, are not among the documents.
- All users come through one proxy, so there is one issuer (`ensureUser` passes a constant).
- More than one gateway runs only during a rolling update (the chart has one replica), and then each has
  its own backfill. `Certification` and `IngestJobs` model one gateway only: while two are up, each
  subscribes to the same subjects without a queue group (`nats.go:141-170`) and handles every message
  too, and a job is known to one of the two trackers. What that does to their properties is not checked.
- A statement whose answer is lost takes effect, if at all, before its client goes on: nothing that a
  gateway sent is carried out later, beside its next statement or after its restart. The scripts
  of migrations, which run for long, are the exception that `Migrations` models.
- Documents parse. Two documents do not share an id across kinds.
- The subscription hands over messages one by one and in order, as nats.go does for an
  asynchronous subscription.

### Fairness

- `Debouncer`: weak fairness of each event's goroutine. The runtime fires timers, the mutex
  is held for a few instructions, and the handler returns because its statements do (the
  pool sets a statement timeout). Nothing is assumed of Push.
- `IngestJobs`: weak fairness of the worker and of a handler that has filed a job.
- `DraftReview`: strong fairness of each handler's next statement once entered, because a
  waiting UPDATE is enabled again and again and PostgreSQL grants row locks in turn.
- `Startup`: weak fairness of a gateway that is down (the orchestrator restarts it), of its migration
  steps, of a session that outlived its client and of every backfill (their statements return); strong
  fairness of the lock, which PostgreSQL grants in the order of the waiters. Nothing is
  assumed of imports or failures.
- `Certification` and `UserRoles` state safety only.

## What is proved

`DebouncerProofs` proves, for every set of policies and every number of events:

- `DebouncerInvariant`: `DebouncerSpec => []DebouncerInv`. `DebouncerInv` is the
  inductive invariant. Single flight alone is not inductive: `FireRun` looks at the
  in-flight mark, not at the handlers, so the invariant says that the marks are
  exactly the policies of running handlers (`MarkedIffRunning`), and that an event has its
  policy from its Push on (`BookKept`), without which the marks could not be attributed.
  One lemma per conjunct has one step per action.
- `SingleFlightAlways` follows from it.
- `NewestAlwaysSurvives`: a stopped event is covered by a later one of its policy that was
  not. A Push that stops the event in the map arms its own, which is the newest of all,
  and an event is stopped only by a Push.
- `DebouncerRefinesNotifier`: every step of the debouncer is a step of
  `CoalescingNotifier` or leaves its variables alone. `FireSkip` is the interesting one: it is a `Skip`
  only because a marked policy has a running handler, which is the invariant again.

The only assumption is `DebouncerAssumption`: the bound is a natural number and
`NoPolicy` is not a policy.

`CertificationProofs` proves every property that the run `certification` checks, for every
set of logs, window, look-back and bound on events, writes, faults and the clock. Its
inductive `IInv` has a part for each thing that could go wrong between two statements:

- `DebouncerInv` comes from `DebouncerProofs`: what the debouncer sees of a step is one of its
  own, a stutter, or the crash, for which there is a lemma of its own.
- `RowBooks`: no judgement is ahead of its row, and a row has the policy of a log with its
  id. `AsOfPast`: what an event knows of was written. An upsert bears a new number, so it
  takes a row out of the windows of all events (`WriteKeeps`).
- `NotOvertaken(e)`: what a handler has in hand is not older than what was judged. This is where
  single flight is needed: another handler that had the same row in hand would be of the
  same policy (`OneHandlerPerRow`). `VerdictsAdvance` follows: `judged` never goes back.
- `VerdictsStored(e)`: between its two statements, the stored verdicts of an id are still those
  of the handler. Two handlers with one id in hand are one if the id has one home
  (`OneHandlerPerHome`). With it `SetFlag` sets the flag of what is stored, and
  `FlagAlwaysAgrees` is inductive. Verdicts that are stored without an acknowledgement make their
  id torn at once.
- `CoversSoFar(e)`: a handler at work has judged its window up to the rows ahead of it;
  when it returns none is ahead, which is `HandledAlwaysCovers`.
- `CertificationInvariant` follows, with "one row at a time" from a lemma on cardinality.

The assumptions are `CertificationAssumption` (bounds are numbers, the policy of a log is one
or none, its certifiers' answers are answers) and `DebouncerAssumption`.

`IngestJobsProofs` proves every safety property that the run `ingest_jobs` checks, for
every set of jobs, ttl, clock and number of faults:

- `IngestInvariant`: `IngestSpec => []IngestInv`, whose conjuncts rest on one another.
  `OnePlace` says that a published job is on the subject, at the worker, lost or
  finished, and never in two of these; it needs sequences without repetition, so two lemmas say
  what `Append` and `Tail` do to their elements. `WorkMatches` ties the worker's next step to
  what is in the tables: only so may `Report` say "completed". `TrackerMatches` says
  that a job on its way is pending: only so do `Finish` and a late `Poll` never change an
  outcome. `InOrder` ties the subject to the order of publication.
- `HeardCompletedIsStored`: a poll answers what the tracker says, which `TrackerMatches`
  ties to the tables, and `KeptStays` shows that no step takes that back.
- `RefusedJobLeavesNothing`: a refused request was never published (`OnePlace`).
- `OutcomeOutlivesTTL`: an outcome is written to a pending job, hence to one the tracker has,
  and `Evict` takes it only after the ttl. Eviction never meets a pending job.
- `OutcomesStayFinal`: after a client has heard an outcome the tracker says that or nothing.
- `NeverOvertaken`: when a document is stored its job is at the worker, and by
  `InOrder` everything published before it has left the subject.

The only assumption is `IngestAssumption`: the ttl and the two bounds are natural numbers.

`DraftReviewProofs` proves every safety property that the run `drafts` checks, for any
drafts, requests and edits:

- `DraftInvariant`: `DraftSpec => []DraftInv`. The inductive `IInv` is the conjunction of
  `DraftInv`, `PromotedIffOfficial` and `PromotionAnswersAreTrue`, which need each other, and of
  `IdleUnanswered`, without which a request could be let in with an answer. `DraftBooks` is the
  key: the lock is held exactly by the promotion that is at its COMMIT, so nobody else changes the
  row between its UPDATE and its COMMIT, and its log is not there yet, so that the COMMIT makes mark and log
  together.
- `PromotedAlwaysOfficial`: a second promotion that read before the first committed adds a
  second log and becomes the reviewer in the row; the statement holds because it says
  that the reviewer is the author of *one of* the logs.
- `AnswersStayTrue`: "promoted" is answered after the COMMIT, "conflict" after a promoted draft was
  read, and nothing takes a log back. It says nothing of "saved" and "not found".
- `PromotedStaysFrozen`: the guarded UPDATE of the PATCH looks at the status again, and a promotion
  copies no edits into the draft.

The only assumption is `DraftAssumption`, that the values that stand for "nobody" and "no edits"
are not requests or edits.

`UserRolesProofs` proves every property that the run `user_roles` checks, for any users,
identities, operations, number of requests at a time and in all, and faults:

- `RolesInvariant`: one user to a sub, because `EnsureUser` is refused when another row has
  the sub.
- `ServedAreEntitled`: `Entitled(r)` says that `credit` has the caller's present
  role and a present vacancy, and what the request needs to be at the statement it is at
  (`Backed`). That it is at no other is a relation on steps alone (`OnWay`): a lemma shows that every step
  of a request stays on the way of its kind of operation.
- `ChangesWereDecided` follows from the same invariant at the two steps that write a role:
  an admin's decision is backed by "admin" from the check on, and a promotion by the vacancy its snapshot saw.
- `TrailAlwaysExplains`: for a user whose trail is not blurred the trail is a chain, and
  its last entry, or the record on its way, gives the role (`Sharp(e)`). The interesting step is a second change before
  the first is recorded: it blurs. Lemmas say what `Append` does to a chain.

The assumption is `RolesAssumption`: the bounds are natural numbers, operations are of the kinds
the code has, and there is an identity and an operation to speak of.

`MigrationsProofs` proves the safety of the migrations for any gateways, any releases and any
number of crashes and failed statements:

- `MigrationsInvariant`: `MigrationsSpec => []MigrationsInv`, by the inductive `IInv`. It adds
  what the parts need: `LockBooks` says that only the holder of the advisory lock is in the
  loop, that everything before its position is recorded, and that the script it runs is not,
  so that no second gateway is at the same script; `RepeatsArePaid` alone is not inductive, because the script of a
  crashed gateway may still commit after the lock is gone, and `OrphanIsPaid` says that this
  commit was accounted for by the crash.
- `AlwaysInOrder`: the recorded migrations are an initial segment. The loop passes over
  recorded migrations only, so `1..(at - 1)` is recorded when a script starts.
- `ServingAlwaysSeesSchema`: a gateway that serves finds every migration of its release
  recorded, whatever the others do; `schema_migrations` never shrinks.
- `MigrationsRefineUpgrade`: every step is a step of `SchemaUpgrade` or leaves its variables
  alone. `Record` is an `Upgrade` only because the recorded migrations are an initial segment, so that
  their number is below the release of the gateway that records.

The only assumption is `MigrationsAssumption`: releases and the bound are natural numbers, and
the two names that are not gateways are not.

`CatalogIndexProofs` proves an inductive invariant of imports and backfills, `CatalogIInv`, for any
documents, imports, gateways and number of failures, where gateways come and go as they
like (`IndexNext`: a gateway without a backfill starts one, imports and backfills take a step, or
a gateway is killed). None of the three properties of the index is inductive; they speak of the
end of an import or of a backfill, and the invariant says how far each has come:

- `Books`: types, `RowsBelong` and what is in the hands of a backfill (`WorkFits`): its
  entries are of the stage's kind and stored, a mapping comes with its content and every
  document to be inserted has got it. Every statement of a backfill is one of five moves (`BackfillMoves`:
  list, pass over, take, get, insert), with or without a failure, and all later parts argue
  about those.
- `QuietInv`, of every document whose last import was not disturbed: one import at most is
  at it, with what is stored; the tables that this import is past agree, all of them when there is
  none; and what backfills have in hand is what is stored. So whichever of
  them inserts next inserts the stored rows. `Storing` is the interesting step: it makes a
  document undisturbed only if nobody is at it (`NotBusy`).
- `OnRecord`: of every version that is stored, imported or in the hands of a backfill, each
  table takes the rows or is on record (`unfit`) for not doing so.
- `NoneLeft`: an import and a backfill have covered the tables that they are past, that is, filled
  them or found them on record, unless rows were torn (`Fills`); a document with rows in its first
  table is covered in all, or there is a reason, an import or a backfill that is past the first
  (`Reasons`); and what an undisturbed backfill owes is still to come, in its hands, or covered
  (`Owed`). A refused first batch ends the document without an insert: either the table had rows
  before, and the reason of another holds on, or by `OnRecord` it is on record.

Lemmas about the pure part say what the parsers give (rows of the document, one to a key, none
missing: `RowsForDocument`) and what each kind of batch leaves in a table (`BatchRows`).

`StartupProofs` carries these over to the composition: `StartupKeepsSchema` and
`StartupRefinesUpgrade` (a step of `Startup` is one of `Migrations` or leaves its variables
alone), and what only the composition can say: `OnlyServingAlwaysIndexes`, that a backfill or an
import runs only in a gateway that serves. Its invariant adds that every task of the index
belongs to a gateway (`Hosts`), so that a crash takes the right ones with it. It follows that a
gateway that comes to serve has no backfill yet, so that every step of `Startup` is one of `IndexNext`
or leaves the index alone, and with it `IndexAlwaysInOrder`, `QuietIndexAlwaysAgrees` and
`BackfillAlwaysFillsFitting`.

They assume `IndexAssumption`: documents have a content and an attribute, the value that marks an
absent document is no content, and the bound is a number. Nothing is assumed of the rows of a content:
it may have none, and name keys twice.

Only model-checked is what is temporal under fairness (`IdleBurstServed`, `FiledJobsFinish`,
`RequestsAreAnswered`, `ReadyOrStuck`), because liveness is out of the prover's reach. Every
safety property that a passing run checks is also a theorem.

## What is not modelled

- Read-only queries and their filters, posture and inventory. `GET` of drafts and logs reads
  committed rows and changes nothing.
- Parsing and flattening, other than what certification sees of a row and which tables a
  document's rows go to; the summary of an audit log.
- Effective controls. `PopulateEffectiveControls` unmarshals the content of the policies that
  `ListPolicies` returns, and `ListPolicies` does not select the content
  (`store.go:183-185`): every policy looks as if it imported nothing, and the resolution in
  `gemara/effective.go` is never reached by the gateway. `Backfill` therefore has no step for it.
- `DeleteMappingEntries`, which no handler calls.
- Degraded mode: a cached ping that decides one response header. The cache may keep
  the failure of a cancelled request for its ttl; nothing in the code reads the header.
- Blob storage and the OCI registry (I/O), HTTP plumbing and static pages. NATS's reconnect
  buffer is the sequence on the wire, which may be lost. The draft event is published and nobody
  subscribes to it.

## Plan

1. Debouncer, certification, ingest jobs, draft review (done).
2. Roles, migrations, the catalog index and their composition at startup (done).
3. Proofs of the safety of roles, certification and draft review (done).
4. Proofs of the safety of the index, alone and at startup (done).
