---------------------------- MODULE Certification ----------------------------
(***************************************************************************)
(* From an ingested log to the verdicts on its rows: the ingest worker     *)
(* writes the evidence table and then publishes an event (ingest_worker.go,*)
(* store.go); NATS carries it to the debouncer (nats.go, main.go); the     *)
(* debouncer runs the certification handler, which queries the rows of the *)
(* policy that were first ingested in the last minutes and, row by row,    *)
(* saves the verdicts of the pipeline and then the flag derived from them  *)
(* (certification_handler.go, pipeline.go).                                *)
(*                                                                         *)
(* Each statement sent to PostgreSQL is one action.  The handler works on  *)
(* what its query returned, while logs are ingested again, timers go off,  *)
(* messages are lost, statements fail and the process crashes.             *)
(***************************************************************************)
EXTENDS Debouncer, Sequences, FiniteSets

CONSTANTS Logs,        \* the documents that may be ingested or exported
          Window,      \* EventDebounceDuration, in ticks of the clock
          Lookback,    \* how far back the handler looks, in ticks
          MaxTime,     \* bound on the clock
          MaxWrites,   \* bound on the transactions that write evidence
          MaxFaults    \* bound on lost messages, failed statements and crashes

\* A document has an evidence id (metadata.id), the policy it refers to, or
\* NoPolicy, and for each of its requirements what the schema and the executor
\* certifier will say of the row.  Provenance is not part of a log: no flatten
\* function fills source_registry or attestation_ref.
ASSUME CertificationAssumption ==
  /\ Window \in Nat /\ Lookback \in Nat /\ MaxTime \in Nat
  /\ MaxFaults \in Nat /\ MaxWrites \in 0..MaxEvents
  /\ \A l \in Logs :
       /\ l.policy \in Policies \cup {NoPolicy}
       /\ \A q \in DOMAIN l.content :
            l.content[q] \in [schema : {"pass", "fail"}, executor : {"pass", "fail", "skip"}]

Keys == UNION {{<<l.eid, q>> : q \in DOMAIN l.content} : l \in Logs}
Certifiers == {"schema", "provenance", "executor"}

VARIABLES now,      \* the clock
          rows,     \* the evidence table: key -> row
          certs,    \* the certifications table: evidence id -> verdicts
          writes,   \* how many transactions wrote evidence
          worker,   \* the policy the ingest worker is about to publish, or NoPolicy
          wire,     \* evidence events on their way through NATS
          evt,      \* what each pushed event carries, and when its timer is due
          queried,  \* the running handlers whose query has returned
          todo,     \* event -> rows its handler has yet to judge
          doing,    \* event -> the row whose verdicts are saved and whose flag is not
          judged,   \* ghost: key -> the write whose content has saved verdicts
          spoiled,  \* ghost: the events whose handler met a failed statement
          torn,     \* ghost: evidence ids with verdicts saved and the flag not
          faults    \* ghost: how many faults happened

storeVars == <<rows, certs, judged>>
handlerVars == <<queried, todo, doing, spoiled, torn>>
busVars == <<worker, wire, evt>>
vars == <<debouncerVars, storeVars, handlerVars, busVars, now, writes, faults>>

NotPushed == [at |-> 0, asOf |-> 0, due |-> 0]

CertificationInit ==
  /\ DebouncerInit
  /\ now = 0
  /\ rows = << >>
  /\ certs = << >>
  /\ writes = 0
  /\ worker = NoPolicy
  /\ wire = << >>
  /\ evt = [e \in Events |-> NotPushed]
  /\ queried = {}
  /\ todo = [e \in Events |-> {}]
  /\ doing = [e \in Events |-> {}]
  /\ judged = [k \in Keys |-> 0]
  /\ spoiled = {}
  /\ torn = {}
  /\ faults = 0

-------------------------------------------------------------------------------
\* The pipeline: every certifier judges the row, none is skipped.
Verdicts(row) ==
  [c \in Certifiers |->
     CASE c = "schema" -> row.content.schema
       [] c = "executor" -> row.content.executor
       [] c = "provenance" -> IF row.provenance THEN "pass" ELSE "fail"]

IsCertified(verdicts) ==
  /\ \E c \in Certifiers : verdicts[c] = "pass"
  /\ \A c \in Certifiers : verdicts[c] # "fail"

\* What the handler keeps of a row that its query returned.
Snapshot(k) == [key |-> k, ingestedAt |-> rows[k].ingestedAt,
                write |-> rows[k].write, verdicts |-> Verdicts(rows[k])]

\* Mutated form: the query compares with > where the code has >=.
RecentEvidenceStrict(p, since) ==
  {Snapshot(k) : k \in {j \in DOMAIN rows :
                          rows[j].policy = p /\ rows[j].ingestedAt > since}}

\* WHERE policy_id = p AND ingested_at >= since
RecentEvidence(p, since) ==
  {Snapshot(k) : k \in {j \in DOMAIN rows :
                          rows[j].policy = p /\ rows[j].ingestedAt >= since}}

\* ORDER BY ingested_at DESC, equal ones in any order.
IsNext(s, snapshots) ==
  s \in snapshots /\ \A t \in snapshots : t.ingestedAt <= s.ingestedAt

Fault == faults < MaxFaults /\ faults' = faults + 1
KeysOf(l) == {<<l.eid, q>> : q \in DOMAIN l.content}

-------------------------------------------------------------------------------
\* The evidence table.

\* ON CONFLICT (evidence_id, control_id, requirement_id) DO UPDATE: what was
\* evaluated is overwritten; policy_id, ingested_at, the provenance columns and
\* the certified flag of an existing row stay as they are.
Upsert(l, provenance) ==
  [k \in DOMAIN rows \cup KeysOf(l) |->
     IF k \notin KeysOf(l) THEN rows[k]
     ELSE IF k \in DOMAIN rows
     THEN [rows[k] EXCEPT !.content = l.content[k[2]], !.write = writes + 1]
     ELSE [policy |-> l.policy, content |-> l.content[k[2]], provenance |-> provenance,
           ingestedAt |-> now, certified |-> FALSE, write |-> writes + 1]]

\* handleEvidenceIngest up to the commit of InsertEvidence.  An event is due
\* when rows were written and the log refers to a policy.
IngestLog(l) ==
  /\ worker = NoPolicy
  /\ writes < MaxWrites
  /\ writes' = writes + 1
  /\ rows' = Upsert(l, FALSE)
  /\ worker' = IF KeysOf(l) = {} THEN NoPolicy ELSE l.policy
  /\ UNCHANGED <<debouncerVars, handlerVars, certs, judged, wire, evt, now, faults>>

\* PublishEvidence: the event bears the time of publication.
PublishEvidence ==
  /\ worker # NoPolicy
  /\ wire' = Append(wire, [policy |-> worker, at |-> now, asOf |-> writes])
  /\ worker' = NoPolicy
  /\ UNCHANGED <<debouncerVars, storeVars, handlerVars, evt, now, writes, faults>>

\* conn.Publish fails: the error is logged and the ingest goes on.
PublishEvidenceFails ==
  /\ worker # NoPolicy
  /\ Fault
  /\ worker' = NoPolicy
  /\ UNCHANGED <<debouncerVars, storeVars, handlerVars, wire, evt, now, writes>>

\* External: the exporter of the OpenTelemetry collector writes new rows, with
\* provenance, and tells nobody.
ExportLog(l) ==
  /\ writes < MaxWrites
  /\ KeysOf(l) \cap DOMAIN rows = {}
  /\ writes' = writes + 1
  /\ rows' = Upsert(l, TRUE)
  /\ UNCHANGED <<debouncerVars, handlerVars, busVars, certs, judged, now, faults>>

-------------------------------------------------------------------------------
\* NATS and the debouncer.

\* The evidence subscription: the event is pushed and its timer armed.
Deliver ==
  /\ wire # << >>
  /\ Push(Head(wire).policy)
  /\ evt' = [evt EXCEPT ![pushed + 1] = [at |-> Head(wire).at, asOf |-> Head(wire).asOf,
                                         due |-> now + Window]]
  /\ wire' = Tail(wire)
  /\ UNCHANGED <<storeVars, handlerVars, worker, now, writes, faults>>

\* Core NATS delivers at most once.
LoseMessage ==
  /\ wire # << >>
  /\ Fault
  /\ wire' = Tail(wire)
  /\ UNCHANGED <<debouncerVars, storeVars, handlerVars, worker, evt, now, writes>>

TimerExpires(e) ==
  /\ evt[e].due <= now
  /\ Expire(e)
  /\ UNCHANGED <<storeVars, handlerVars, busVars, now, writes, faults>>

SkipInFlight(e) ==
  /\ FireSkip(e)
  /\ UNCHANGED <<storeVars, handlerVars, busVars, now, writes, faults>>

StartHandler(e) ==
  /\ FireRun(e)
  /\ UNCHANGED <<storeVars, handlerVars, busVars, now, writes, faults>>

-------------------------------------------------------------------------------
\* The certification handler.

Since(e) == evt[e].at - Lookback

Query(e) ==
  /\ stage[e] = "running" /\ e \notin queried
  /\ queried' = queried \cup {e}
  /\ todo' = [todo EXCEPT ![e] = RecentEvidence(policyOf[e], Since(e))]
  /\ UNCHANGED <<debouncerVars, storeVars, busVars, doing, spoiled, torn, now, writes, faults>>

\* The query fails: the handler returns.
QueryFails(e) ==
  /\ stage[e] = "running" /\ e \notin queried
  /\ Fault
  /\ spoiled' = spoiled \cup {e}
  /\ Return(e)
  /\ UNCHANGED <<storeVars, busVars, queried, todo, doing, torn, now, writes>>

\* InsertCertifications: one verdict per evidence id and certifier, the last wins.
InsertCertifications(s) ==
  /\ certs' = [i \in DOMAIN certs \cup {s.key[1]} |->
                 IF i = s.key[1] THEN s.verdicts ELSE certs[i]]
  /\ judged' = [judged EXCEPT ![s.key] = s.write]

SaveVerdicts(e) ==
  /\ e \in queried /\ doing[e] = {}
  /\ \E s \in todo[e] :
       /\ IsNext(s, todo[e])
       /\ todo' = [todo EXCEPT ![e] = @ \ {s}]
       /\ doing' = [doing EXCEPT ![e] = {s}]
       /\ InsertCertifications(s)
  /\ UNCHANGED <<debouncerVars, busVars, rows, queried, spoiled, torn, now, writes, faults>>

\* Mutated form: the continue after a failed insert of verdicts is missing.
SaveVerdictsFailsAndFlags(e) ==
  /\ Fault
  /\ e \in queried /\ doing[e] = {}
  /\ \E s \in todo[e] :
       /\ IsNext(s, todo[e])
       /\ todo' = [todo EXCEPT ![e] = @ \ {s}]
       /\ doing' = [doing EXCEPT ![e] = {s}]
  /\ spoiled' = spoiled \cup {e}
  /\ UNCHANGED <<debouncerVars, storeVars, busVars, queried, torn, now, writes>>

\* InsertCertifications returns an error, and the row is passed over.  When what
\* failed is the answer to its COMMIT the verdicts are stored all the same, and no
\* flag follows them.
SaveVerdictsFails(e) ==
  /\ Fault
  /\ e \in queried /\ doing[e] = {}
  /\ \E s \in todo[e] :
       /\ IsNext(s, todo[e])
       /\ todo' = [todo EXCEPT ![e] = @ \ {s}]
       /\ \/ UNCHANGED <<certs, judged, torn>>
          \/ InsertCertifications(s) /\ torn' = torn \cup {s.key[1]}
  /\ spoiled' = spoiled \cup {e}
  /\ UNCHANGED <<debouncerVars, busVars, rows, queried, doing, now, writes>>

\* UpdateEvidenceCertified: every row with the evidence id gets the flag.
SetFlag(e) ==
  /\ \E s \in doing[e] :
       /\ rows' = [k \in DOMAIN rows |->
                     IF k[1] = s.key[1]
                     THEN [rows[k] EXCEPT !.certified = IsCertified(s.verdicts)]
                     ELSE rows[k]]
       /\ torn' = torn \ {s.key[1]}
  /\ doing' = [doing EXCEPT ![e] = {}]
  /\ UNCHANGED <<debouncerVars, busVars, certs, judged, queried, todo, spoiled, now, writes, faults>>

\* UpdateEvidenceCertified fails: the verdicts stay, the flag does not follow.
\* (If only its answer is lost, the tables are as after SetFlag.)
SetFlagFails(e) ==
  /\ Fault
  /\ doing[e] # {}
  /\ doing' = [doing EXCEPT ![e] = {}]
  /\ torn' = torn \cup {s.key[1] : s \in doing[e]}
  /\ spoiled' = spoiled \cup {e}
  /\ UNCHANGED <<debouncerVars, storeVars, busVars, queried, todo, now, writes>>

HandlerReturns(e) ==
  /\ e \in queried /\ todo[e] = {} /\ doing[e] = {}
  /\ Return(e)
  /\ queried' = queried \ {e}
  /\ UNCHANGED <<storeVars, busVars, todo, doing, spoiled, torn, now, writes, faults>>

-------------------------------------------------------------------------------
\* The clock does not overtake a timer that is due, nor the few instructions
\* between the commit of a log and its event.
Tick ==
  /\ now < MaxTime
  /\ worker = NoPolicy
  /\ \A e \in Events : stage[e] = "armed" => now < evt[e].due
  /\ now' = now + 1
  /\ UNCHANGED <<debouncerVars, storeVars, handlerVars, busVars, writes, faults>>

\* The gateway dies and starts again: timers, in-flight marks, handlers and the
\* worker are gone, and what NATS was carrying to it too; the tables stay.
Live == {"armed", "expired", "running"}

Crash ==
  /\ Fault
  /\ stage' = [e \in Events |-> IF stage[e] \in Live THEN "dropped" ELSE stage[e]]
  /\ timers' = [p \in Policies |-> NoEvent]
  /\ inflight' = {}
  /\ worker' = NoPolicy
  /\ wire' = << >>
  /\ queried' = {}
  /\ todo' = [e \in Events |-> {}]
  /\ doing' = [e \in Events |-> {}]
  /\ torn' = torn \cup UNION {{s.key[1] : s \in doing[e]} : e \in Events}
  /\ UNCHANGED <<pushed, policyOf, storeVars, evt, spoiled, now, writes>>

HandlerStep(e) ==
  \/ Query(e)
  \/ QueryFails(e)
  \/ SaveVerdicts(e)
  \/ SaveVerdictsFails(e)
  \/ SetFlag(e)
  \/ SetFlagFails(e)
  \/ HandlerReturns(e)

CertificationNext ==
  \/ \E l \in Logs : IngestLog(l) \/ ExportLog(l)
  \/ PublishEvidence
  \/ PublishEvidenceFails
  \/ Deliver
  \/ LoseMessage
  \/ \E e \in Events : TimerExpires(e) \/ SkipInFlight(e) \/ StartHandler(e) \/ HandlerStep(e)
  \/ Tick
  \/ Crash

CertificationSpec == CertificationInit /\ [][CertificationNext]_vars

-------------------------------------------------------------------------------
\* Properties.

Row == [policy : Policies \cup {NoPolicy},
        content : UNION {{l.content[q] : q \in DOMAIN l.content} : l \in Logs},
        provenance : BOOLEAN, ingestedAt : 0..MaxTime,
        certified : BOOLEAN, write : 1..MaxWrites]

Verdict == [Certifiers -> {"pass", "fail", "skip"}]

SnapshotRow == [key : Keys, ingestedAt : 0..MaxTime, write : 1..MaxWrites, verdicts : Verdict]

CertificationTypeOK ==
  /\ DebouncerTypeOK
  /\ now \in 0..MaxTime /\ writes \in 0..MaxWrites /\ faults \in 0..MaxFaults
  /\ DOMAIN rows \subseteq Keys /\ \A k \in DOMAIN rows : rows[k] \in Row
  /\ \A i \in DOMAIN certs : certs[i] \in Verdict
  /\ worker \in Policies \cup {NoPolicy}
  /\ \A i \in DOMAIN wire :
       wire[i] \in [policy : Policies, at : 0..MaxTime, asOf : 0..MaxWrites]
  /\ evt \in [Events -> [at : 0..MaxTime, asOf : 0..MaxWrites, due : 0..(MaxTime + Window)]]
  /\ todo \in [Events -> SUBSET SnapshotRow] /\ doing \in [Events -> SUBSET SnapshotRow]
  /\ judged \in [Keys -> 0..MaxWrites]
  /\ queried \in SUBSET Events /\ spoiled \in SUBSET Events

\* Only a running handler has rows to judge, it judges each row once and one at
\* a time, and only rows of its own policy.
HandlerBooks ==
  \A e \in Events :
    /\ e \in queried => stage[e] = "running"
    /\ e \notin queried => todo[e] = {} /\ doing[e] = {}
    /\ \A s, t \in todo[e] \cup doing[e] : s.key = t.key => s = t
    /\ todo[e] \cap doing[e] = {} /\ Cardinality(doing[e]) <= 1
    /\ \A s \in todo[e] \cup doing[e] :
         /\ s.key \in DOMAIN rows /\ rows[s.key].policy = policyOf[e]
         /\ s.write <= rows[s.key].write

\* The debouncer keeps its promise inside the process that crashes and restarts,
\* and the handlers keep their books.
CertificationInv == CertificationTypeOK /\ DebouncerInv /\ HandlerBooks

\* The verdicts of an evidence id and the flag that the API shows for its rows
\* agree: a row is flagged certified only while the stored verdicts of its id
\* say so, save in the moment between the two statements of a handler and for ids
\* that are torn, whose flag did not follow verdicts that were stored: the flag's
\* statement failed, the answer to the verdicts' COMMIT was lost, or the gateway
\* crashed in between.  No other order of statements of handlers, ingests and
\* queries parts the two (certification_handler.go:54-95).  Ids that two policies
\* refer to are left out: their two handlers' statements interleave.
OneHome(i) == \A l, m \in Logs : l.eid = i /\ m.eid = i => l.policy = m.policy

BetweenStatements(i) == \E e \in Events : \E s \in doing[e] : s.key[1] = i

FlagAgreesWithVerdicts ==
  \A k \in DOMAIN rows :
    rows[k].certified /\ OneHome(k[1]) =>
      \/ k[1] \in DOMAIN certs /\ IsCertified(certs[k[1]])
      \/ BetweenStatements(k[1])
      \/ k[1] \in torn

\* An event whose handler ran to the end without a failed statement covers its
\* window: every row of the policy first ingested in the window, and not written
\* again since the event was published, has been judged as it now stands.
HandledEventCoversItsWindow ==
  \A e \in Events : stage[e] = "done" /\ e \notin spoiled =>
    \A k \in DOMAIN rows :
      (rows[k].policy = policyOf[e] /\ rows[k].ingestedAt >= Since(e)
         /\ rows[k].write <= evt[e].asOf)
      => judged[k] = rows[k].write

\* Handlers of one policy come one after the other, so a later judgement of a
\* row is never replaced by one made on an older state of that row.
VerdictsNeverRegress == [][\A k \in Keys : judged[k] <= judged'[k]]_vars

\* docs/decisions/evidence-quality-boundary.md:44, "they run on every ingest via
\* the NATS pipeline": once nothing is under way, and with no message lost, no
\* statement failed and no crash, every row that the worker wrote for a policy
\* has been judged at least once.
AtRest ==
  /\ worker = NoPolicy /\ wire = << >>
  /\ \A e \in Events : stage[e] \notin Live

EveryIngestCertified ==
  AtRest /\ faults = 0 =>
    \A k \in DOMAIN rows :
      rows[k].policy # NoPolicy /\ ~rows[k].provenance => judged[k] > 0

===============================================================================
