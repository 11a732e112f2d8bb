------------------------------ MODULE IngestJobs ------------------------------
(***************************************************************************)
(* The life of an ingest job: POST /api/ingest files it in the in-memory   *)
(* tracker and publishes the document (handlers_ingest.go); the worker,    *)
(* one message at a time, parses and stores it, announces evidence and     *)
(* reports the outcome (ingest_worker.go, handlers_import.go); the tracker *)
(* forgets finished jobs after a while (ingest_tracker.go); the client     *)
(* polls.  Messages are lost, statements fail, and the gateway restarts    *)
(* with an empty tracker.                                                  *)
(***************************************************************************)
EXTENDS Naturals, Sequences, Functions

CONSTANTS Jobs,        \* job ids, one for each accepted or refused request
          TTL,         \* the tracker's ttl, in ticks of the clock
          MaxTime,     \* bound on the clock
          MaxFaults    \* bound on lost messages, failed statements and restarts

ASSUME IngestAssumption == TTL \in Nat /\ MaxTime \in Nat /\ MaxFaults \in Nat

\* What a request may carry.  An orphan is a log without rows or without a
\* policy: it is stored and not announced.
Documents == {"evidence", "orphan", "artifact", "unsupported", "invalid"}

VARIABLES now,       \* the clock
          request,   \* job -> how far its HTTP request is
          document,  \* job -> what it carries
          tracker,   \* t.jobs: job -> status and time of the last update
          subject,   \* the messages on core.ingest
          work,      \* the job the worker is at, and the next thing it does
          stored,    \* jobs whose document is in its table
          indexed,   \* artifact jobs whose structured rows are in theirs
          announced, \* evidence jobs for which PublishEvidence was called
          heard,     \* job -> the last answer to a poll
          sent,      \* ghost: the jobs published, in order
          lost,      \* ghost: published jobs whose processing was cut short
          outcome,   \* ghost: what this process reported of a job, and when
          faults     \* ghost: how many faults happened

tableVars == <<stored, indexed, announced>>
ghostVars == <<sent, lost>>
vars == <<now, request, document, tracker, subject, work, tableVars, heard,
          ghostVars, outcome, faults>>

Absent == [status |-> "absent", updatedAt |-> 0]
Terminal == {"completed", "failed"}
Idle == [next |-> "idle"]

IngestInit ==
  /\ now = 0
  /\ request = [j \in Jobs |-> "none"]
  /\ document = [j \in Jobs |-> "invalid"]
  /\ tracker = [j \in Jobs |-> Absent]
  /\ subject = << >>
  /\ work = Idle
  /\ stored = {} /\ indexed = {} /\ announced = {}
  /\ heard = [j \in Jobs |-> "nothing"]
  /\ sent = << >>
  /\ lost = {}
  /\ outcome = [j \in Jobs |-> Absent]
  /\ faults = 0

Fault == faults < MaxFaults /\ faults' = faults + 1

-------------------------------------------------------------------------------
\* The tracker.

Stamp(status) == [status |-> status, updatedAt |-> now]

\* Complete, CompleteArtifact, Fail: a job the tracker does not know is left alone.
Finish(j, status) ==
  /\ tracker' = [tracker EXCEPT ![j] = IF @ = Absent THEN @ ELSE Stamp(status)]
  /\ outcome' = [outcome EXCEPT ![j] = Stamp(status)]

\* Mutated form: a job that is exactly ttl old goes too.
StaleOrDue(j) == tracker[j].status \in Terminal /\ tracker[j].updatedAt + TTL <= now

\* UpdatedAt.Before(now - ttl), of finished jobs only.
Stale(j) == tracker[j].status \in Terminal /\ tracker[j].updatedAt + TTL < now

\* evict, on every tick of its ticker.
Evict ==
  /\ \E j \in Jobs : Stale(j)
  /\ tracker' = [j \in Jobs |-> IF Stale(j) THEN Absent ELSE tracker[j]]
  /\ UNCHANGED <<now, request, document, subject, work, tableVars, heard, ghostVars,
                 outcome, faults>>

-------------------------------------------------------------------------------
\* The HTTP handlers.

\* A request with a body: a new job is filed as pending.  (An unreadable or
\* empty body is answered 400 and leaves no trace.)
Post(j, d) ==
  /\ request[j] = "none"
  /\ request' = [request EXCEPT ![j] = "filed"]
  /\ document' = [document EXCEPT ![j] = d]
  /\ tracker' = [tracker EXCEPT ![j] = Stamp("pending")]
  /\ UNCHANGED <<now, subject, work, tableVars, heard, ghostVars, outcome, faults>>

\* PublishIngestRaw succeeds and the client gets 202.
Accept(j) ==
  /\ request[j] = "filed"
  /\ request' = [request EXCEPT ![j] = "accepted"]
  /\ subject' = Append(subject, j)
  /\ sent' = Append(sent, j)
  /\ UNCHANGED <<now, document, tracker, work, tableVars, heard, lost, outcome, faults>>

\* Mutated form: the message left although publishing it reported an error.
RefuseAfterSending(j) ==
  /\ request[j] = "filed"
  /\ Fault
  /\ request' = [request EXCEPT ![j] = "refused"]
  /\ Finish(j, "failed")
  /\ subject' = Append(subject, j)
  /\ sent' = Append(sent, j)
  /\ UNCHANGED <<now, document, work, tableVars, heard, lost>>

\* PublishIngestRaw fails: the job fails and the client gets 503.
Refuse(j) ==
  /\ request[j] = "filed"
  /\ Fault
  /\ request' = [request EXCEPT ![j] = "refused"]
  /\ Finish(j, "failed")
  /\ UNCHANGED <<now, document, subject, work, tableVars, heard, ghostVars>>

\* GET /ingest/jobs/{job_id}, by the client that was given the id.
Poll(j) ==
  /\ request[j] = "accepted"
  /\ heard' = [heard EXCEPT ![j] = tracker[j].status]
  /\ UNCHANGED <<now, request, document, tracker, subject, work, tableVars, ghostVars,
                 outcome, faults>>

-------------------------------------------------------------------------------
\* The worker: one subscription, whose callback runs to the end before the
\* next message is handed to it.

workerFrame == <<now, request, document, heard>>

Continue(j, step) == work' = [job |-> j, next |-> step]

\* Mutated form: messages are handled in no particular order.
TakeAny ==
  /\ work = Idle
  /\ \E i \in DOMAIN subject :
       /\ Continue(subject[i], "parse")
       /\ subject' = SubSeq(subject, 1, i - 1) \o SubSeq(subject, i + 1, Len(subject))
  /\ UNCHANGED <<workerFrame, tracker, tableVars, ghostVars, outcome, faults>>

\* Mutated form: a message is handed over and stays on the subject.
TakeAndKeep ==
  /\ work = Idle
  /\ subject # << >>
  /\ Continue(Head(subject), "parse")
  /\ UNCHANGED <<workerFrame, subject, tracker, tableVars, ghostVars, outcome, faults>>

Take ==
  /\ work = Idle
  /\ subject # << >>
  /\ Continue(Head(subject), "parse")
  /\ subject' = Tail(subject)
  /\ UNCHANGED <<workerFrame, tracker, tableVars, ghostVars, outcome, faults>>

\* Mutated form: the early return forgets the tracker.
RejectSilently(j) ==
  /\ work = [job |-> j, next |-> "parse"]
  /\ document[j] \in {"invalid", "unsupported"}
  /\ work' = Idle
  /\ UNCHANGED <<workerFrame, tracker, subject, tableVars, ghostVars, outcome, faults>>

\* No type, a type without a case, a document that does not parse or flatten.
Reject(j) ==
  /\ work = [job |-> j, next |-> "parse"]
  /\ document[j] \in {"invalid", "unsupported"}
  /\ Finish(j, "failed")
  /\ work' = Idle
  /\ UNCHANGED <<workerFrame, subject, tableVars, ghostVars, faults>>

\* The document parses and its row or rows are committed: InsertEvidence, or the
\* insert of the policy, catalog or mapping document itself.
Store(j) ==
  /\ work = [job |-> j, next |-> "parse"]
  /\ document[j] \in {"evidence", "orphan", "artifact"}
  /\ stored' = stored \cup {j}
  /\ Continue(j, CASE document[j] = "evidence" -> "announce"
                   [] document[j] = "orphan" -> "report"
                   [] document[j] = "artifact" -> "index")
  /\ UNCHANGED <<workerFrame, tracker, subject, indexed, announced, ghostVars, outcome, faults>>

\* Mutated form: evidence that could not be inserted is reported as completed.
StoreFailsUnnoticed(j) ==
  /\ work = [job |-> j, next |-> "parse"]
  /\ document[j] \in {"evidence", "orphan", "artifact"}
  /\ Fault
  /\ Continue(j, "report")
  /\ UNCHANGED <<workerFrame, tracker, subject, tableVars, ghostVars, outcome>>

\* The insert reports an error.  When it is the answer to COMMIT that was lost,
\* the rows may be there nevertheless.
StoreFails(j) ==
  /\ work = [job |-> j, next |-> "parse"]
  /\ document[j] \in {"evidence", "orphan", "artifact"}
  /\ Fault
  /\ stored' \in {stored, stored \cup {j}}
  /\ Finish(j, "failed")
  /\ work' = Idle
  /\ UNCHANGED <<workerFrame, subject, indexed, announced, ghostVars>>

\* Criteria, mapping entries or catalog rows.  Whether they are inserted or the
\* error is only logged, the job goes on.
Index(j) ==
  /\ work = [job |-> j, next |-> "index"]
  /\ \/ indexed' = indexed \cup {j} /\ UNCHANGED faults
     \/ Fault /\ UNCHANGED indexed
  /\ Continue(j, "report")
  /\ UNCHANGED <<workerFrame, tracker, subject, stored, announced, ghostVars, outcome>>

\* PublishEvidence returns nothing: whether the message leaves is not the
\* worker's business.
Announce(j) ==
  /\ work = [job |-> j, next |-> "announce"]
  /\ announced' = announced \cup {j}
  /\ Continue(j, "report")
  /\ UNCHANGED <<workerFrame, tracker, subject, stored, indexed, ghostVars, outcome, faults>>

Report(j) ==
  /\ work = [job |-> j, next |-> "report"]
  /\ Finish(j, "completed")
  /\ work' = Idle
  /\ UNCHANGED <<workerFrame, subject, tableVars, ghostVars, faults>>

-------------------------------------------------------------------------------
\* The environment.

Tick ==
  /\ now < MaxTime
  /\ now' = now + 1
  /\ UNCHANGED <<request, document, tracker, subject, work, tableVars, heard, ghostVars,
                 outcome, faults>>

\* Core NATS delivers at most once.
LoseMessage ==
  /\ subject # << >>
  /\ Fault
  /\ lost' = lost \cup {Head(subject)}
  /\ subject' = Tail(subject)
  /\ UNCHANGED <<now, request, document, tracker, work, tableVars, heard, sent, outcome>>

OnSubject == Range(subject)
Published == Range(sent)
AtWork == IF work = Idle THEN {} ELSE {work.job}

\* The gateway restarts: an empty tracker, no messages for the subscription that
\* died, an unfinished document, and open requests cut off.
Restart ==
  /\ Fault
  /\ tracker' = [j \in Jobs |-> Absent]
  /\ subject' = << >>
  /\ work' = Idle
  /\ request' = [j \in Jobs |-> IF request[j] = "filed" THEN "cut_off" ELSE request[j]]
  /\ lost' = lost \cup OnSubject \cup AtWork
  /\ outcome' = [j \in Jobs |-> Absent]
  /\ UNCHANGED <<now, document, tableVars, heard, sent>>

WorkOn(j) ==
  \/ Reject(j)
  \/ Store(j)
  \/ StoreFails(j)
  \/ Index(j)
  \/ Announce(j)
  \/ Report(j)

Worker == Take \/ \E j \in Jobs : WorkOn(j)
Answer(j) == Accept(j) \/ Refuse(j)

IngestNext ==
  \/ \E j \in Jobs : Answer(j) \/ Poll(j) \/ \E d \in Documents : Post(j, d)
  \/ Worker
  \/ Evict
  \/ Tick
  \/ LoseMessage
  \/ Restart

\* The worker's goroutine and those of the HTTP server run.  Nobody has to post
\* or poll.
IngestFairness == WF_vars(Worker) /\ \A j \in Jobs : WF_vars(Answer(j))

IngestSpec == IngestInit /\ [][IngestNext]_vars /\ IngestFairness

-------------------------------------------------------------------------------
\* Properties.

Job == [status : {"absent", "pending"} \cup Terminal, updatedAt : 0..MaxTime]

IngestTypeOK ==
  /\ now \in 0..MaxTime /\ faults \in 0..MaxFaults
  /\ request \in [Jobs -> {"none", "filed", "accepted", "refused", "cut_off"}]
  /\ document \in [Jobs -> Documents]
  /\ tracker \in [Jobs -> Job] /\ outcome \in [Jobs -> Job]
  /\ subject \in Seq(Jobs) /\ sent \in Seq(Jobs)
  /\ \/ work = Idle
     \/ work \in [job : Jobs, next : {"parse", "index", "announce", "report"}]
  /\ stored \subseteq Jobs /\ indexed \subseteq Jobs /\ announced \subseteq Jobs
  /\ lost \subseteq Jobs
  /\ heard \in [Jobs -> {"nothing", "absent", "pending"} \cup Terminal]

\* A published job is in one place: on the subject, at the worker, lost, or
\* finished.  Nothing is published twice, or before its request is accepted, or
\* stored without having been published.
Finished(j) == j \in Published \ (OnSubject \cup AtWork \cup lost)

OnePlace ==
  /\ IsInjective(sent) /\ IsInjective(subject)
  /\ OnSubject \cup AtWork \cup lost \cup stored \subseteq Published
  /\ OnSubject \cap AtWork = {}
  /\ OnSubject \cap lost = {} /\ AtWork \cap lost = {}
  /\ \A j \in Published : request[j] = "accepted"

\* What "completed" stands for: the document is in its table, and evidence that
\* names a policy was announced.
Kept(j) == j \in stored /\ (document[j] = "evidence" => j \in announced)

\* What the worker has done of its document matches the step it takes next.
WorkMatches ==
  /\ OnSubject \cap stored = {}
  /\ \A j \in AtWork :
       /\ work.next # "parse" => j \in stored
       /\ work.next = "index" => document[j] = "artifact"
       /\ work.next = "report" => Kept(j)

\* What the tracker says of a job matches where the job is, what became of it,
\* and what its client has heard.
JobMatches(j) ==
  /\ j \in OnSubject \cup AtWork \/ request[j] = "filed" => tracker[j].status = "pending"
  /\ request[j] = "none" => tracker[j] = Absent /\ outcome[j] = Absent
  /\ request[j] # "accepted" => heard[j] = "nothing"
  /\ j \in lost => tracker[j].status \in {"pending", "absent"}
  /\ tracker[j].status = "completed" => Kept(j)
  /\ heard[j] \in Terminal \cup {"absent"} => tracker[j].status \in {heard[j], "absent"}

TrackerMatches == \A j \in Jobs : JobMatches(j)

\* The subject keeps the order of publication, and the job at the worker was
\* published before all that are still on the subject.
InOrder ==
  \A i, k \in DOMAIN sent : i < k =>
    /\ \A a, b \in DOMAIN subject : subject[a] = sent[i] /\ subject[b] = sent[k] => a < b
    /\ sent[k] \in AtWork => sent[i] \notin OnSubject

\* The inductive invariant of ingest jobs.
IngestInv == IngestTypeOK /\ OnePlace /\ WorkMatches /\ TrackerMatches /\ InOrder

\* A client that has heard "completed" can rely on it whatever happens later:
\* the document is in its table, and evidence that names a policy was announced
\* before the answer could be given (ingest_worker.go:113-117).
HeardCompletedMeansStored == \A j \in Jobs : heard[j] = "completed" => Kept(j)

\* A client that got 503 may post the document again: nothing of the refused
\* job is ever stored (handlers_ingest.go:48-55).
RefusedLeavesNothing == \A j \in Jobs : request[j] = "refused" => j \notin stored

\* Once a client has heard how a job ended it never hears anything else, except
\* that the job is not found, and that for good.
OutcomesAreFinal ==
  [][\A j \in Jobs : heard[j] \in Terminal \cup {"absent"} =>
       heard'[j] \in {heard[j], "absent"}]_vars

\* How a job ended can be polled for the whole ttl, unless the gateway restarts
\* (ingest_tracker.go:55-69): eviction takes finished jobs only, and only those
\* older than the ttl.
OutcomeStaysForTTL ==
  \A j \in Jobs : outcome[j] # Absent /\ now <= outcome[j].updatedAt + TTL
                    => tracker[j] = outcome[j]

\* Documents are stored in the order in which they were published, so the later
\* of two versions of a catalog, policy or log is the one that stays.
LaterNeverOvertaken ==
  \A i, k \in DOMAIN sent :
    i < k /\ sent[k] \in stored => sent[i] \notin OnSubject \cup AtWork

\* A job that is filed does not stay pending, unless its message is lost.
FiledJobsFinish ==
  \A j \in Jobs : tracker[j].status = "pending"
                    ~> tracker[j].status # "pending" \/ j \in lost

===============================================================================
