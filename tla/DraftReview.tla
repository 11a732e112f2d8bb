----------------------------- MODULE DraftReview -----------------------------
(***************************************************************************)
(* Reviewing a draft audit log: PATCH /draft-audit-logs/{id} replaces the  *)
(* reviewer's edits, POST /audit-logs/promote copies the draft, with its   *)
(* edits, to the official audit logs (handlers_audit.go, store.go).        *)
(*                                                                         *)
(* Both read the draft in one statement and write in later ones; requests  *)
(* run concurrently.  PostgreSQL is modelled at READ COMMITTED: a statement *)
(* sees what was committed, an UPDATE takes the row's lock until its       *)
(* transaction ends, waits while another holds it, and then looks at the   *)
(* row again.                                                              *)
(***************************************************************************)
EXTENDS Naturals, FiniteSets

CONSTANTS Drafts,     \* draft ids
          Requests,   \* HTTP requests, each a PATCH or a promotion
          Edits,      \* what a reviewer may send as reviewer_edits
          NoEdits,    \* the value {} of the column
          Nobody      \* no request

ASSUME DraftAssumption == NoEdits \notin Edits /\ Nobody \notin Requests

VARIABLES drafts,     \* draft_audit_logs: draft id -> row
          audits,     \* audit_logs: request that promoted -> its official log
          lock,       \* draft id -> the transaction that holds the row's lock
          pc,         \* request -> the next statement of its handler
          arg,        \* request -> the draft it names and the edits it carries
          seen,       \* request -> the row it read
          reply,      \* request -> how it was answered
          applied     \* ghost: the PATCH requests whose edits reached the table

tableVars == <<drafts, audits, applied>>
vars == <<tableVars, lock, pc, arg, seen, reply>>

Row == [status : {"absent", "pending_review", "promoted"},
        edits : Edits \cup {NoEdits}, reviewedBy : Requests \cup {Nobody}]
Absent == [status |-> "absent", edits |-> NoEdits, reviewedBy |-> Nobody]

DraftInit ==
  /\ drafts = [d \in Drafts |-> Absent]
  /\ audits = << >>
  /\ lock = [d \in Drafts |-> Nobody]
  /\ pc = [r \in Requests |-> "idle"]
  /\ arg \in [Requests -> [draft : Drafts, edits : Edits \cup {NoEdits}]]
  /\ seen = [r \in Requests |-> Absent]
  /\ reply = [r \in Requests |-> "none"]
  /\ applied = {}

Goto(r, step) == pc' = [pc EXCEPT ![r] = step]

Answer(r, status) ==
  /\ reply' = [reply EXCEPT ![r] = status]
  /\ Goto(r, "answered")

Release(r) == lock' = [d \in Drafts |-> IF lock[d] = r THEN Nobody ELSE lock[d]]

-------------------------------------------------------------------------------
\* POST /draft-audit-logs: one INSERT.  (The event that follows it has no
\* subscriber.)
Create(d) ==
  /\ drafts[d] = Absent
  /\ drafts' = [drafts EXCEPT ![d].status = "pending_review"]
  /\ UNCHANGED <<audits, applied, lock, pc, arg, seen, reply>>

-------------------------------------------------------------------------------
\* The first statement of either handler fails, and the handler answers with
\* status, or the client is gone.
ReadFails(r, status) == UNCHANGED seen /\ \E heard \in {status, "none"} : Answer(r, heard)

-------------------------------------------------------------------------------
\* PATCH: a request that carries edits.

\* The draft is read first.  Every error of that read, not only that there is no
\* such row, is answered 404.
ReadForEdit(r) ==
  LET row == drafts[arg[r].draft] IN
  /\ pc[r] = "idle" /\ arg[r].edits # NoEdits
  /\ \/ /\ seen' = [seen EXCEPT ![r] = row]
        /\ CASE row.status = "absent" -> Answer(r, "not_found")
             [] row.status = "promoted" -> Answer(r, "conflict")
             [] OTHER -> Goto(r, "write") /\ UNCHANGED reply
     \/ ReadFails(r, "not_found")
  /\ UNCHANGED <<tableVars, lock, arg>>

\* Mutated form: the WHERE clause has no status.
WriteAnyStatus(r) ==
  LET d == arg[r].draft IN
  /\ pc[r] = "write" /\ lock[d] = Nobody
  /\ drafts' = [drafts EXCEPT ![d].edits = arg[r].edits]
  /\ applied' = applied \cup {r}
  /\ Answer(r, "saved")
  /\ UNCHANGED <<audits, lock, arg, seen>>

\* UPDATE ... WHERE draft_id = $2 AND status = 'pending_review', once the row is
\* not locked.
Updated(r) ==
  LET d == arg[r].draft IN
  /\ pc[r] = "write" /\ lock[d] = Nobody
  /\ IF drafts[d].status = "pending_review"
     THEN drafts' = [drafts EXCEPT ![d].edits = arg[r].edits] /\ applied' = applied \cup {r}
     ELSE UNCHANGED <<drafts, applied>>
  /\ UNCHANGED audits

\* The handler does not look at whether a row matched.
Write(r) ==
  /\ Updated(r)
  /\ Answer(r, "saved")
  /\ UNCHANGED <<lock, arg, seen>>

-------------------------------------------------------------------------------
\* Promotion: a request without edits.

\* Mutated form: a draft that is not found is taken for a promoted one.
ReadForPromotionLoosely(r) ==
  LET row == drafts[arg[r].draft] IN
  /\ pc[r] = "idle" /\ arg[r].edits = NoEdits
  /\ seen' = [seen EXCEPT ![r] = row]
  /\ IF row.status # "pending_review"
     THEN Answer(r, "conflict")
     ELSE Goto(r, "insert") /\ UNCHANGED reply
  /\ UNCHANGED <<tableVars, lock, arg>>

\* The draft is read outside the transaction; only "promoted" is refused.  A
\* draft that does not exist, like any failed read, is an internal error here.
ReadForPromotion(r) ==
  LET row == drafts[arg[r].draft] IN
  /\ pc[r] = "idle" /\ arg[r].edits = NoEdits
  /\ \/ /\ seen' = [seen EXCEPT ![r] = row]
        /\ CASE row.status = "absent" -> Answer(r, "error")
             [] row.status = "promoted" -> Answer(r, "conflict")
             [] OTHER -> Goto(r, "insert") /\ UNCHANGED reply
     \/ ReadFails(r, "error")
  /\ UNCHANGED <<tableVars, lock, arg>>

\* INSERT INTO audit_logs, with a new id and the edits that were read merged in.
\* Nobody sees the row before the commit.
InsertOfficial(r) ==
  /\ pc[r] = "insert"
  /\ Goto(r, "mark")
  /\ UNCHANGED <<tableVars, lock, arg, seen, reply>>

\* UPDATE draft_audit_logs SET status = 'promoted' WHERE draft_id = $3.
MarkPromoted(r) ==
  LET d == arg[r].draft IN
  /\ pc[r] = "mark" /\ lock[d] = Nobody
  /\ lock' = [lock EXCEPT ![d] = r]
  /\ Goto(r, "commit")
  /\ UNCHANGED <<tableVars, arg, seen, reply>>

Official(r) == [draft |-> arg[r].draft, edits |-> seen[r].edits]

Committed(r) ==
  /\ audits' = [q \in DOMAIN audits \cup {r} |-> IF q = r THEN Official(r) ELSE audits[q]]
  /\ drafts' = [drafts EXCEPT ![arg[r].draft].status = "promoted",
                              ![arg[r].draft].reviewedBy = r]
  /\ UNCHANGED applied

\* Mutated form: the mark is left out of the transaction.
CommitLogOnly(r) ==
  /\ pc[r] = "commit"
  /\ audits' = [q \in DOMAIN audits \cup {r} |-> IF q = r THEN Official(r) ELSE audits[q]]
  /\ UNCHANGED <<drafts, applied>>
  /\ Release(r)
  /\ Answer(r, "promoted")
  /\ UNCHANGED <<arg, seen>>

Commit(r) ==
  /\ pc[r] = "commit"
  /\ Committed(r)
  /\ Release(r)
  /\ Answer(r, "promoted")
  /\ UNCHANGED <<arg, seen>>

\* Mutated form: there is no deferred Rollback.
FailAndKeepLock(r) ==
  /\ pc[r] \in {"write", "insert", "mark", "commit"}
  /\ \E status \in {"error", "none"} : Answer(r, status)
  /\ UNCHANGED <<tableVars, lock, arg, seen>>

\* A statement fails, the client goes away, or the gateway dies: the deferred
\* Rollback, or PostgreSQL, undoes the transaction.  When what failed is the
\* answer to a PATCH's UPDATE or to COMMIT, the server may have carried it out.
Fail(r) ==
  /\ pc[r] \in {"write", "insert", "mark", "commit"}
  /\ \/ UNCHANGED tableVars
     \/ Updated(r)
     \/ pc[r] = "commit" /\ Committed(r)
  /\ Release(r)
  /\ \E status \in {"error", "none"} : Answer(r, status)
  /\ UNCHANGED <<arg, seen>>

-------------------------------------------------------------------------------
Edit(r) == ReadForEdit(r) \/ Write(r)

Promote(r) == ReadForPromotion(r) \/ InsertOfficial(r) \/ MarkPromoted(r) \/ Commit(r)

Handle(r) == Edit(r) \/ Promote(r) \/ Fail(r)

DraftNext ==
  \/ \E d \in Drafts : Create(d)
  \/ \E r \in Requests : Handle(r)

\* A handler that was entered goes on, and a waiting UPDATE gets its lock in
\* turn.  Nothing obliges a statement to fail or a client to send a request.
DraftFairness ==
  \A r \in Requests : SF_vars(pc[r] # "idle" /\ (Edit(r) \/ Promote(r)))

DraftSpec == DraftInit /\ [][DraftNext]_vars /\ DraftFairness

-------------------------------------------------------------------------------
\* Properties.

DraftTypeOK ==
  /\ drafts \in [Drafts -> Row]
  /\ DOMAIN audits \subseteq Requests
  /\ \A r \in DOMAIN audits :
       audits[r] \in [draft : Drafts, edits : Edits \cup {NoEdits}]
  /\ lock \in [Drafts -> Requests \cup {Nobody}]
  /\ pc \in [Requests -> {"idle", "write", "insert", "mark", "commit", "answered"}]
  /\ arg \in [Requests -> [draft : Drafts, edits : Edits \cup {NoEdits}]]
  /\ seen \in [Requests -> Row]
  /\ reply \in [Requests ->
                 {"none", "not_found", "conflict", "saved", "promoted", "error"}]
  /\ applied \subseteq Requests

\* A lock is held exactly while its promotion is between its UPDATE and the end
\* of the transaction, and handlers past their first statement read a draft that
\* was pending.
DraftBooks ==
  /\ \A d \in Drafts, r \in Requests :
       lock[d] = r <=> pc[r] = "commit" /\ arg[r].draft = d
  /\ \A r \in Requests :
       /\ pc[r] \in {"write", "insert", "mark", "commit"} =>
            /\ seen[r].status = "pending_review"
            /\ drafts[arg[r].draft].status # "absent"
            /\ reply[r] = "none" /\ r \notin DOMAIN audits
       /\ pc[r] = "write" => arg[r].edits # NoEdits
       /\ pc[r] \in {"insert", "mark", "commit"} => arg[r].edits = NoEdits
       /\ pc[r] = "idle" => r \notin DOMAIN audits

DraftInv == DraftTypeOK /\ DraftBooks

\* The two tables agree whatever fails and whoever interferes: a draft is marked
\* promoted if and only if there is an official log made from it, and the
\* reviewer in its row is the author of one of them (store.go:1473-1496).
PromotedIffOfficial ==
  \A d \in Drafts :
    IF drafts[d].status = "promoted"
    THEN drafts[d].reviewedBy \in {r \in DOMAIN audits : audits[r].draft = d}
    ELSE {r \in DOMAIN audits : audits[r].draft = d} = {}

\* A promoted draft is frozen: no PATCH that read it before its promotion, and
\* waited for the lock, changes its edits afterwards (store.go:1439).
PromotedIsFrozen ==
  [][\A d \in Drafts : drafts[d].status = "promoted" =>
       drafts'[d].status = "promoted" /\ drafts'[d].edits = drafts[d].edits]_vars

\* What the handlers answer about promotions is so, and stays so: "promoted" is
\* answered to those whose log is in the table, "conflict" only when the draft has
\* an official log (handlers_audit.go:262-303).
PromotionAnswersAreTrue ==
  \A r \in Requests :
    /\ reply[r] = "promoted" => r \in DOMAIN audits
    /\ reply[r] = "conflict" => \E q \in DOMAIN audits : audits[q].draft = arg[r].draft

\* Every request whose handler was entered is answered, or its client is gone: no
\* lock outlives its transaction.
RequestsAreAnswered == \A r \in Requests : pc[r] # "idle" ~> pc[r] = "answered"

\* docs/api/openapi.yaml:471-472, 409 "Already promoted": a draft that was
\* promoted cannot be promoted again, so it has one official log.
AtMostOneOfficial ==
  \A q, r \in DOMAIN audits : audits[q].draft = audits[r].draft => q = r

\* store.go:1444, "copies a draft to the official audit_logs table and marks it
\* promoted": the edits that a promoted draft shows are in an official log.
OfficialIsCopyOfDraft ==
  \A d \in Drafts : drafts[d].status = "promoted" =>
    \E r \in DOMAIN audits : audits[r] = [draft |-> d, edits |-> drafts[d].edits]

\* docs/api/openapi.yaml:567-579, 200 "saved", 409 "Draft already promoted": a
\* PATCH answered "saved" was not overtaken by a promotion, its edits reached the
\* table (store.go:1438-1441).
SavedMeansApplied == \A r \in Requests : reply[r] = "saved" => r \in applied

===============================================================================
