-------------------------- MODULE DraftReviewProofs ----------------------------
(***************************************************************************)
(* Proofs about DraftReview, for any drafts, requests and edits.           *)
(***************************************************************************)
EXTENDS DraftReview, TLAPS

\* Who was not let in yet has no answer.
IdleUnanswered == \A r \in Requests : pc[r] = "idle" => reply[r] = "none"

\* The inductive invariant.
IInv == DraftTypeOK /\ DraftBooks /\ IdleUnanswered /\ PromotedIffOfficial /\ PromotionAnswersAreTrue

\* At first there is no draft and no request was let in.
LEMMA InitIInv == DraftInit => IInv
<1> SUFFICES ASSUME DraftInit PROVE IInv
  OBVIOUS
<1> USE DraftAssumption DEF DraftInit, Absent
<1>1. DraftTypeOK
  BY DEF DraftTypeOK, Row
<1>2. DraftBooks /\ IdleUnanswered
  BY DEF DraftBooks, IdleUnanswered
<1>3. PromotedIffOfficial /\ PromotionAnswersAreTrue
  BY DEF PromotedIffOfficial, PromotionAnswersAreTrue
<1> QED
  BY <1>1, <1>2, <1>3 DEF IInv

-------------------------------------------------------------------------------
\* What the statements make of a row.

Edited(row, e) == [row EXCEPT !.edits = e]
Marked(row, r) == [[row EXCEPT !.status = "promoted"] EXCEPT !.reviewedBy = r]

LEMMA RowFields ==
  ASSUME NEW row \in Row
  PROVE  row.status \in {"absent", "pending_review", "promoted"} /\ row.edits \in Edits \cup {NoEdits}
BY DEF Row

LEMMA EditedRow ==
  ASSUME NEW row \in Row, NEW e \in Edits \cup {NoEdits}
  PROVE  /\ Edited(row, e) \in Row
         /\ Edited(row, e).status = row.status
         /\ Edited(row, e).reviewedBy = row.reviewedBy
BY DEF Row, Edited

LEMMA MarkedRow ==
  ASSUME NEW row \in Row, NEW r \in Requests
  PROVE  /\ Marked(row, r) \in Row
         /\ Marked(row, r).status = "promoted"
         /\ Marked(row, r).reviewedBy = r
         /\ Marked(row, r).edits = row.edits
BY DEF Row, Marked

\* A draft is created once, pending and without edits.
LEMMA CreateEffect ==
  ASSUME DraftTypeOK, NEW d \in Drafts, Create(d)
  PROVE  /\ drafts' \in [Drafts -> Row]
         /\ \A c \in Drafts \ {d} : drafts'[c] = drafts[c]
         /\ drafts[d].status = "absent" /\ drafts'[d].status = "pending_review"
<1> DEFINE row == [drafts[d] EXCEPT !.status = "pending_review"]
<1>1. drafts[d] = Absent /\ drafts' = [drafts EXCEPT ![d] = row] /\ drafts \in [Drafts -> Row]
  BY DEF Create, DraftTypeOK
<1>2. row = [status |-> "pending_review", edits |-> NoEdits, reviewedBy |-> Nobody]
  BY <1>1 DEF Absent
<1>3. row \in Row /\ row.status = "pending_review" /\ drafts[d].status = "absent"
  BY <1>1, <1>2 DEF Row, Absent
<1> HIDE DEF row
<1> QED
  BY <1>1, <1>3

\* A PATCH replaces the edits of a draft that is pending, and of no other, whatever its
\* client hears.
LEMMA UpdatedEffect ==
  ASSUME DraftTypeOK, NEW r \in Requests, Updated(r)
  PROVE  /\ drafts' \in [Drafts -> Row] /\ audits' = audits
         /\ \A d \in Drafts :
              /\ drafts'[d].status = drafts[d].status /\ drafts'[d].reviewedBy = drafts[d].reviewedBy
              /\ drafts[d].status # "pending_review" => drafts'[d] = drafts[d]
         /\ applied' \subseteq Requests
<1> DEFINE d == arg[r].draft
<1> DEFINE e == arg[r].edits
<1>1. d \in Drafts /\ e \in Edits \cup {NoEdits} /\ drafts \in [Drafts -> Row] /\ applied \subseteq Requests
  BY DEF DraftTypeOK
<1>2. \/ UNCHANGED <<drafts, applied>> /\ drafts[d].status # "pending_review"
      \/ /\ drafts[d].status = "pending_review" /\ drafts' = [drafts EXCEPT ![d] = Edited(drafts[d], e)]
         /\ applied' = applied \cup {r}
  BY DEF Updated, Edited
<1> HIDE DEF d, e
<1>3. /\ Edited(drafts[d], e) \in Row
      /\ Edited(drafts[d], e).status = drafts[d].status
      /\ Edited(drafts[d], e).reviewedBy = drafts[d].reviewedBy
  BY <1>1, EditedRow
<1>4. /\ drafts' \in [Drafts -> Row]
      /\ \A c \in Drafts :
           /\ drafts'[c].status = drafts[c].status /\ drafts'[c].reviewedBy = drafts[c].reviewedBy
           /\ drafts[c].status # "pending_review" => drafts'[c] = drafts[c]
  BY <1>1, <1>2, <1>3
<1> QED
  BY <1>1, <1>2, <1>4 DEF Updated

\* A commit marks its draft, keeps the draft's edits, and adds its log.
LEMMA CommittedEffect ==
  ASSUME DraftTypeOK, NEW r \in Requests, Committed(r)
  PROVE  /\ drafts' \in [Drafts -> Row]
         /\ \A d \in Drafts \ {arg[r].draft} : drafts'[d] = drafts[d]
         /\ drafts'[arg[r].draft].status = "promoted" /\ drafts'[arg[r].draft].reviewedBy = r
         /\ drafts'[arg[r].draft].edits = drafts[arg[r].draft].edits
         /\ DOMAIN audits' = DOMAIN audits \cup {r} /\ audits'[r] = Official(r)
         /\ \A q \in DOMAIN audits \ {r} : audits'[q] = audits[q]
         /\ applied' = applied
<1> DEFINE d == arg[r].draft
<1> DEFINE row == [drafts[d] EXCEPT !.status = "promoted"]
<1>1. d \in Drafts /\ drafts \in [Drafts -> Row]
  BY DEF DraftTypeOK
<1>2. /\ audits' = [q \in DOMAIN audits \cup {r} |-> IF q = r THEN Official(r) ELSE audits[q]]
      /\ applied' = applied
      /\ drafts' = [[drafts EXCEPT ![d] = row] EXCEPT ![d] = [[drafts EXCEPT ![d] = row][d] EXCEPT !.reviewedBy = r]]
  BY DEF Committed
<1>3. drafts' = [drafts EXCEPT ![d] = Marked(drafts[d], r)]
  <2> HIDE DEF d, row
  <2>1. [drafts EXCEPT ![d] = row][d] = row
    BY <1>1
  <2>2. drafts' = [drafts EXCEPT ![d] = [row EXCEPT !.reviewedBy = r]]
    BY <1>1, <1>2, <2>1
  <2> QED
    BY <2>2 DEF row, Marked
<1> HIDE DEF d
<1>4. /\ Marked(drafts[d], r) \in Row
      /\ Marked(drafts[d], r).status = "promoted"
      /\ Marked(drafts[d], r).reviewedBy = r
      /\ Marked(drafts[d], r).edits = drafts[d].edits
  BY <1>1, MarkedRow
<1>5. /\ drafts' \in [Drafts -> Row]
      /\ drafts'[d] = Marked(drafts[d], r)
      /\ \A c \in Drafts \ {d} : drafts'[c] = drafts[c]
  BY <1>1, <1>3, <1>4
<1> QED
  BY <1>2, <1>4, <1>5 DEF d

-------------------------------------------------------------------------------
\* What the steps of the other invariants need of the types.
Shape ==
  /\ drafts = [d \in Drafts |-> drafts[d]] /\ lock = [d \in Drafts |-> lock[d]]
  /\ pc = [r \in Requests |-> pc[r]]
  /\ seen = [r \in Requests |-> seen[r]] /\ reply = [r \in Requests |-> reply[r]]
  /\ \A r \in Requests : arg[r].draft \in Drafts
  /\ \A d \in Drafts : drafts[d].status \in {"absent", "pending_review", "promoted"}
  /\ DOMAIN audits \subseteq Requests

LEMMA TypesShape == DraftTypeOK => Shape
<1> SUFFICES ASSUME DraftTypeOK PROVE Shape
  OBVIOUS
<1>1. \A d \in Drafts : drafts[d].status \in {"absent", "pending_review", "promoted"}
  BY RowFields DEF DraftTypeOK
<1> QED
  BY <1>1 DEF DraftTypeOK, Shape

\* A transaction that is committed, whatever its client hears, and one that is not.
Commits(r, status) ==
  pc[r] = "commit" /\ Committed(r) /\ Release(r) /\ Answer(r, status) /\ UNCHANGED <<arg, seen>>

Aborts(r) == Fail(r) /\ (UNCHANGED tableVars \/ Updated(r))

\* No log and no status was written, and no reviewer: at most the edits of a pending draft.
Unmarked ==
  /\ drafts' \in [Drafts -> Row] /\ audits' = audits /\ applied' \subseteq Requests
  /\ \A d \in Drafts :
       drafts'[d].status = drafts[d].status /\ drafts'[d].reviewedBy = drafts[d].reviewedBy

LEMMA UpdatedUnmarked ==
  ASSUME DraftTypeOK, NEW r \in Requests, UNCHANGED tableVars \/ Updated(r)
  PROVE  Unmarked
<1>1. CASE UNCHANGED tableVars
  BY <1>1 DEF tableVars, Unmarked, DraftTypeOK
<1>2. CASE Updated(r)
  BY <1>2, UpdatedEffect DEF Unmarked
<1> QED
  BY <1>1, <1>2

\* The transaction of r has ended, and r was answered.
Ended(r, status) ==
  /\ pc[r] \in {"write", "insert", "mark", "commit"} /\ arg' = arg /\ seen' = seen
  /\ pc'[r] = "answered" /\ reply'[r] = status
  /\ \A q \in Requests \ {r} : pc'[q] = pc[q] /\ reply'[q] = reply[q]
  /\ \A d \in Drafts : lock'[d] = IF lock[d] = r THEN Nobody ELSE lock[d]

\* It has left its mark and its log.
Kept(r) ==
  /\ pc[r] = "commit" /\ applied' = applied
  /\ \A d \in Drafts \ {arg[r].draft} : drafts'[d] = drafts[d]
  /\ drafts'[arg[r].draft].status = "promoted" /\ drafts'[arg[r].draft].reviewedBy = r
  /\ DOMAIN audits' = DOMAIN audits \cup {r} /\ audits'[r].draft = arg[r].draft
  /\ \A q \in DOMAIN audits \ {r} : audits'[q] = audits[q]

\* The first statement of r has found its draft or failed, and r was answered or goes on.
Looked(r) ==
  LET status == drafts[arg[r].draft].status IN
  /\ pc[r] = "idle" /\ UNCHANGED <<drafts, audits, applied, lock, arg>>
  /\ \A q \in Requests \ {r} : pc'[q] = pc[q] /\ reply'[q] = reply[q] /\ seen'[q] = seen[q]
  /\ \/ pc'[r] = "answered" /\ reply'[r] \in {"error", "not_found", "none"}
     \/ status = "promoted" /\ pc'[r] = "answered" /\ reply'[r] = "conflict"
     \/ /\ status = "pending_review" /\ reply'[r] = reply[r] /\ seen'[r].status = status
        /\ pc'[r] = IF arg[r].edits = NoEdits THEN "insert" ELSE "write"

Looks(r) == ReadForEdit(r) \/ ReadForPromotion(r)

LEMMA LooksEffect ==
  ASSUME DraftTypeOK, NEW r \in Requests, Looks(r)
  PROVE  Looked(r)
<1>1. Shape
  BY TypesShape
<1>2. pc[r] = "idle" /\ UNCHANGED <<drafts, audits, applied, lock, arg>>
  BY DEF Looks, ReadForEdit, ReadForPromotion, tableVars
<1> DEFINE status == drafts[arg[r].draft].status
<1> DEFINE next == IF arg[r].edits = NoEdits THEN "insert" ELSE "write"
<1>3. status \in {"absent", "pending_review", "promoted"}
  BY <1>1 DEF Shape
<1>4. \/ /\ seen' = [seen EXCEPT ![r] = drafts[arg[r].draft]]
         /\ \/ \E answer \in {"error", "not_found"} : Answer(r, answer)
            \/ status = "promoted" /\ Answer(r, "conflict")
            \/ status = "pending_review" /\ UNCHANGED reply /\ Goto(r, next)
      \/ UNCHANGED seen /\ \E answer \in {"error", "not_found", "none"} : Answer(r, answer)
  BY <1>3 DEF Looks, ReadForEdit, ReadForPromotion, ReadFails
<1>5. \A q \in Requests \ {r} : seen'[q] = seen[q]
  BY <1>1, <1>4 DEF Shape
<1>6. seen' = [seen EXCEPT ![r] = drafts[arg[r].draft]] => seen'[r].status = status
  BY <1>1 DEF Shape
<1> HIDE DEF status, next
<1>7. /\ \A q \in Requests \ {r} : pc'[q] = pc[q] /\ reply'[q] = reply[q]
      /\ \/ pc'[r] = "answered" /\ reply'[r] \in {"error", "not_found", "none"}
         \/ status = "promoted" /\ pc'[r] = "answered" /\ reply'[r] = "conflict"
         \/ status = "pending_review" /\ reply'[r] = reply[r] /\ seen'[r].status = status /\ pc'[r] = next
  BY <1>1, <1>4, <1>6 DEF Shape, Answer, Goto
<1> QED
  BY <1>2, <1>5, <1>7 DEF Looked, status, next

LEMMA CommitsEffect ==
  ASSUME DraftTypeOK, NEW r \in Requests, NEW status, Commits(r, status)
  PROVE  Ended(r, status) /\ Kept(r)
<1>1. Ended(r, status)
  BY TypesShape DEF Commits, Ended, Shape, Answer, Goto, Release
<1>2. pc[r] = "commit" /\ Committed(r)
  BY DEF Commits
<1>3. Official(r).draft = arg[r].draft
  BY DEF Official
<1> QED
  BY <1>1, <1>2, <1>3, CommittedEffect DEF Kept

LEMMA AbortsEffect ==
  ASSUME DraftTypeOK, NEW r \in Requests, Aborts(r)
  PROVE  Unmarked /\ \E status \in {"error", "none"} : Ended(r, status)
<1>1. PICK status \in {"error", "none"} : Answer(r, status)
  BY DEF Aborts, Fail
<1>2. /\ pc[r] \in {"write", "insert", "mark", "commit"} /\ Release(r)
      /\ UNCHANGED <<arg, seen>>
  BY DEF Aborts, Fail
<1>3. Unmarked
  BY UpdatedUnmarked DEF Aborts
<1> QED
  BY <1>1, <1>2, <1>3, TypesShape DEF Ended, Shape, Answer, Goto, Release

LEMMA WriteEffect ==
  ASSUME DraftTypeOK, NEW r \in Requests, Write(r)
  PROVE  Unmarked /\ pc[r] = "write" /\ Answer(r, "saved") /\ UNCHANGED <<lock, arg, seen>>
BY UpdatedEffect DEF Write, Updated, Unmarked

\* The steps, by what they do to the tables.
Steps ==
  \/ \E d \in Drafts : Create(d)
  \/ \E r \in Requests :
       Looks(r) \/ Write(r) \/ InsertOfficial(r) \/ MarkPromoted(r) \/ Aborts(r)
  \/ \E r \in Requests, status \in {"promoted", "error", "none"} : Commits(r, status)
  \/ UNCHANGED vars

LEMMA StepCases == [DraftNext]_vars => Steps
<1>1. ASSUME NEW r \in Requests, Commit(r) PROVE Commits(r, "promoted")
  BY <1>1 DEF Commit, Commits
<1>2. ASSUME NEW r \in Requests, Fail(r)
      PROVE  Aborts(r) \/ \E status \in {"promoted", "error", "none"} : Commits(r, status)
  BY <1>2 DEF Fail, Aborts, Commits
<1> QED
  BY <1>1, <1>2 DEF DraftNext, Handle, Edit, Promote, Looks, Steps

\* Rows stay rows, and locks, answers and logs are what the columns hold.
LEMMA TypeStep == DraftTypeOK /\ [DraftNext]_vars => DraftTypeOK'
<1> SUFFICES ASSUME DraftTypeOK, [DraftNext]_vars PROVE DraftTypeOK'
  OBVIOUS
<1> USE DraftAssumption DEF DraftTypeOK, tableVars, Answer, Goto, Release
<1>1. ASSUME NEW d \in Drafts, Create(d) PROVE DraftTypeOK'
  <2>1. /\ drafts' \in [Drafts -> Row] /\ \A c \in Drafts \ {d} : drafts'[c] = drafts[c]
        /\ drafts[d].status = "absent" /\ drafts'[d].status = "pending_review"
    BY <1>1, CreateEffect
  <2> QED
    BY <1>1, <2>1 DEF Create
<1>2. ASSUME NEW r \in Requests, ReadForEdit(r) PROVE DraftTypeOK'
  <2>1. seen' \in [Requests -> Row] /\ UNCHANGED <<drafts, audits, applied, lock, arg>>
    BY <1>2 DEF ReadForEdit, ReadFails
  <2>2. \/ \E status \in {"not_found", "conflict", "none"} : Answer(r, status)
        \/ Goto(r, "write") /\ UNCHANGED reply
    BY <1>2 DEF ReadForEdit, ReadFails
  <2>3. /\ reply' \in [Requests -> {"none", "not_found", "conflict", "saved", "promoted", "error"}]
        /\ pc' \in [Requests -> {"idle", "write", "insert", "mark", "commit", "answered"}]
    <3>1. ASSUME NEW status \in {"not_found", "conflict", "none"}, Answer(r, status)
          PROVE  /\ reply' \in [Requests -> {"none", "not_found", "conflict", "saved", "promoted", "error"}]
                 /\ pc' \in [Requests -> {"idle", "write", "insert", "mark", "commit", "answered"}]
      <4>1. reply' = [reply EXCEPT ![r] = status] /\ pc' = [pc EXCEPT ![r] = "answered"]
        BY <3>1
      <4> QED
        BY <4>1
    <3>2. CASE Goto(r, "write") /\ UNCHANGED reply
      BY <3>2
    <3> QED
      BY <2>2, <3>1, <3>2
  <2> QED
    BY <2>1, <2>3
<1>3. ASSUME NEW r \in Requests, Write(r) PROVE DraftTypeOK'
  BY <1>3, WriteEffect DEF Unmarked
<1>4. ASSUME NEW r \in Requests, ReadForPromotion(r) PROVE DraftTypeOK'
  <2>1. seen' \in [Requests -> Row] /\ UNCHANGED <<drafts, audits, applied, lock, arg>>
    BY <1>4 DEF ReadForPromotion, ReadFails
  <2>2. \/ \E status \in {"error", "conflict", "none"} : Answer(r, status)
        \/ Goto(r, "insert") /\ UNCHANGED reply
    BY <1>4 DEF ReadForPromotion, ReadFails
  <2>3. /\ reply' \in [Requests -> {"none", "not_found", "conflict", "saved", "promoted", "error"}]
        /\ pc' \in [Requests -> {"idle", "write", "insert", "mark", "commit", "answered"}]
    <3>1. ASSUME NEW status \in {"error", "conflict", "none"}, Answer(r, status)
          PROVE  /\ reply' \in [Requests -> {"none", "not_found", "conflict", "saved", "promoted", "error"}]
                 /\ pc' \in [Requests -> {"idle", "write", "insert", "mark", "commit", "answered"}]
      <4>1. reply' = [reply EXCEPT ![r] = status] /\ pc' = [pc EXCEPT ![r] = "answered"]
        BY <3>1
      <4> QED
        BY <4>1
    <3>2. CASE Goto(r, "insert") /\ UNCHANGED reply
      BY <3>2
    <3> QED
      BY <2>2, <3>1, <3>2
  <2> QED
    BY <2>1, <2>3
<1>5. ASSUME NEW r \in Requests, InsertOfficial(r) PROVE DraftTypeOK'
  BY <1>5 DEF InsertOfficial
<1>6. ASSUME NEW r \in Requests, MarkPromoted(r) PROVE DraftTypeOK'
  BY <1>6 DEF MarkPromoted
<1>7. ASSUME NEW r \in Requests, Commit(r) PROVE DraftTypeOK'
  <2>1. /\ drafts' \in [Drafts -> Row] /\ applied' = applied
        /\ DOMAIN audits' = DOMAIN audits \cup {r} /\ audits'[r] = Official(r)
        /\ \A q \in DOMAIN audits \ {r} : audits'[q] = audits[q]
    BY <1>7, CommittedEffect DEF Commit
  <2>2. seen[r].edits \in Edits \cup {NoEdits}
    BY RowFields
  <2>3. Official(r) \in [draft : Drafts, edits : Edits \cup {NoEdits}]
    BY <2>2 DEF Official
  <2>4. /\ DOMAIN audits' \subseteq Requests
        /\ \A q \in DOMAIN audits' : audits'[q] \in [draft : Drafts, edits : Edits \cup {NoEdits}]
    BY <2>1, <2>3
  <2> QED
    BY <1>7, <2>1, <2>4 DEF Commit
<1>8. ASSUME NEW r \in Requests, Fail(r) PROVE DraftTypeOK'
  <2>1. CASE UNCHANGED tableVars \/ Updated(r)
    <3>1. Unmarked
      BY <2>1, UpdatedUnmarked
    <3> QED
      BY <1>8, <3>1 DEF Fail, Unmarked
  <2>2. CASE Committed(r)
    <3>1. /\ drafts' \in [Drafts -> Row] /\ applied' = applied
          /\ DOMAIN audits' = DOMAIN audits \cup {r} /\ audits'[r] = Official(r)
          /\ \A q \in DOMAIN audits \ {r} : audits'[q] = audits[q]
      BY <2>2, CommittedEffect
    <3>2. seen[r].edits \in Edits \cup {NoEdits}
      BY RowFields
    <3>3. Official(r) \in [draft : Drafts, edits : Edits \cup {NoEdits}]
      BY <3>2 DEF Official
    <3>4. /\ DOMAIN audits' \subseteq Requests
          /\ \A q \in DOMAIN audits' : audits'[q] \in [draft : Drafts, edits : Edits \cup {NoEdits}]
      BY <3>1, <3>3
    <3> QED
      BY <1>8, <3>1, <3>4 DEF Fail
  <2> QED
    BY <1>8, <2>1, <2>2 DEF Fail
<1>9. ASSUME UNCHANGED vars PROVE DraftTypeOK'
  BY <1>9 DEF vars
<1> QED
  BY <1>1, <1>2, <1>3, <1>4, <1>5, <1>6, <1>7, <1>8, <1>9 DEF DraftNext, Handle, Edit, Promote

\* A handler past its first statement has read a pending draft, which is there since; a
\* lock is taken by the promotion's UPDATE and goes with its transaction.
LEMMA BooksStep ==
  DraftTypeOK /\ DraftBooks /\ IdleUnanswered /\ [DraftNext]_vars => DraftBooks' /\ IdleUnanswered'
<1> DEFINE Goal == DraftBooks' /\ IdleUnanswered'
<1> SUFFICES ASSUME DraftTypeOK, DraftBooks, IdleUnanswered, [DraftNext]_vars PROVE Goal
  OBVIOUS
<1>0. Shape
  BY TypesShape
<1> USE <1>0, DraftAssumption DEF Shape, DraftBooks, IdleUnanswered, tableVars, Answer, Goto, Release
<1>1. ASSUME NEW d \in Drafts, Create(d) PROVE Goal
  <2>1. /\ drafts' \in [Drafts -> Row] /\ \A c \in Drafts \ {d} : drafts'[c] = drafts[c]
        /\ drafts[d].status = "absent" /\ drafts'[d].status = "pending_review"
    BY <1>1, CreateEffect
  <2> QED
    BY <1>1, <2>1 DEF Create
<1>2. ASSUME NEW r \in Requests, Looks(r) PROVE Goal
  <2>1. Looked(r)
    BY <1>2, LooksEffect
  <2> QED
    BY <2>1 DEF Looked
<1>3. ASSUME NEW r \in Requests, Write(r) PROVE Goal
  BY <1>3, WriteEffect DEF Unmarked
<1>4. ASSUME NEW r \in Requests, InsertOfficial(r) PROVE Goal
  BY <1>4 DEF InsertOfficial
<1>5. ASSUME NEW r \in Requests, MarkPromoted(r) PROVE Goal
  BY <1>5 DEF MarkPromoted
<1>6. ASSUME NEW r \in Requests, NEW status \in {"promoted", "error", "none"}, Commits(r, status) PROVE Goal
  <2>1. Ended(r, status) /\ Kept(r)
    BY <1>6, CommitsEffect
  <2> QED
    BY <2>1 DEF Ended, Kept
<1>7. ASSUME NEW r \in Requests, Aborts(r) PROVE Goal
  <2>1. Unmarked /\ \E status \in {"error", "none"} : Ended(r, status)
    BY <1>7, AbortsEffect
  <2> QED
    BY <2>1 DEF Ended, Unmarked
<1>8. ASSUME UNCHANGED vars PROVE Goal
  BY <1>8 DEF vars
<1>9. Steps
  BY StepCases
<1> QED
  BY <1>1, <1>2, <1>3, <1>4, <1>5, <1>6, <1>7, <1>8, <1>9 DEF Steps

\* Row and log are written by one commit, of a request that had no log before; an edit
\* leaves the status and the reviewer alone.
LEMMA AgreeStep ==
  DraftTypeOK /\ DraftBooks /\ PromotedIffOfficial /\ [DraftNext]_vars => PromotedIffOfficial'
<1> SUFFICES ASSUME DraftTypeOK, DraftBooks, PromotedIffOfficial, [DraftNext]_vars
             PROVE  PromotedIffOfficial'
  OBVIOUS
<1>0. Shape
  BY TypesShape
<1> USE <1>0, DraftAssumption DEF Shape, DraftBooks, PromotedIffOfficial, tableVars, Answer, Goto, Release
<1>1. ASSUME NEW d \in Drafts, Create(d) PROVE PromotedIffOfficial'
  <2>1. /\ drafts' \in [Drafts -> Row] /\ \A c \in Drafts \ {d} : drafts'[c] = drafts[c]
        /\ drafts[d].status = "absent" /\ drafts'[d].status = "pending_review"
    BY <1>1, CreateEffect
  <2> QED
    BY <1>1, <2>1 DEF Create
<1>2. ASSUME NEW r \in Requests, Looks(r) PROVE PromotedIffOfficial'
  <2>1. Looked(r)
    BY <1>2, LooksEffect
  <2> QED
    BY <2>1 DEF Looked
<1>3. ASSUME NEW r \in Requests, Write(r) PROVE PromotedIffOfficial'
  BY <1>3, WriteEffect DEF Unmarked
<1>4. ASSUME NEW r \in Requests, InsertOfficial(r) PROVE PromotedIffOfficial'
  BY <1>4 DEF InsertOfficial
<1>5. ASSUME NEW r \in Requests, MarkPromoted(r) PROVE PromotedIffOfficial'
  BY <1>5 DEF MarkPromoted
<1>6. ASSUME NEW r \in Requests, NEW status \in {"promoted", "error", "none"}, Commits(r, status) PROVE PromotedIffOfficial'
  <2>1. Ended(r, status) /\ Kept(r)
    BY <1>6, CommitsEffect
  <2> QED
    BY <2>1 DEF Ended, Kept
<1>7. ASSUME NEW r \in Requests, Aborts(r) PROVE PromotedIffOfficial'
  <2>1. Unmarked /\ \E status \in {"error", "none"} : Ended(r, status)
    BY <1>7, AbortsEffect
  <2> QED
    BY <2>1 DEF Ended, Unmarked
<1>8. ASSUME UNCHANGED vars PROVE PromotedIffOfficial'
  BY <1>8 DEF vars
<1>9. Steps
  BY StepCases
<1> QED
  BY <1>1, <1>2, <1>3, <1>4, <1>5, <1>6, <1>7, <1>8, <1>9 DEF Steps

\* An answer is true when it is given and nothing takes it back: logs do not go.
LEMMA TrueStep ==
  DraftTypeOK /\ DraftBooks /\ PromotedIffOfficial /\ PromotionAnswersAreTrue /\ [DraftNext]_vars
    => PromotionAnswersAreTrue'
<1> SUFFICES ASSUME DraftTypeOK, DraftBooks, PromotedIffOfficial, PromotionAnswersAreTrue, [DraftNext]_vars
             PROVE  PromotionAnswersAreTrue'
  OBVIOUS
<1>0. Shape
  BY TypesShape
<1> USE <1>0, DraftAssumption DEF Shape, DraftBooks, PromotedIffOfficial, PromotionAnswersAreTrue,
                            tableVars, Answer, Goto, Release
<1>1. ASSUME NEW d \in Drafts, Create(d) PROVE PromotionAnswersAreTrue'
  <2>1. /\ drafts' \in [Drafts -> Row] /\ \A c \in Drafts \ {d} : drafts'[c] = drafts[c]
        /\ drafts[d].status = "absent" /\ drafts'[d].status = "pending_review"
    BY <1>1, CreateEffect
  <2> QED
    BY <1>1, <2>1 DEF Create
<1>2. ASSUME NEW r \in Requests, Looks(r) PROVE PromotionAnswersAreTrue'
  <2>1. Looked(r)
    BY <1>2, LooksEffect
  <2> QED
    BY <2>1 DEF Looked
<1>3. ASSUME NEW r \in Requests, Write(r) PROVE PromotionAnswersAreTrue'
  BY <1>3, WriteEffect DEF Unmarked
<1>4. ASSUME NEW r \in Requests, InsertOfficial(r) PROVE PromotionAnswersAreTrue'
  BY <1>4 DEF InsertOfficial
<1>5. ASSUME NEW r \in Requests, MarkPromoted(r) PROVE PromotionAnswersAreTrue'
  BY <1>5 DEF MarkPromoted
<1>6. ASSUME NEW r \in Requests, NEW status \in {"promoted", "error", "none"}, Commits(r, status) PROVE PromotionAnswersAreTrue'
  <2>1. Ended(r, status) /\ Kept(r)
    BY <1>6, CommitsEffect
  <2> QED
    BY <2>1 DEF Ended, Kept
<1>7. ASSUME NEW r \in Requests, Aborts(r) PROVE PromotionAnswersAreTrue'
  <2>1. Unmarked /\ \E status \in {"error", "none"} : Ended(r, status)
    BY <1>7, AbortsEffect
  <2> QED
    BY <2>1 DEF Ended, Unmarked
<1>8. ASSUME UNCHANGED vars PROVE PromotionAnswersAreTrue'
  BY <1>8 DEF vars
<1>9. Steps
  BY StepCases
<1> QED
  BY <1>1, <1>2, <1>3, <1>4, <1>5, <1>6, <1>7, <1>8, <1>9 DEF Steps

\* A commit keeps the edits it finds, and a PATCH does not match a promoted row.
LEMMA FrozenStep ==
  DraftTypeOK /\ [DraftNext]_vars =>
    \A d \in Drafts : drafts[d].status = "promoted" =>
      drafts'[d].status = "promoted" /\ drafts'[d].edits = drafts[d].edits
<1> DEFINE Goal == \A d \in Drafts : drafts[d].status = "promoted" =>
                     drafts'[d].status = "promoted" /\ drafts'[d].edits = drafts[d].edits
<1> SUFFICES ASSUME DraftTypeOK, [DraftNext]_vars PROVE Goal
  OBVIOUS
<1>1. ASSUME NEW c \in Drafts, Create(c) PROVE Goal
  BY <1>1, CreateEffect
<1>2. ASSUME NEW r \in Requests, Updated(r) PROVE Goal
  BY <1>2, UpdatedEffect
<1>3. ASSUME NEW r \in Requests, Committed(r) PROVE Goal
  BY <1>3, CommittedEffect
<1>4. CASE UNCHANGED drafts
  BY <1>4
<1> QED
  BY <1>1, <1>2, <1>3, <1>4
     DEF DraftNext, Handle, Edit, Promote, ReadForEdit, ReadForPromotion, InsertOfficial,
         MarkPromoted, Write, Commit, Fail, tableVars, vars

-------------------------------------------------------------------------------
LEMMA IInvHolds == DraftSpec => []IInv
<1>1. IInv /\ [DraftNext]_vars => IInv'
  BY TypeStep, BooksStep, AgreeStep, TrueStep DEF IInv
<1> QED
  BY InitIInv, <1>1, PTL DEF DraftSpec

\* A row lock is held exactly while its promotion is between its UPDATE and the end of
\* its transaction, and every handler that writes has read a pending draft: no failure
\* and no other request leaves a lock behind (store.go:1452-1499).
THEOREM DraftInvariant == DraftSpec => []DraftInv
<1>1. IInv => DraftInv
  BY DEF IInv, DraftInv
<1> QED
  BY IInvHolds, <1>1, PTL

\* However many requests promote, edit and fail at once, a draft is marked promoted
\* if and only if an official log was made from it (store.go:1473-1496).
THEOREM PromotedAlwaysOfficial == DraftSpec => []PromotedIffOfficial
<1>1. IInv => PromotedIffOfficial
  BY DEF IInv
<1> QED
  BY IInvHolds, <1>1, PTL

\* What the handlers answer about promotions stays true: "promoted" has its log, and
\* "conflict" an official log of the draft (handlers_audit.go:262-303).  Nothing is said
\* of "saved" and "not_found", which the code also answers when they are not so.
THEOREM AnswersStayTrue == DraftSpec => []PromotionAnswersAreTrue
<1>1. IInv => PromotionAnswersAreTrue
  BY DEF IInv
<1> QED
  BY IInvHolds, <1>1, PTL

\* No PATCH, and no second promotion, changes the edits or the status of a promoted
\* draft (store.go:1439).
THEOREM PromotedStaysFrozen == DraftSpec => PromotedIsFrozen
<1>1. IInv /\ [DraftNext]_vars =>
        [\A d \in Drafts : drafts[d].status = "promoted" =>
           drafts'[d].status = "promoted" /\ drafts'[d].edits = drafts[d].edits]_vars
  BY FrozenStep DEF IInv
<1> QED
  BY IInvHolds, <1>1, PTL DEF DraftSpec, PromotedIsFrozen

===============================================================================
