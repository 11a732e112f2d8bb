--------------------------- MODULE IngestJobsProofs ---------------------------
(***************************************************************************)
(* Proofs about the life of an ingest job, for every set of jobs, every    *)
(* ttl, clock and number of faults.                                        *)
(***************************************************************************)
EXTENDS IngestJobs, TLAPS

-------------------------------------------------------------------------------
\* Queues: what Append and Tail do to the elements of a sequence.

LEMMA AppendRange ==
  ASSUME NEW S, NEW s \in Seq(S), NEW x \in S
  PROVE  /\ Append(s, x) \in Seq(S)
         /\ Range(Append(s, x)) = Range(s) \cup {x}
         /\ IsInjective(s) /\ x \notin Range(s) => IsInjective(Append(s, x))
<1> DEFINE t == Append(s, x)
<1>1. /\ t \in Seq(S) /\ DOMAIN t = 1..(Len(s) + 1) /\ DOMAIN s = 1..Len(s) /\ Len(s) \in Nat
      /\ \A i \in 1..Len(s) : t[i] = s[i]
      /\ t[Len(s) + 1] = x
  OBVIOUS
<1> HIDE DEF t
<1>2. Range(t) = Range(s) \cup {x}
  <2>1. ASSUME NEW y \in Range(t) PROVE y \in Range(s) \cup {x}
    <3>1. PICK i \in DOMAIN t : y = t[i]
      BY <2>1 DEF Range
    <3>2. CASE i \in 1..Len(s)
      BY <3>1, <3>2, <1>1 DEF Range
    <3>3. CASE i = Len(s) + 1
      BY <3>1, <3>3, <1>1
    <3> QED
      BY <3>1, <3>2, <3>3, <1>1
  <2>2. ASSUME NEW y \in Range(s) PROVE y \in Range(t)
    <3>1. PICK i \in DOMAIN s : y = s[i]
      BY <2>2 DEF Range
    <3> QED
      BY <3>1, <1>1 DEF Range
  <2>3. x \in Range(t)
    BY <1>1 DEF Range
  <2> QED
    BY <2>1, <2>2, <2>3
<1>3. ASSUME IsInjective(s), x \notin Range(s) PROVE IsInjective(t)
  <2>1. \A i \in 1..Len(s) : s[i] # x
    BY <1>1, <1>3 DEF Range
  <2> QED
    BY <1>1, <1>3, <2>1 DEF IsInjective
<1> QED
  BY <1>1, <1>2, <1>3 DEF t

LEMMA TailRange ==
  ASSUME NEW S, NEW s \in Seq(S), s # << >>, IsInjective(s)
  PROVE  /\ Tail(s) \in Seq(S) /\ Head(s) \in S
         /\ DOMAIN Tail(s) = 1..(Len(s) - 1) /\ DOMAIN s = 1..Len(s) /\ Len(s) \in Nat \ {0}
         /\ \A i \in DOMAIN Tail(s) : Tail(s)[i] = s[i + 1]
         /\ Head(s) = s[1]
         /\ Range(Tail(s)) = Range(s) \ {Head(s)}
         /\ Head(s) \in Range(s)
         /\ IsInjective(Tail(s))
<1> DEFINE t == Tail(s)
<1>1. /\ t \in Seq(S) /\ Head(s) \in S /\ Head(s) = s[1]
      /\ Len(s) \in Nat \ {0} /\ DOMAIN s = 1..Len(s) /\ DOMAIN t = 1..(Len(s) - 1)
      /\ \A i \in DOMAIN t : t[i] = s[i + 1]
  OBVIOUS
<1> HIDE DEF t
<1>2. Range(t) = Range(s) \ {Head(s)}
  <2>1. ASSUME NEW y \in Range(t) PROVE y \in Range(s) \ {Head(s)}
    <3>1. PICK i \in DOMAIN t : y = t[i]
      BY <2>1 DEF Range
    <3>2. i + 1 \in DOMAIN s /\ y = s[i + 1] /\ i + 1 # 1 /\ 1 \in DOMAIN s
      BY <3>1, <1>1
    <3>3. s[i + 1] # s[1]
      BY <3>2 DEF IsInjective
    <3> QED
      BY <3>2, <3>3, <1>1 DEF Range
  <2>2. ASSUME NEW y \in Range(s) \ {Head(s)} PROVE y \in Range(t)
    <3>1. PICK i \in DOMAIN s : y = s[i]
      BY <2>2 DEF Range
    <3>2. i # 1
      BY <2>2, <3>1, <1>1
    <3>3. i - 1 \in DOMAIN t /\ t[i - 1] = s[i]
      BY <3>1, <3>2, <1>1
    <3> QED
      BY <3>1, <3>3 DEF Range
  <2> QED
    BY <2>1, <2>2
<1>3. Head(s) \in Range(s)
  BY <1>1 DEF Range
<1>4. IsInjective(t)
  <2> SUFFICES ASSUME NEW a \in DOMAIN t, NEW b \in DOMAIN t, t[a] = t[b] PROVE a = b
    BY DEF IsInjective
  <2>1. a + 1 \in DOMAIN s /\ b + 1 \in DOMAIN s /\ s[a + 1] = s[b + 1]
    BY <1>1
  <2>2. a + 1 = b + 1
    BY <2>1 DEF IsInjective
  <2> QED
    BY <2>2, <1>1
<1> QED
  BY <1>1, <1>2, <1>3, <1>4 DEF t

-------------------------------------------------------------------------------
\* Types.

LEMMA PlacesHoldJobs ==
  ASSUME IngestTypeOK
  PROVE  OnSubject \subseteq Jobs /\ Published \subseteq Jobs /\ AtWork \subseteq Jobs
<1>1. subject \in Seq(Jobs) /\ sent \in Seq(Jobs)
  BY DEF IngestTypeOK
<1>2. \A i \in DOMAIN subject : subject[i] \in Jobs
  BY <1>1
<1>3. \A i \in DOMAIN sent : sent[i] \in Jobs
  BY <1>1
<1>4. AtWork \subseteq Jobs
  BY DEF AtWork, IngestTypeOK, Idle
<1> QED
  BY <1>2, <1>3, <1>4 DEF OnSubject, Published, Range

LEMMA FaultCounted ==
  ASSUME IngestTypeOK, Fault
  PROVE  faults' \in 0..MaxFaults
<1>1. faults \in 0..MaxFaults
  BY DEF IngestTypeOK
<1> QED
  BY <1>1, IngestAssumption DEF Fault

LEMMA FinishTyped ==
  ASSUME IngestTypeOK, NEW j \in Jobs, NEW status \in Terminal, Finish(j, status)
  PROVE  tracker' \in [Jobs -> Job] /\ outcome' \in [Jobs -> Job]
<1>1. Stamp(status) \in Job
  BY DEF Stamp, Job, IngestTypeOK
<1> QED
  BY <1>1 DEF Finish, IngestTypeOK

LEMMA TypePreserved ==
  ASSUME IngestTypeOK, OnePlace, [IngestNext]_vars
  PROVE  IngestTypeOK'
<1> USE DEF tableVars, ghostVars, workerFrame
<1>1. ASSUME NEW j \in Jobs, Accept(j) PROVE IngestTypeOK'
  BY <1>1, AppendRange DEF Accept, IngestTypeOK
<1>2. ASSUME NEW j \in Jobs, Refuse(j) PROVE IngestTypeOK'
  <2>1. Finish(j, "failed") /\ "failed" \in Terminal
    BY <1>2 DEF Refuse, Terminal
  <2>2. tracker' \in [Jobs -> Job] /\ outcome' \in [Jobs -> Job]
    BY <2>1, FinishTyped
  <2>3. faults' \in 0..MaxFaults
    BY <1>2, FaultCounted DEF Refuse
  <2> QED
    BY <1>2, <2>2, <2>3 DEF Refuse, IngestTypeOK
<1>3. ASSUME NEW j \in Jobs, Poll(j) PROVE IngestTypeOK'
  BY <1>3 DEF Poll, IngestTypeOK, Job
<1>4. ASSUME NEW j \in Jobs, NEW d \in Documents, Post(j, d) PROVE IngestTypeOK'
  BY <1>4 DEF Post, Stamp, IngestTypeOK, Job
<1>5. CASE Take
  BY <1>5, TailRange DEF Take, Continue, Idle, OnePlace, IngestTypeOK
<1>6. ASSUME NEW j \in Jobs, Reject(j) PROVE IngestTypeOK'
  <2>1. tracker' \in [Jobs -> Job] /\ outcome' \in [Jobs -> Job]
    BY <1>6, FinishTyped DEF Reject, Terminal
  <2> QED
    BY <1>6, <2>1 DEF Reject, IngestTypeOK
<1>7. ASSUME NEW j \in Jobs, Store(j) PROVE IngestTypeOK'
  BY <1>7 DEF Store, Continue, IngestTypeOK
<1>8. ASSUME NEW j \in Jobs, StoreFails(j) PROVE IngestTypeOK'
  <2>1. tracker' \in [Jobs -> Job] /\ outcome' \in [Jobs -> Job]
    BY <1>8, FinishTyped DEF StoreFails, Terminal
  <2>2. faults' \in 0..MaxFaults
    BY <1>8, FaultCounted DEF StoreFails
  <2>3. stored' \subseteq Jobs
    BY <1>8 DEF StoreFails, IngestTypeOK
  <2> QED
    BY <1>8, <2>1, <2>2, <2>3 DEF StoreFails, IngestTypeOK
<1>9. ASSUME NEW j \in Jobs, Index(j) PROVE IngestTypeOK'
  <2>1. faults' \in 0..MaxFaults
    BY <1>9, FaultCounted DEF Index, IngestTypeOK
  <2>2. indexed' \subseteq Jobs
    BY <1>9 DEF Index, IngestTypeOK
  <2>3. work' \in [job : Jobs, next : {"parse", "index", "announce", "report"}]
    BY <1>9 DEF Index, Continue
  <2> QED
    BY <1>9, <2>1, <2>2, <2>3 DEF Index, IngestTypeOK
<1>10. ASSUME NEW j \in Jobs, Announce(j) PROVE IngestTypeOK'
  BY <1>10 DEF Announce, Continue, IngestTypeOK
<1>11. ASSUME NEW j \in Jobs, Report(j) PROVE IngestTypeOK'
  <2>1. tracker' \in [Jobs -> Job] /\ outcome' \in [Jobs -> Job]
    BY <1>11, FinishTyped DEF Report, Terminal
  <2> QED
    BY <1>11, <2>1 DEF Report, IngestTypeOK
<1>12. CASE Evict
  <2>1. tracker' \in [Jobs -> Job]
    <3>1. tracker \in [Jobs -> Job]
      BY DEF IngestTypeOK
    <3>2. Absent \in Job
      BY IngestAssumption DEF Absent, Job
    <3> QED
      BY <1>12, <3>1, <3>2 DEF Evict
  <2> QED
    BY <1>12, <2>1 DEF Evict, IngestTypeOK
<1>13. CASE Tick
  <2>1. now' \in 0..MaxTime
    <3>1. now \in 0..MaxTime
      BY DEF IngestTypeOK
    <3> QED
      BY <1>13, <3>1, IngestAssumption DEF Tick
  <2> QED
    BY <1>13, <2>1 DEF Tick, IngestTypeOK
<1>14. CASE LoseMessage
  <2>1. faults' \in 0..MaxFaults
    BY <1>14, FaultCounted DEF LoseMessage
  <2>2. subject' \in Seq(Jobs) /\ lost' \subseteq Jobs
    <3>1. subject \in Seq(Jobs) /\ lost \subseteq Jobs /\ IsInjective(subject)
      BY DEF IngestTypeOK, OnePlace
    <3>2. Tail(subject) \in Seq(Jobs) /\ Head(subject) \in Jobs
      BY <1>14, <3>1, TailRange DEF LoseMessage
    <3> QED
      BY <1>14, <3>1, <3>2 DEF LoseMessage
  <2> QED
    BY <1>14, <2>1, <2>2 DEF LoseMessage, IngestTypeOK
<1>15. CASE Restart
  <2>1. faults' \in 0..MaxFaults
    BY <1>15, FaultCounted DEF Restart
  <2>2. Absent \in Job
    BY IngestAssumption DEF Absent, Job
  <2>3. tracker' \in [Jobs -> Job] /\ outcome' \in [Jobs -> Job]
    BY <1>15, <2>2 DEF Restart
  <2>4. lost' \subseteq Jobs
    BY <1>15, PlacesHoldJobs DEF Restart, IngestTypeOK
  <2>5. request' \in [Jobs -> {"none", "filed", "accepted", "refused", "cut_off"}]
    BY <1>15 DEF Restart, IngestTypeOK
  <2>6. subject' \in Seq(Jobs)
    <3>1. subject' = << >>
      BY <1>15 DEF Restart
    <3> QED
      BY <3>1
  <2> QED
    BY <1>15, <2>1, <2>3, <2>4, <2>5, <2>6 DEF Restart, IngestTypeOK
<1>16. CASE UNCHANGED vars
  BY <1>16 DEF vars, IngestTypeOK, Job, Terminal
<1> QED
  BY <1>1, <1>2, <1>3, <1>4, <1>5, <1>6, <1>7, <1>8, <1>9, <1>10, <1>11, <1>12, <1>13,
     <1>14, <1>15, <1>16 DEF IngestNext, Answer, Worker, WorkOn

-------------------------------------------------------------------------------
\* Where jobs go: each step's effect on the subject, the worker and what was
\* published.

Steps == {"parse", "index", "announce", "report"}

LEMMA AcceptMoves ==
  ASSUME IngestTypeOK, OnePlace, NEW j \in Jobs, Accept(j)
  PROVE  /\ j \notin Published
         /\ OnSubject' = OnSubject \cup {j} /\ IsInjective(subject')
         /\ Published' = Published \cup {j} /\ IsInjective(sent')
         /\ AtWork' = AtWork
<1>1. subject \in Seq(Jobs) /\ sent \in Seq(Jobs) /\ request \in [Jobs -> {"none", "filed", "accepted", "refused", "cut_off"}]
  BY DEF IngestTypeOK
<1>2. j \notin Published
  BY <1>1 DEF Accept, OnePlace
<1>3. j \notin OnSubject
  BY <1>2 DEF OnePlace
<1>4. subject' = Append(subject, j) /\ sent' = Append(sent, j) /\ work' = work
  BY DEF Accept
<1>5. Range(Append(subject, j)) = Range(subject) \cup {j} /\ IsInjective(Append(subject, j))
  BY <1>1, <1>3, AppendRange DEF OnePlace, OnSubject
<1>6. Range(Append(sent, j)) = Range(sent) \cup {j} /\ IsInjective(Append(sent, j))
  BY <1>1, <1>2, AppendRange DEF OnePlace, Published
<1> QED
  BY <1>2, <1>4, <1>5, <1>6 DEF OnSubject, Published, AtWork

LEMMA HeadMoves ==
  ASSUME IngestTypeOK, OnePlace, subject # << >>, subject' = Tail(subject)
  PROVE  /\ Head(subject) \in OnSubject /\ Head(subject) \in Jobs
         /\ OnSubject' = OnSubject \ {Head(subject)} /\ IsInjective(subject')
<1>1. subject \in Seq(Jobs) /\ IsInjective(subject)
  BY DEF IngestTypeOK, OnePlace
<1>2. /\ Head(subject) \in Range(subject) /\ Head(subject) \in Jobs
      /\ Range(Tail(subject)) = Range(subject) \ {Head(subject)} /\ IsInjective(Tail(subject))
  BY <1>1, TailRange
<1> QED
  BY <1>2 DEF OnSubject

LEMMA TakeMoves ==
  ASSUME IngestTypeOK, OnePlace, Take
  PROVE  /\ Head(subject) \in OnSubject /\ Head(subject) \in Jobs
         /\ OnSubject' = OnSubject \ {Head(subject)} /\ IsInjective(subject')
         /\ AtWork = {} /\ AtWork' = {Head(subject)}
         /\ work' = [job |-> Head(subject), next |-> "parse"]
<1>1. subject # << >> /\ subject' = Tail(subject) /\ work = Idle
      /\ work' = [job |-> Head(subject), next |-> "parse"]
  BY DEF Take, Continue
<1> QED
  BY <1>1, HeadMoves DEF AtWork, Idle

\* The worker is at job j and does one thing about it: nothing else moves.
LEMMA WorkMoves ==
  ASSUME NEW j \in Jobs, WorkOn(j)
  PROVE  /\ AtWork = {j} /\ AtWork' \in {{}, {j}}
         /\ UNCHANGED <<OnSubject, Published, subject, sent, lost, request, document, heard>>
         /\ stored \subseteq stored' /\ stored' \subseteq stored \cup {j}
<1> USE DEF workerFrame, ghostVars, tableVars
<1>1. ASSUME NEW step \in Steps, work = [job |-> j, next |-> step]
      PROVE  AtWork = {j}
  BY <1>1 DEF AtWork, Idle, Steps
<1>2. ASSUME NEW step \in Steps, work' = [job |-> j, next |-> step]
      PROVE  AtWork' = {j}
  BY <1>2 DEF AtWork, Idle, Steps
<1>3. ASSUME work' = Idle
      PROVE  AtWork' = {}
  BY <1>3 DEF AtWork
<1>4. CASE Reject(j)
  BY <1>1, <1>3, <1>4 DEF Reject, Steps, OnSubject, Published
<1>5. CASE Store(j)
  <2>1. PICK step \in Steps : work' = [job |-> j, next |-> step]
    BY <1>5 DEF Store, Continue, Steps
  <2> QED
    BY <1>1, <1>2, <1>5, <2>1 DEF Store, Steps, OnSubject, Published
<1>6. CASE StoreFails(j)
  BY <1>1, <1>3, <1>6 DEF StoreFails, Steps, OnSubject, Published
<1>7. CASE Index(j)
  BY <1>1, <1>2, <1>7 DEF Index, Continue, Steps, OnSubject, Published
<1>8. CASE Announce(j)
  BY <1>1, <1>2, <1>8 DEF Announce, Continue, Steps, OnSubject, Published
<1>9. CASE Report(j)
  BY <1>1, <1>3, <1>9 DEF Report, Steps, OnSubject, Published
<1> QED
  BY <1>4, <1>5, <1>6, <1>7, <1>8, <1>9 DEF WorkOn

LEMMA OnePlacePreserved ==
  ASSUME IngestTypeOK, OnePlace, [IngestNext]_vars
  PROVE  OnePlace'
<1> USE DEF workerFrame, ghostVars, tableVars
<1>1. ASSUME NEW j \in Jobs, Accept(j) PROVE OnePlace'
  <2>1. request' = [request EXCEPT ![j] = "accepted"] /\ UNCHANGED <<stored, lost>>
    BY <1>1 DEF Accept
  <2>2. request'[j] = "accepted" /\ \A i \in Published : request'[i] = request[i]
    <3>1. j \notin Published /\ Published \subseteq Jobs
      BY <1>1, AcceptMoves, PlacesHoldJobs
    <3> QED
      BY <2>1, <3>1 DEF IngestTypeOK
  <2> QED
    BY <1>1, <2>1, <2>2, AcceptMoves DEF OnePlace
<1>2. ASSUME NEW j \in Jobs, Refuse(j) \/ \E d \in Documents : Post(j, d) PROVE OnePlace'
  <2>1. /\ request[j] # "accepted" /\ UNCHANGED <<subject, sent, work, lost, stored>>
        /\ \A i \in Jobs \ {j} : request'[i] = request[i]
    BY <1>2 DEF Refuse, Post, IngestTypeOK
  <2>2. UNCHANGED <<OnSubject, Published, AtWork>>
    BY <2>1 DEF OnSubject, Published, AtWork
  <2>3. Published \subseteq Jobs \ {j}
    BY <2>1, PlacesHoldJobs DEF OnePlace
  <2> QED
    BY <2>1, <2>2, <2>3 DEF OnePlace
<1>3. CASE Take
  BY <1>3, TakeMoves DEF OnePlace, Take, Published
<1>4. ASSUME NEW j \in Jobs, WorkOn(j) PROVE OnePlace'
  BY <1>4, WorkMoves DEF OnePlace
<1>5. CASE LoseMessage
  <2>1. /\ subject # << >> /\ subject' = Tail(subject) /\ lost' = lost \cup {Head(subject)}
        /\ UNCHANGED <<sent, work, stored, request>>
    BY <1>5 DEF LoseMessage
  <2> QED
    BY <2>1, HeadMoves DEF OnePlace, Published, AtWork
<1>6. CASE Restart
  <2>1. /\ OnSubject' = {} /\ AtWork' = {} /\ IsInjective(subject')
        /\ lost' = lost \cup OnSubject \cup AtWork
        /\ UNCHANGED <<sent, stored, Published>>
    <3>1. subject' = << >> /\ work' = Idle
      BY <1>6 DEF Restart
    <3>2. Range(subject') = {} /\ IsInjective(subject')
      BY <3>1 DEF Range, IsInjective
    <3> QED
      BY <1>6, <3>1, <3>2 DEF Restart, OnSubject, AtWork, Published
  <2>2. \A j \in Jobs : request[j] = "accepted" => request'[j] = "accepted"
    BY <1>6 DEF Restart, IngestTypeOK
  <2>3. Published \subseteq Jobs
    BY PlacesHoldJobs
  <2> QED
    BY <2>1, <2>2, <2>3 DEF OnePlace
<1>7. CASE Evict \/ Tick \/ UNCHANGED vars \/ \E j \in Jobs : Poll(j)
  <2>1. UNCHANGED <<subject, sent, work, lost, stored, request>>
    BY <1>7 DEF Evict, Tick, vars, Poll
  <2> QED
    BY <2>1 DEF OnePlace, OnSubject, Published, AtWork
<1> QED
  BY <1>1, <1>2, <1>3, <1>4, <1>5, <1>6, <1>7 DEF IngestNext, Answer, Worker

-------------------------------------------------------------------------------
\* The worker's steps match its document.

\* A request that is not accepted has no job on the subject, at the worker or in
\* a table.
LEMMA UnpublishedIsNowhere ==
  ASSUME OnePlace, NEW j \in Jobs, request[j] # "accepted"
  PROVE  j \notin Published \cup OnSubject \cup AtWork \cup lost \cup stored
BY DEF OnePlace

LEMMA WorkMatchesPreserved ==
  ASSUME IngestTypeOK, OnePlace, WorkMatches, [IngestNext]_vars
  PROVE  WorkMatches'
<1> USE DEF workerFrame, ghostVars, tableVars
<1>1. ASSUME NEW j \in Jobs, Accept(j) PROVE WorkMatches'
  <2>1. UNCHANGED <<work, document, stored, announced>>
    BY <1>1 DEF Accept
  <2>2. j \notin stored
    BY <1>1, AcceptMoves DEF OnePlace
  <2> QED
    BY <1>1, <2>1, <2>2, AcceptMoves DEF WorkMatches, Kept
<1>2. ASSUME NEW j \in Jobs, Refuse(j) \/ \E d \in Documents : Post(j, d) PROVE WorkMatches'
  <2>1. /\ request[j] # "accepted" /\ UNCHANGED <<subject, work, stored, announced>>
        /\ \A i \in Jobs \ {j} : document'[i] = document[i]
    BY <1>2 DEF Refuse, Post, IngestTypeOK
  <2>2. UNCHANGED <<OnSubject, AtWork>>
    BY <2>1 DEF OnSubject, AtWork
  <2>3. AtWork \subseteq Jobs \ {j}
    BY <2>1, UnpublishedIsNowhere, PlacesHoldJobs
  <2> QED
    BY <2>1, <2>2, <2>3 DEF WorkMatches, Kept
<1>3. CASE Take
  <2>1. UNCHANGED stored
    BY <1>3 DEF Take
  <2> QED
    BY <1>3, <2>1, TakeMoves DEF WorkMatches
<1>4. ASSUME NEW j \in Jobs, WorkOn(j) PROVE WorkMatches'
  <2>1. OnSubject' \cap stored' = {}
    BY <1>4, WorkMoves DEF WorkMatches, OnePlace
  <2>2. ASSUME AtWork' = {j}
        PROVE  /\ work'.next # "parse" => j \in stored'
               /\ work'.next = "index" => document'[j] = "artifact"
               /\ work'.next = "report" => Kept(j)'
    <3>1. CASE Reject(j) \/ StoreFails(j) \/ Report(j)
      BY <2>2, <3>1 DEF Reject, StoreFails, Report, AtWork
    <3>2. CASE Store(j)
      <4>1. j \in stored' /\ document' = document
        BY <3>2 DEF Store
      <4>2. CASE document[j] = "evidence"
        BY <4>1, <4>2, <3>2 DEF Store, Continue
      <4>3. CASE document[j] = "orphan"
        BY <4>1, <4>3, <3>2 DEF Store, Continue, Kept
      <4>4. CASE document[j] = "artifact"
        BY <4>1, <4>4, <3>2 DEF Store, Continue
      <4> QED
        BY <3>2, <4>2, <4>3, <4>4 DEF Store
    <3>3. CASE Index(j)
      <4>1. work.next = "index" /\ j \in AtWork /\ UNCHANGED <<stored, announced, document>>
            /\ work' = [job |-> j, next |-> "report"]
        BY <1>4, <3>3, WorkMoves DEF Index, Continue
      <4>2. j \in stored /\ document[j] = "artifact"
        BY <4>1 DEF WorkMatches
      <4> QED
        BY <4>1, <4>2 DEF Kept
    <3>4. CASE Announce(j)
      <4>1. work.next = "announce" /\ j \in AtWork /\ UNCHANGED <<stored, document>>
            /\ work' = [job |-> j, next |-> "report"] /\ j \in announced'
        BY <1>4, <3>4, WorkMoves DEF Announce, Continue
      <4>2. j \in stored
        BY <4>1 DEF WorkMatches
      <4> QED
        BY <4>1, <4>2 DEF Kept
    <3> QED
      BY <1>4, <3>1, <3>2, <3>3, <3>4 DEF WorkOn
  <2> QED
    BY <1>4, <2>1, <2>2, WorkMoves DEF WorkMatches
<1>5. CASE LoseMessage
  <2>1. /\ subject # << >> /\ subject' = Tail(subject)
        /\ UNCHANGED <<work, stored, announced, document>>
    BY <1>5 DEF LoseMessage
  <2> QED
    BY <2>1, HeadMoves DEF WorkMatches, AtWork, Kept
<1>6. CASE Restart
  <2>1. subject' = << >> /\ work' = Idle
    BY <1>6 DEF Restart
  <2>2. OnSubject' = {} /\ AtWork' = {}
    BY <2>1 DEF OnSubject, Range, AtWork
  <2> QED
    BY <2>2 DEF WorkMatches
<1>7. CASE Evict \/ Tick \/ UNCHANGED vars \/ \E j \in Jobs : Poll(j)
  <2>1. UNCHANGED <<subject, work, stored, announced, document>>
    BY <1>7 DEF Evict, Tick, vars, Poll
  <2> QED
    BY <2>1 DEF WorkMatches, Kept, OnSubject, AtWork
<1> QED
  BY <1>1, <1>2, <1>3, <1>4, <1>5, <1>6, <1>7 DEF IngestNext, Answer, Worker

-------------------------------------------------------------------------------
\* The tracker matches where each job is.

\* Kept is never taken back from a job that was published.
LEMMA KeptStays ==
  ASSUME IngestTypeOK, OnePlace, [IngestNext]_vars, NEW i \in Jobs, Kept(i)
  PROVE  Kept(i)'
<1> USE DEF workerFrame, ghostVars, tableVars
<1>1. request[i] = "accepted"
  BY DEF Kept, OnePlace
<1>2. stored \subseteq stored' /\ announced \subseteq announced'
  BY DEF IngestNext, Answer, Worker, WorkOn, vars, Accept, Refuse, Poll, Post, Take,
         Reject, Store, StoreFails, Index, Announce, Report, Evict, Tick, LoseMessage, Restart
<1>3. document'[i] = document[i]
  <2>1. ASSUME NEW j \in Jobs, NEW d \in Documents, Post(j, d) PROVE document'[i] = document[i]
    BY <1>1, <2>1 DEF Post, IngestTypeOK
  <2> QED
    BY <2>1 DEF IngestNext, Answer, Worker, WorkOn, vars, Accept, Refuse, Poll, Take,
           Reject, Store, StoreFails, Index, Announce, Report, Evict, Tick, LoseMessage, Restart
<1> QED
  BY <1>2, <1>3 DEF Kept

\* A job that is pending is finished as the worker or the handler says, and no
\* other job is touched.
LEMMA FinishMatches ==
  ASSUME IngestTypeOK, NEW j \in Jobs, NEW status \in Terminal, Finish(j, status),
         tracker[j].status = "pending"
  PROVE  /\ tracker'[j] = Stamp(status) /\ outcome'[j] = Stamp(status)
         /\ tracker'[j].status = status
         /\ \A i \in Jobs \ {j} : tracker'[i] = tracker[i] /\ outcome'[i] = outcome[i]
<1>1. tracker[j] # Absent
  BY DEF Absent
<1>2. tracker \in [Jobs -> Job] /\ outcome \in [Jobs -> Job]
  BY DEF IngestTypeOK
<1>3. /\ tracker' = [tracker EXCEPT ![j] = Stamp(status)]
      /\ outcome' = [outcome EXCEPT ![j] = Stamp(status)]
  BY <1>1 DEF Finish
<1>4. Stamp(status).status = status
  BY DEF Stamp
<1> QED
  BY <1>2, <1>3, <1>4

LEMMA TrackerMatchesPreserved ==
  ASSUME IngestTypeOK, OnePlace, WorkMatches, TrackerMatches, [IngestNext]_vars
  PROVE  TrackerMatches'
<1> USE DEF workerFrame, ghostVars, tableVars
<1> SUFFICES ASSUME NEW i \in Jobs PROVE JobMatches(i)'
  BY DEF TrackerMatches
<1>0. JobMatches(i) /\ (Kept(i) => Kept(i)')
  BY KeptStays DEF TrackerMatches
<1>1. ASSUME NEW j \in Jobs, Accept(j) PROVE JobMatches(i)'
  <2>1. /\ request[j] = "filed" /\ request' = [request EXCEPT ![j] = "accepted"]
        /\ UNCHANGED <<tracker, outcome, heard, lost>>
    BY <1>1 DEF Accept
  <2>3. OnSubject' = OnSubject \cup {j} /\ AtWork' = AtWork
    BY <1>1, AcceptMoves
  <2>4. request'[j] = "accepted" /\ \A k \in Jobs \ {j} : request'[k] = request[k]
    BY <2>1 DEF IngestTypeOK
  <2>5. CASE i = j
    BY <1>0, <2>1, <2>3, <2>4, <2>5 DEF JobMatches
  <2>6. CASE i # j
    BY <1>0, <2>1, <2>3, <2>4, <2>6 DEF JobMatches
  <2> QED
    BY <2>5, <2>6
<1>2. ASSUME NEW j \in Jobs, Refuse(j) PROVE JobMatches(i)'
  <2>1. /\ request[j] = "filed" /\ request' = [request EXCEPT ![j] = "refused"]
        /\ Finish(j, "failed") /\ UNCHANGED <<subject, work, heard, lost>>
    BY <1>2 DEF Refuse
  <2>2. UNCHANGED <<OnSubject, AtWork>>
    BY <2>1 DEF OnSubject, AtWork
  <2>3. tracker[j].status = "pending" /\ heard[j] = "nothing" /\ "failed" \in Terminal
    BY <2>1 DEF TrackerMatches, JobMatches, Terminal
  <2>4. j \notin OnSubject \cup AtWork \cup lost
    BY <2>1, UnpublishedIsNowhere
  <2>5. /\ tracker'[j].status = "failed"
        /\ \A k \in Jobs \ {j} : tracker'[k] = tracker[k] /\ outcome'[k] = outcome[k]
    BY <2>1, <2>3, FinishMatches
  <2>6. request'[j] = "refused" /\ \A k \in Jobs \ {j} : request'[k] = request[k]
    BY <2>1 DEF IngestTypeOK
  <2>7. CASE i = j
    BY <2>1, <2>2, <2>3, <2>4, <2>5, <2>6, <2>7 DEF JobMatches, Terminal
  <2>8. CASE i # j
    BY <1>0, <2>1, <2>2, <2>5, <2>6, <2>8 DEF JobMatches
  <2> QED
    BY <2>7, <2>8
<1>3. ASSUME NEW j \in Jobs, Poll(j) PROVE JobMatches(i)'
  <2>1. /\ request[j] = "accepted" /\ heard' = [heard EXCEPT ![j] = tracker[j].status]
        /\ UNCHANGED <<request, tracker, outcome, lost, OnSubject, AtWork>>
    BY <1>3 DEF Poll, OnSubject, AtWork
  <2> QED
    BY <1>0, <2>1 DEF JobMatches, IngestTypeOK
<1>4. ASSUME NEW j \in Jobs, NEW d \in Documents, Post(j, d) PROVE JobMatches(i)'
  <2>1. /\ request[j] = "none" /\ request' = [request EXCEPT ![j] = "filed"]
        /\ tracker' = [tracker EXCEPT ![j] = Stamp("pending")]
        /\ UNCHANGED <<outcome, heard, lost, OnSubject, AtWork>>
    BY <1>4 DEF Post, OnSubject, AtWork
  <2>2. JobMatches(j) /\ j \notin OnSubject \cup AtWork \cup lost
    BY <2>1, UnpublishedIsNowhere DEF TrackerMatches
  <2>3. tracker'[j].status = "pending" /\ request'[j] = "filed"
    BY <2>1 DEF Stamp, IngestTypeOK
  <2>4. i # j => tracker'[i] = tracker[i] /\ request'[i] = request[i]
    BY <2>1 DEF IngestTypeOK
  <2>5. heard[j] = "nothing"
    BY <2>1, <2>2 DEF JobMatches
  <2>6. CASE i = j
    BY <2>1, <2>3, <2>2, <2>5, <2>6 DEF JobMatches, Terminal
  <2>7. CASE i # j
    BY <1>0, <2>1, <2>4, <2>7 DEF JobMatches
  <2> QED
    BY <2>6, <2>7
<1>5. CASE Take
  <2>1. UNCHANGED <<request, tracker, outcome, heard, lost>>
    BY <1>5 DEF Take
  <2> QED
    BY <1>0, <1>5, <2>1, TakeMoves DEF JobMatches
<1>6. ASSUME NEW j \in Jobs, WorkOn(j) PROVE JobMatches(i)'
  <2>1. /\ AtWork = {j} /\ AtWork' \subseteq {j}
        /\ UNCHANGED <<OnSubject, lost, request, heard>>
    BY <1>6, WorkMoves
  <2>2. CASE UNCHANGED <<tracker, outcome>>
    BY <1>0, <2>1, <2>2 DEF JobMatches
  <2>3. ASSUME NEW status \in Terminal, Finish(j, status), AtWork' = {},
               status = "completed" => Kept(j)
        PROVE  JobMatches(i)'
    <3>1. tracker[j].status = "pending" /\ JobMatches(j)
      BY <2>1 DEF TrackerMatches, JobMatches
    <3>2. j \notin OnSubject \cup lost /\ request[j] = "accepted"
      BY <2>1 DEF OnePlace
    <3>3. heard[j] \notin Terminal \cup {"absent"}
      BY <3>1 DEF JobMatches, Terminal
    <3>4. tracker'[j].status = status /\ (i # j => tracker'[i] = tracker[i] /\ outcome'[i] = outcome[i])
      BY <2>3, <3>1, FinishMatches
    <3>5. CASE i = j
      BY <1>0, <2>1, <2>3, <3>2, <3>3, <3>4, <3>5 DEF JobMatches, Terminal
    <3>6. CASE i # j
      BY <1>0, <2>1, <2>3, <3>4, <3>6 DEF JobMatches
    <3> QED
      BY <3>5, <3>6
  <2>4. CASE Reject(j) \/ StoreFails(j)
    <3>1. Finish(j, "failed") /\ AtWork' = {} /\ "failed" \in Terminal
      BY <2>4 DEF Reject, StoreFails, AtWork, Terminal
    <3> QED
      BY <2>3, <3>1
  <2>5. CASE Report(j)
    <3>1. Finish(j, "completed") /\ AtWork' = {} /\ "completed" \in Terminal /\ work.next = "report"
      BY <2>5 DEF Report, AtWork, Terminal
    <3>2. Kept(j)
      BY <2>1, <3>1 DEF WorkMatches
    <3> QED
      BY <2>3, <3>1, <3>2
  <2>6. CASE Store(j) \/ Index(j) \/ Announce(j)
    BY <2>2, <2>6 DEF Store, Index, Announce
  <2> QED
    BY <1>6, <2>4, <2>5, <2>6 DEF WorkOn
<1>7. CASE LoseMessage
  <2>1. /\ subject # << >> /\ subject' = Tail(subject) /\ lost' = lost \cup {Head(subject)}
        /\ UNCHANGED <<request, tracker, outcome, heard, AtWork>>
    BY <1>7 DEF LoseMessage, AtWork
  <2> QED
    BY <1>0, <2>1, HeadMoves DEF JobMatches
<1>8. CASE Restart
  <2>1. tracker'[i] = Absent /\ outcome'[i] = Absent /\ heard' = heard
        /\ request'[i] = IF request[i] = "filed" THEN "cut_off" ELSE request[i]
    BY <1>8 DEF Restart, IngestTypeOK
  <2>2. OnSubject' = {} /\ AtWork' = {}
    <3>1. subject' = << >> /\ work' = Idle
      BY <1>8 DEF Restart
    <3> QED
      BY <3>1 DEF OnSubject, Range, AtWork
  <2>3. tracker'[i].status = "absent"
    <3>1. tracker'[i] = Absent
      BY <2>1
    <3>2. Absent.status = "absent"
      BY DEF Absent
    <3> QED
      BY <3>1, <3>2
  <2>4. request'[i] # "filed" /\ (request'[i] = "none" => request[i] = "none")
        /\ (request[i] = "accepted" => request'[i] = "accepted")
    BY <2>1
  <2>5. request'[i] # "accepted" => heard'[i] = "nothing"
    BY <1>0, <2>1, <2>4 DEF JobMatches
  <2> QED
    BY <2>1, <2>2, <2>3, <2>4, <2>5 DEF JobMatches
<1>9. CASE Evict
  <2>1. /\ tracker'[i] = IF Stale(i) THEN Absent ELSE tracker[i]
        /\ UNCHANGED <<request, outcome, heard, lost, OnSubject, AtWork>>
    BY <1>9 DEF Evict, OnSubject, AtWork
  <2>2. Stale(i) => tracker[i].status \in Terminal
    BY DEF Stale
  <2>3. CASE Stale(i)
    BY <1>0, <2>1, <2>2, <2>3 DEF JobMatches, Absent, Terminal
  <2>4. CASE ~Stale(i)
    BY <1>0, <2>1, <2>4 DEF JobMatches
  <2> QED
    BY <2>3, <2>4
<1>10. CASE Tick \/ UNCHANGED vars
  <2>1. UNCHANGED <<request, tracker, outcome, heard, lost, OnSubject, AtWork>>
    BY <1>10 DEF Tick, vars, OnSubject, AtWork
  <2> QED
    BY <1>0, <2>1 DEF JobMatches
<1> QED
  BY <1>1, <1>2, <1>3, <1>4, <1>5, <1>6, <1>7, <1>8, <1>9, <1>10 DEF IngestNext, Answer, Worker

-------------------------------------------------------------------------------
\* The order of publication.

LEMMA InOrderPreserved ==
  ASSUME IngestTypeOK, OnePlace, InOrder, [IngestNext]_vars
  PROVE  InOrder'
<1> USE DEF workerFrame, ghostVars, tableVars
<1>0. subject \in Seq(Jobs) /\ sent \in Seq(Jobs) /\ IsInjective(subject) /\ IsInjective(sent)
  BY DEF IngestTypeOK, OnePlace
<1>1. ASSUME NEW j \in Jobs, Accept(j) PROVE InOrder'
  <2>1. subject' = Append(subject, j) /\ sent' = Append(sent, j)
    BY <1>1 DEF Accept
  <2>2. /\ DOMAIN subject = 1..Len(subject) /\ DOMAIN sent = 1..Len(sent)
        /\ Len(subject) \in Nat /\ Len(sent) \in Nat
        /\ DOMAIN subject' = 1..(Len(subject) + 1) /\ DOMAIN sent' = 1..(Len(sent) + 1)
        /\ \A a \in DOMAIN subject : subject'[a] = subject[a]
        /\ \A a \in DOMAIN sent : sent'[a] = sent[a]
        /\ subject'[Len(subject) + 1] = j /\ sent'[Len(sent) + 1] = j
    BY <1>0, <2>1
  <2>3. /\ AtWork' = AtWork /\ OnSubject' = OnSubject \cup {j}
        /\ j \notin Published /\ j \notin AtWork
    BY <1>1, AcceptMoves DEF OnePlace
  <2>4. \A a \in DOMAIN sent : sent[a] # j
    BY <2>3 DEF Published, Range
  <2> SUFFICES ASSUME NEW i \in DOMAIN sent', NEW k \in DOMAIN sent', i < k
               PROVE  /\ \A a, b \in DOMAIN subject' :
                           subject'[a] = sent'[i] /\ subject'[b] = sent'[k] => a < b
                      /\ sent'[k] \in AtWork' => sent'[i] \notin OnSubject'
    BY DEF InOrder
  <2>5. i \in DOMAIN sent /\ sent'[i] = sent[i] /\ sent[i] # j
    BY <2>2, <2>4
  <2>6. CASE k \in DOMAIN sent
    <3>1. sent'[k] = sent[k] /\ sent[k] # j
      BY <2>2, <2>4, <2>6
    <3>2. ASSUME NEW a \in DOMAIN subject', NEW b \in DOMAIN subject',
                 subject'[a] = sent'[i], subject'[b] = sent'[k]
          PROVE  a < b
      <4>1. a \in DOMAIN subject /\ b \in DOMAIN subject
        BY <2>2, <2>5, <3>1, <3>2
      <4>2. subject[a] = sent[i] /\ subject[b] = sent[k]
        BY <2>2, <2>5, <3>1, <3>2, <4>1
      <4> QED
        BY <2>5, <2>6, <4>1, <4>2 DEF InOrder
    <3>3. sent'[k] \in AtWork' => sent'[i] \notin OnSubject'
      BY <2>3, <2>5, <2>6, <3>1 DEF InOrder
    <3> QED
      BY <3>2, <3>3
  <2>7. CASE k = Len(sent) + 1
    <3>1. sent'[k] = j
      BY <2>2, <2>7
    <3>2. ASSUME NEW a \in DOMAIN subject', NEW b \in DOMAIN subject',
                 subject'[a] = sent'[i], subject'[b] = sent'[k]
          PROVE  a < b
      <4>1. a \in DOMAIN subject
        BY <2>2, <2>5, <3>2
      <4>2. b \notin DOMAIN subject
        <5>1. \A c \in DOMAIN subject : subject[c] # j
          BY <2>3 DEF OnePlace, OnSubject, Range
        <5> QED
          BY <2>2, <3>1, <3>2, <5>1
      <4> QED
        BY <2>2, <4>1, <4>2
    <3> QED
      BY <2>3, <3>1, <3>2
  <2> QED
    BY <2>2, <2>6, <2>7
\* The subject loses its first message, and the worker is idle or takes that one.
<1>2. ASSUME subject # << >>, subject' = Tail(subject), sent' = sent,
             AtWork' = AtWork \/ AtWork' = {Head(subject)}
      PROVE  InOrder'
  <2>1. /\ DOMAIN subject' = 1..(Len(subject) - 1) /\ DOMAIN subject = 1..Len(subject)
        /\ Len(subject) \in Nat \ {0} /\ Head(subject) = subject[1]
        /\ \A a \in DOMAIN subject' : subject'[a] = subject[a + 1]
        /\ Range(subject') = Range(subject) \ {Head(subject)}
    BY <1>0, <1>2, TailRange
  <2> SUFFICES ASSUME NEW i \in DOMAIN sent, NEW k \in DOMAIN sent, i < k
               PROVE  /\ \A a, b \in DOMAIN subject' :
                           subject'[a] = sent[i] /\ subject'[b] = sent[k] => a < b
                      /\ sent[k] \in AtWork' => sent[i] \notin OnSubject'
    BY <1>2 DEF InOrder
  <2>2. ASSUME NEW a \in DOMAIN subject', NEW b \in DOMAIN subject',
               subject'[a] = sent[i], subject'[b] = sent[k]
        PROVE  a < b
    <3>1. /\ a + 1 \in DOMAIN subject /\ b + 1 \in DOMAIN subject
          /\ subject[a + 1] = sent[i] /\ subject[b + 1] = sent[k]
      BY <2>1, <2>2
    <3>2. a + 1 < b + 1
      BY <3>1 DEF InOrder
    <3> QED
      BY <2>1, <3>2
  <2>3. ASSUME sent[k] \in AtWork', sent[i] \in OnSubject' PROVE FALSE
    <3>1. CASE AtWork' = AtWork
      BY <2>1, <2>3, <3>1 DEF InOrder, OnSubject
    <3>2. CASE AtWork' = {Head(subject)}
      <4>1. 1 \in DOMAIN subject /\ subject[1] = sent[k]
        BY <2>1, <2>3, <3>2
      <4>2. PICK a \in DOMAIN subject' : subject'[a] = sent[i]
        BY <2>3 DEF OnSubject, Range
      <4>3. a + 1 \in DOMAIN subject /\ subject[a + 1] = sent[i] /\ ~ (a + 1 < 1)
        BY <2>1, <4>2
      <4> QED
        BY <4>1, <4>3 DEF InOrder
    <3> QED
      BY <1>2, <3>1, <3>2
  <2> QED
    BY <2>2, <2>3
<1>3. CASE Take
  BY <1>2, <1>3, TakeMoves DEF Take
<1>4. CASE LoseMessage
  BY <1>2, <1>4 DEF LoseMessage, AtWork
<1>5. ASSUME NEW j \in Jobs, WorkOn(j) PROVE InOrder'
  BY <1>5, WorkMoves DEF InOrder
<1>6. CASE Restart
  <2>1. subject' = << >> /\ work' = Idle /\ sent' = sent
    BY <1>6 DEF Restart
  <2>2. AtWork' = {} /\ DOMAIN subject' = {}
    BY <2>1 DEF AtWork
  <2> QED
    BY <2>1, <2>2 DEF InOrder
<1>7. CASE \/ Evict \/ Tick \/ UNCHANGED vars
           \/ \E j \in Jobs : Poll(j) \/ Refuse(j) \/ \E d \in Documents : Post(j, d)
  <2>1. UNCHANGED <<subject, sent, work>>
    BY <1>7 DEF Evict, Tick, vars, Poll, Refuse, Post
  <2> QED
    BY <2>1 DEF InOrder, OnSubject, AtWork
<1> QED
  BY <1>1, <1>3, <1>4, <1>5, <1>6, <1>7 DEF IngestNext, Answer, Worker

-------------------------------------------------------------------------------
\* The inductive invariant.

LEMMA InitEstablishes == IngestInit => IngestInv
<1> SUFFICES ASSUME IngestInit PROVE IngestInv
  OBVIOUS
<1>1. /\ subject = << >> /\ sent = << >> /\ work = Idle
      /\ stored = {} /\ indexed = {} /\ announced = {} /\ lost = {}
  BY DEF IngestInit
<1>2. OnSubject = {} /\ Published = {} /\ AtWork = {} /\ DOMAIN sent = {} /\ DOMAIN subject = {}
  BY <1>1 DEF OnSubject, Published, AtWork, Range
<1>3. IngestTypeOK
  <2>1. Absent \in Job
    BY IngestAssumption DEF Absent, Job
  <2>2. now \in 0..MaxTime /\ faults \in 0..MaxFaults
    BY IngestAssumption DEF IngestInit
  <2>3. subject \in Seq(Jobs) /\ sent \in Seq(Jobs)
    BY <1>1
  <2> QED
    BY <1>1, <2>1, <2>2, <2>3 DEF IngestInit, IngestTypeOK, Documents
<1>4. OnePlace
  BY <1>1, <1>2 DEF OnePlace, IsInjective
<1>5. WorkMatches
  BY <1>1, <1>2 DEF WorkMatches
<1>6. TrackerMatches
  <2> SUFFICES ASSUME NEW j \in Jobs PROVE JobMatches(j)
    BY DEF TrackerMatches
  <2>1. tracker[j] = Absent /\ outcome[j] = Absent /\ heard[j] = "nothing" /\ request[j] = "none"
    BY DEF IngestInit
  <2>2. Absent.status = "absent"
    BY DEF Absent
  <2> QED
    BY <1>1, <1>2, <2>1, <2>2 DEF JobMatches, Terminal
<1>7. InOrder
  BY <1>2 DEF InOrder
<1> QED
  BY <1>3, <1>4, <1>5, <1>6, <1>7 DEF IngestInv

LEMMA StepPreserves == IngestInv /\ [IngestNext]_vars => IngestInv'
BY TypePreserved, OnePlacePreserved, WorkMatchesPreserved, TrackerMatchesPreserved,
   InOrderPreserved DEF IngestInv

\* The places, the worker's steps, the tracker and the order agree in every
\* reachable state (handlers_ingest.go, ingest_worker.go, ingest_tracker.go), for
\* every set of jobs and every number of faults.
THEOREM IngestInvariant == IngestSpec => []IngestInv
BY InitEstablishes, StepPreserves, PTL DEF IngestSpec

\* A client that has heard "completed" finds the document stored, and announced
\* where it should be, from then on (ingest_worker.go:113-117).
THEOREM HeardCompletedIsStored == IngestSpec => []HeardCompletedMeansStored
<1>1. IngestInit => HeardCompletedMeansStored
  BY DEF IngestInit, HeardCompletedMeansStored
<1>2. IngestInv /\ HeardCompletedMeansStored /\ [IngestNext]_vars => HeardCompletedMeansStored'
  <2> SUFFICES ASSUME IngestInv, HeardCompletedMeansStored, [IngestNext]_vars,
                      NEW i \in Jobs, heard'[i] = "completed"
               PROVE  Kept(i)'
    BY DEF HeardCompletedMeansStored
  <2>1. CASE heard[i] = "completed"
    BY <2>1, KeptStays DEF HeardCompletedMeansStored, IngestInv
  <2>2. CASE heard[i] # "completed"
    <3>1. PICK j \in Jobs : Poll(j)
      BY <2>2 DEF IngestNext, Answer, Worker, WorkOn, vars, tableVars, ghostVars, workerFrame,
           Accept, Refuse, Post, Take, Reject, Store, StoreFails, Index, Announce, Report,
           Evict, Tick, LoseMessage, Restart
    <3>2. tracker[i].status = "completed"
      BY <2>2, <3>1 DEF Poll, IngestInv, IngestTypeOK
    <3>3. Kept(i)
      BY <3>2 DEF IngestInv, TrackerMatches, JobMatches
    <3> QED
      BY <3>3, KeptStays DEF IngestInv
  <2> QED
    BY <2>1, <2>2
<1> QED
  BY <1>1, <1>2, IngestInvariant, PTL DEF IngestSpec

\* Nothing of a job answered 503 is ever stored (handlers_ingest.go:48-55).
THEOREM RefusedJobLeavesNothing == IngestSpec => []RefusedLeavesNothing
<1>1. IngestInv => RefusedLeavesNothing
  BY UnpublishedIsNowhere DEF IngestInv, RefusedLeavesNothing
<1> QED
  BY <1>1, IngestInvariant, PTL

\* How a job ended can be polled for the whole ttl, unless the gateway restarts
\* (ingest_tracker.go:55-69).
THEOREM OutcomeOutlivesTTL == IngestSpec => []OutcomeStaysForTTL
<1>1. IngestInit => OutcomeStaysForTTL
  BY DEF IngestInit, OutcomeStaysForTTL
<1>2. IngestInv /\ OutcomeStaysForTTL /\ [IngestNext]_vars => OutcomeStaysForTTL'
  <2> USE DEF workerFrame, ghostVars, tableVars
  <2> SUFFICES ASSUME IngestInv, OutcomeStaysForTTL, [IngestNext]_vars,
                      NEW i \in Jobs, outcome'[i] # Absent,
                      now' <= outcome'[i].updatedAt + TTL
               PROVE  tracker'[i] = outcome'[i]
    BY DEF OutcomeStaysForTTL
  <2>0. outcome[i] # Absent /\ now <= outcome[i].updatedAt + TTL => tracker[i] = outcome[i]
    BY DEF OutcomeStaysForTTL
  <2>1. CASE UNCHANGED <<tracker, outcome, now>>
    BY <2>0, <2>1
  <2>2. ASSUME NEW j \in Jobs, NEW status \in Terminal, Finish(j, status),
               tracker[j].status = "pending", now' = now
        PROVE  tracker'[i] = outcome'[i]
    BY <2>0, <2>2, FinishMatches DEF IngestInv
  <2>3. ASSUME NEW j \in Jobs, NEW d \in Documents, Post(j, d) PROVE tracker'[i] = outcome'[i]
    <3>1. outcome[j] = Absent /\ outcome' = outcome /\ now' = now
      BY <2>3 DEF Post, IngestInv, TrackerMatches, JobMatches
    <3>2. i # j /\ tracker'[i] = tracker[i]
      BY <2>3, <3>1 DEF Post, IngestInv, IngestTypeOK
    <3> QED
      BY <2>0, <3>1, <3>2
  <2>4. ASSUME NEW j \in Jobs, Refuse(j) PROVE tracker'[i] = outcome'[i]
    <3>1. Finish(j, "failed") /\ "failed" \in Terminal /\ request[j] = "filed" /\ now' = now
      BY <2>4 DEF Refuse, Terminal
    <3>2. tracker[j].status = "pending"
      BY <3>1 DEF IngestInv, TrackerMatches, JobMatches
    <3> QED
      BY <2>2, <3>1, <3>2
  <2>5. ASSUME NEW j \in Jobs, Reject(j) \/ StoreFails(j) \/ Report(j)
        PROVE  tracker'[i] = outcome'[i]
    <3>1. PICK status \in Terminal : Finish(j, status) /\ now' = now
      BY <2>5 DEF Reject, StoreFails, Report, Terminal
    <3>2. j \in AtWork
      BY <2>5, WorkMoves DEF WorkOn
    <3>3. tracker[j].status = "pending"
      BY <3>2 DEF IngestInv, TrackerMatches, JobMatches
    <3> QED
      BY <2>2, <3>1, <3>3
  <2>6. CASE Evict
    <3>1. /\ tracker'[i] = IF Stale(i) THEN Absent ELSE tracker[i]
          /\ outcome' = outcome /\ now' = now
      BY <2>6 DEF Evict
    <3>2. tracker[i] = outcome[i]
      BY <2>0, <3>1
    <3>3. now \in 0..MaxTime /\ outcome[i].updatedAt \in 0..MaxTime
      BY DEF IngestInv, IngestTypeOK, Job
    <3>4. ~ (outcome[i].updatedAt + TTL < now)
      BY <3>1, <3>3, IngestAssumption
    <3>5. ~Stale(i)
      BY <3>2, <3>4 DEF Stale
    <3> QED
      BY <3>1, <3>2, <3>5
  <2>7. CASE Tick
    <3>1. now' = now + 1 /\ UNCHANGED <<tracker, outcome>>
      BY <2>7 DEF Tick
    <3>2. now \in 0..MaxTime /\ outcome[i].updatedAt \in 0..MaxTime
      BY DEF IngestInv, IngestTypeOK, Job
    <3>3. now <= outcome[i].updatedAt + TTL
      BY <3>1, <3>2, IngestAssumption
    <3> QED
      BY <2>0, <3>1, <3>3
  <2>8. CASE Restart
    BY <2>8 DEF Restart
  <2> QED
    BY <2>1, <2>3, <2>4, <2>5, <2>6, <2>7, <2>8 DEF IngestNext, Answer, Worker, WorkOn, vars,
       Accept, Poll, Take, Store, Index, Announce, LoseMessage
<1> QED
  BY <1>1, <1>2, IngestInvariant, PTL DEF IngestSpec

\* A client never hears a second, different end of a job (ingest_tracker.go:77-119).
THEOREM OutcomesStayFinal == IngestSpec => OutcomesAreFinal
<1>1. IngestInv /\ [IngestNext]_vars =>
        [\A j \in Jobs : heard[j] \in Terminal \cup {"absent"} =>
           heard'[j] \in {heard[j], "absent"}]_vars
  <2> SUFFICES ASSUME IngestInv, [IngestNext]_vars,
                      NEW i \in Jobs, heard[i] \in Terminal \cup {"absent"}
               PROVE  heard'[i] \in {heard[i], "absent"}
    OBVIOUS
  <2>1. CASE heard' = heard
    BY <2>1
  <2>2. ASSUME NEW j \in Jobs, Poll(j) PROVE heard'[i] \in {heard[i], "absent"}
    BY <2>2 DEF Poll, IngestInv, IngestTypeOK, TrackerMatches, JobMatches
  <2> QED
    BY <2>1, <2>2 DEF IngestNext, Answer, Worker, WorkOn, vars, tableVars, ghostVars,
       workerFrame, Accept, Refuse, Post, Take, Reject, Store, StoreFails, Index, Announce,
       Report, Evict, Tick, LoseMessage, Restart
<1> QED
  BY <1>1, IngestInvariant, PTL DEF IngestSpec, OutcomesAreFinal

\* The later of two published documents is not stored while the earlier one
\* still waits or is being handled (ingest_worker.go:35-56).
THEOREM NeverOvertaken == IngestSpec => []LaterNeverOvertaken
<1>1. IngestInit => LaterNeverOvertaken
  <2>1. IngestInit => DOMAIN sent = {}
    BY DEF IngestInit
  <2> QED
    BY <2>1 DEF LaterNeverOvertaken
<1>2. IngestInv /\ LaterNeverOvertaken /\ [IngestNext]_vars => LaterNeverOvertaken'
  <2> USE DEF workerFrame, ghostVars, tableVars
  <2> SUFFICES ASSUME IngestInv, LaterNeverOvertaken, [IngestNext]_vars
               PROVE  LaterNeverOvertaken'
    OBVIOUS
  <2>0. IngestTypeOK /\ OnePlace /\ InOrder
    BY DEF IngestInv
  \* Nothing new is stored and nothing moves backwards.
  <2>1. ASSUME sent' = sent, stored' = stored, OnSubject' \cup AtWork' \subseteq OnSubject \cup AtWork
        PROVE  LaterNeverOvertaken'
    BY <2>1 DEF LaterNeverOvertaken
  <2>2. ASSUME NEW j \in Jobs, Accept(j) PROVE LaterNeverOvertaken'
    <3>1. sent' = Append(sent, j) /\ stored' = stored
      BY <2>2 DEF Accept
    <3>2. /\ DOMAIN sent = 1..Len(sent) /\ Len(sent) \in Nat
          /\ DOMAIN sent' = 1..(Len(sent) + 1)
          /\ \A a \in DOMAIN sent : sent'[a] = sent[a]
          /\ sent'[Len(sent) + 1] = j
      <4>1. sent \in Seq(Jobs)
        BY <2>0 DEF IngestTypeOK
      <4> QED
        BY <3>1, <4>1
    <3>3. /\ AtWork' = AtWork /\ OnSubject' = OnSubject \cup {j}
          /\ j \notin Published /\ j \notin stored
      BY <2>0, <2>2, AcceptMoves DEF OnePlace
    <3>4. \A a \in DOMAIN sent : sent[a] # j
      BY <3>3 DEF Published, Range
    <3> SUFFICES ASSUME NEW i \in DOMAIN sent', NEW k \in DOMAIN sent', i < k,
                        sent'[k] \in stored
                 PROVE  sent'[i] \notin OnSubject' \cup AtWork'
      BY <3>1 DEF LaterNeverOvertaken
    <3>5. k \in DOMAIN sent /\ i \in DOMAIN sent
      BY <3>2, <3>3
    <3> QED
      BY <3>2, <3>3, <3>4, <3>5 DEF LaterNeverOvertaken
  <2>3. ASSUME NEW j \in Jobs, WorkOn(j) PROVE LaterNeverOvertaken'
    <3>1. /\ AtWork = {j} /\ AtWork' \subseteq {j} /\ sent' = sent /\ OnSubject' = OnSubject
          /\ stored' \subseteq stored \cup {j}
      BY <2>3, WorkMoves
    <3>2. IsInjective(sent) /\ sent \in Seq(Jobs)
      BY <2>0 DEF OnePlace, IngestTypeOK
    <3> SUFFICES ASSUME NEW i \in DOMAIN sent, NEW k \in DOMAIN sent, i < k,
                        sent[k] \in stored'
                 PROVE  sent[i] \notin OnSubject' \cup AtWork'
      BY <3>1 DEF LaterNeverOvertaken
    <3>3. CASE sent[k] \in stored
      BY <3>1, <3>3 DEF LaterNeverOvertaken
    <3>4. CASE sent[k] = j
      <4>1. sent[i] \notin OnSubject
        BY <2>0, <3>1, <3>4 DEF InOrder
      <4>2. i \in Nat /\ k \in Nat
        BY <3>2
      <4>3. sent[i] # sent[k]
        BY <3>2, <4>2 DEF IsInjective
      <4> QED
        BY <3>1, <3>4, <4>1, <4>3
    <3> QED
      BY <3>1, <3>3, <3>4
  <2>4. CASE Take
    <3>1. OnSubject' \cup AtWork' \subseteq OnSubject \cup AtWork
      BY <2>0, <2>4, TakeMoves
    <3> QED
      BY <2>1, <2>4, <3>1 DEF Take
  <2>5. CASE LoseMessage
    <3>1. AtWork' = AtWork /\ OnSubject' \subseteq OnSubject
      BY <2>0, <2>5, HeadMoves DEF LoseMessage, AtWork
    <3> QED
      BY <2>1, <2>5, <3>1 DEF LoseMessage
  <2>6. CASE Restart
    <3>1. subject' = << >> /\ work' = Idle
      BY <2>6 DEF Restart
    <3>2. OnSubject' = {} /\ AtWork' = {}
      BY <3>1 DEF OnSubject, Range, AtWork
    <3> QED
      BY <2>1, <2>6, <3>2 DEF Restart
  <2>7. CASE \/ Evict \/ Tick \/ UNCHANGED vars
             \/ \E j \in Jobs : Poll(j) \/ Refuse(j) \/ \E d \in Documents : Post(j, d)
    <3>1. UNCHANGED <<subject, sent, work, stored>>
      BY <2>7 DEF Evict, Tick, vars, Poll, Refuse, Post
    <3>2. UNCHANGED <<OnSubject, AtWork>>
      BY <3>1 DEF OnSubject, AtWork
    <3> QED
      BY <2>1, <3>1, <3>2
  <2> QED
    BY <2>2, <2>3, <2>4, <2>5, <2>6, <2>7 DEF IngestNext, Answer, Worker
<1> QED
  BY <1>1, <1>2, IngestInvariant, PTL DEF IngestSpec

===============================================================================
