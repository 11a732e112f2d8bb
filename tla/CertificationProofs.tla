------------------------- MODULE CertificationProofs -------------------------
(***************************************************************************)
(* For every set of logs, every window and lookback and every bound on     *)
(* events, writes and faults: the certification handler keeps its books, a *)
(* later judgement of a row is never replaced by one of an older state,    *)
(* the flag of a row agrees with the stored verdicts of its evidence id,   *)
(* and an event that was handled to the end covers its window.             *)
(***************************************************************************)
EXTENDS Certification, DebouncerProofs, FiniteSetTheorems

-------------------------------------------------------------------------------
\* The inductive invariant, part by part.

WireEvent == [policy : Policies, at : 0..MaxTime, asOf : 0..MaxWrites]
PushedEvent == [at : 0..MaxTime, asOf : 0..MaxWrites, due : 0..(MaxTime + Window)]

CountersTyped == now \in 0..MaxTime /\ writes \in 0..MaxWrites /\ faults \in 0..MaxFaults

StoreTyped ==
  /\ DOMAIN rows \subseteq Keys
  /\ \A k \in DOMAIN rows : rows[k] \in Row
  /\ \A i \in DOMAIN certs : certs[i] \in Verdict
  /\ judged \in [Keys -> 0..MaxWrites]

BusTyped ==
  /\ worker \in Policies \cup {NoPolicy}
  /\ wire \in Seq(WireEvent)
  /\ evt \in [Events -> PushedEvent]

HandlerTyped ==
  /\ todo \in [Events -> SUBSET SnapshotRow]
  /\ doing \in [Events -> SUBSET SnapshotRow]
  /\ queried \in SUBSET Events
  /\ spoiled \in SUBSET Events

\* What an event knows of was written before it was published.
AsOfPast ==
  /\ \A e \in Events : evt[e].asOf <= writes
  /\ \A i \in 1..Len(wire) : wire[i].asOf <= writes

\* A row was written by a log of its evidence id, and was never judged in a
\* state that is still to come.
RowBooks ==
  /\ \A k \in DOMAIN rows :
       /\ rows[k].write <= writes
       /\ judged[k] <= rows[k].write
       /\ \E l \in Logs : l.eid = k[1] /\ l.policy = rows[k].policy
  /\ \A k \in Keys : judged[k] <= writes

\* HandlerBooks for one event, with "one at a time" said without Cardinality.
Books(e) ==
  /\ e \in queried => stage[e] = "running"
  /\ e \notin queried => todo[e] = {} /\ doing[e] = {}
  /\ \A s, t \in todo[e] \cup doing[e] : s.key = t.key => s = t
  /\ todo[e] \cap doing[e] = {}
  /\ \A s, t \in doing[e] : s = t
  /\ \A s \in todo[e] \cup doing[e] :
       /\ s.key \in DOMAIN rows
       /\ rows[s.key].policy = policyOf[e]
       /\ s.write <= rows[s.key].write

\* A row that is still to be judged was not judged in a later state.
NotOvertaken(e) == \A s \in todo[e] : judged[s.key] <= s.write

\* Between its two statements the handler's verdicts are those stored, as long
\* as only one policy refers to the evidence id.
VerdictsStored(e) ==
  \A s \in doing[e] : OneHome(s.key[1]) =>
    s.key[1] \in DOMAIN certs /\ certs[s.key[1]] = s.verdicts

\* The rows that an event has to cover.
InWindow(e, k) ==
  /\ rows[k].policy = policyOf[e]
  /\ rows[k].ingestedAt >= Since(e)
  /\ rows[k].write <= evt[e].asOf

\* A handler at work covers its window up to the rows it still has to judge.
Judged(k) == judged[k] = rows[k].write
Ahead(e, k) == \E s \in todo[e] : s.key = k /\ s.write = rows[k].write

CoversSoFar(e) ==
  e \in queried /\ e \notin spoiled =>
    \A k \in DOMAIN rows : InWindow(e, k) => Judged(k) \/ Ahead(e, k)

Covers(e) ==
  stage[e] = "done" /\ e \notin spoiled =>
    \A k \in DOMAIN rows : InWindow(e, k) => Judged(k)

\* The flag of one row.
FlagAgrees(k) ==
  rows[k].certified /\ OneHome(k[1]) =>
    \/ k[1] \in DOMAIN certs /\ IsCertified(certs[k[1]])
    \/ BetweenStatements(k[1])
    \/ k[1] \in torn

Typed == CountersTyped /\ StoreTyped /\ BusTyped /\ HandlerTyped

EventInv(e) == Books(e) /\ NotOvertaken(e) /\ VerdictsStored(e) /\ CoversSoFar(e) /\ Covers(e)

CoreInv ==
  /\ AsOfPast
  /\ RowBooks
  /\ \A e \in Events : EventInv(e)
  /\ \A k \in DOMAIN rows : FlagAgrees(k)

IInv == DebouncerInv /\ Typed /\ CoreInv

-------------------------------------------------------------------------------
\* Records.

\* The fields of a snapshot, a row, a pushed event and a message.
LEMMA SnapshotFacts ==
  ASSUME NEW s \in SnapshotRow
  PROVE  /\ s.key \in Keys /\ s.verdicts \in Verdict
         /\ s.write \in 1..MaxWrites /\ s.write \in Nat
BY CertificationAssumption, DebouncerAssumption DEF SnapshotRow

LEMMA RowFacts ==
  ASSUME NEW r \in Row
  PROVE  /\ r.write \in 1..MaxWrites /\ r.write \in Nat
         /\ r.ingestedAt \in 0..MaxTime /\ r.ingestedAt \in Nat
         /\ r.certified \in BOOLEAN /\ r.provenance \in BOOLEAN
         /\ r.policy \in Policies \cup {NoPolicy}
BY CertificationAssumption, DebouncerAssumption DEF Row

LEMMA EventFacts ==
  ASSUME NEW v \in PushedEvent
  PROVE  v.asOf \in Nat /\ v.at \in Nat /\ v.due \in Nat
BY CertificationAssumption, DebouncerAssumption DEF PushedEvent

LEMMA WireFacts ==
  ASSUME NEW v \in WireEvent
  PROVE  /\ v.policy \in Policies /\ v.at \in 0..MaxTime
         /\ v.asOf \in 0..MaxWrites /\ v.asOf \in Nat
BY CertificationAssumption, DebouncerAssumption DEF WireEvent

\* A snapshot keeps the key, the write and the verdicts of a row.
LEMMA SnapshotTyped ==
  ASSUME StoreTyped, NEW k \in DOMAIN rows
  PROVE  /\ Snapshot(k) \in SnapshotRow
         /\ Snapshot(k).key = k
         /\ Snapshot(k).write = rows[k].write
<1>1. k \in Keys /\ rows[k] \in Row
  BY DEF StoreTyped
<1>2. rows[k].content \in [schema : {"pass", "fail"}, executor : {"pass", "fail", "skip"}]
  BY <1>1, CertificationAssumption DEF Row
<1>3. Verdicts(rows[k]) \in Verdict
  BY <1>2 DEF Verdicts, Verdict, Certifiers
<1>4. rows[k].ingestedAt \in 0..MaxTime /\ rows[k].write \in 1..MaxWrites
  BY <1>1 DEF Row
<1>. QED
  BY <1>1, <1>3, <1>4 DEF Snapshot, SnapshotRow

\* The keys of a log are keys, and its contents are contents of rows.
LEMMA KeysOfLog ==
  ASSUME NEW l \in Logs, NEW k \in KeysOf(l)
  PROVE  /\ k \in Keys /\ k[1] = l.eid /\ k[2] \in DOMAIN l.content
         /\ l.content[k[2]] \in UNION {{m.content[q] : q \in DOMAIN m.content} : m \in Logs}
<1>1. PICK q \in DOMAIN l.content : k = <<l.eid, q>>
  BY DEF KeysOf
<1>2. k \in Keys
  BY <1>1 DEF Keys
<1>. QED
  BY <1>1, <1>2

-------------------------------------------------------------------------------
\* What is compared are numbers.
Numbers ==
  /\ writes \in Nat
  /\ judged \in [Keys -> Nat]
  /\ DOMAIN rows \subseteq Keys
  /\ \A k \in DOMAIN rows : rows[k].write \in Nat
  /\ \A e \in Events : evt[e].asOf \in Nat
  /\ \A i \in 1..Len(wire) : wire[i].asOf \in Nat
  /\ \A e \in Events : \A s \in todo[e] \cup doing[e] : s.write \in Nat /\ s.key \in Keys

\* The types say so.
LEMMA TypesGiveNumbers == ASSUME Typed PROVE Numbers
<1>1. judged \in [Keys -> Nat] /\ writes \in Nat /\ DOMAIN rows \subseteq Keys
  BY CertificationAssumption, DebouncerAssumption DEF Typed, StoreTyped, CountersTyped
<1>2. \A e \in Events : evt[e].asOf \in Nat
  BY EventFacts DEF Typed, BusTyped
<1>3. \A e \in Events : \A s \in todo[e] \cup doing[e] : s.write \in Nat /\ s.key \in Keys
  BY SnapshotFacts DEF Typed, HandlerTyped
<1>4. \A k \in DOMAIN rows : rows[k].write \in Nat
  BY RowFacts DEF Typed, StoreTyped
<1>5. ASSUME NEW i \in 1..Len(wire) PROVE wire[i].asOf \in Nat
  <2>1. wire[i] \in WireEvent
    BY DEF Typed, BusTyped
  <2>. QED
    BY <2>1, WireFacts
<1>. QED
  BY <1>1, <1>2, <1>3, <1>4, <1>5 DEF Numbers

-------------------------------------------------------------------------------
\* The evidence table only grows: the upsert of a log leaves policy, time and
\* flag of an existing row alone, and what it writes bears a new number.
RowsGrow ==
  /\ DOMAIN rows \subseteq DOMAIN rows'
  /\ \A k \in DOMAIN rows :
       /\ rows'[k].policy = rows[k].policy
       /\ rows'[k].ingestedAt = rows[k].ingestedAt
       /\ rows'[k].certified = rows[k].certified
       /\ rows'[k].write \in {rows[k].write, writes + 1}
  /\ \A k \in DOMAIN rows' \ DOMAIN rows :
       /\ k \in Keys
       /\ rows'[k].certified = FALSE
       /\ rows'[k].write = writes + 1
       /\ \E l \in Logs : l.eid = k[1] /\ l.policy = rows'[k].policy
  /\ \A k \in DOMAIN rows' : rows'[k] \in Row

\* What an upsert does, field by field.
LEMMA UpsertGrows ==
  ASSUME Typed, writes < MaxWrites, NEW l \in Logs, NEW prov \in BOOLEAN,
         rows' = Upsert(l, prov)
  PROVE  RowsGrow
<1>. DEFINE K == KeysOf(l)
            C == UNION {{m.content[q] : q \in DOMAIN m.content} : m \in Logs}
            Fresh(k) == [policy |-> l.policy, content |-> l.content[k[2]],
                         provenance |-> prov, ingestedAt |-> now,
                         certified |-> FALSE, write |-> writes + 1]
            Again(k) == [rows[k] EXCEPT !.content = l.content[k[2]], !.write = writes + 1]
<1>1. /\ DOMAIN rows' = DOMAIN rows \cup K
      /\ \A k \in DOMAIN rows \ K : rows'[k] = rows[k]
      /\ \A k \in DOMAIN rows \cap K : rows'[k] = Again(k)
      /\ \A k \in K \ DOMAIN rows : rows'[k] = Fresh(k)
  BY DEF Upsert
<1>2. /\ writes + 1 \in 1..MaxWrites /\ now \in 0..MaxTime
      /\ l.policy \in Policies \cup {NoPolicy}
      /\ \A k \in DOMAIN rows : rows[k] \in Row
  BY CertificationAssumption, DebouncerAssumption DEF Typed, CountersTyped, StoreTyped
<1>3. \A k \in K : k \in Keys /\ k[1] = l.eid /\ l.content[k[2]] \in C
  BY KeysOfLog
<1>4. ASSUME NEW k \in K
      PROVE  /\ Fresh(k) \in Row
             /\ Fresh(k).certified = FALSE
             /\ Fresh(k).write = writes + 1
             /\ Fresh(k).policy = l.policy
  <2>. HIDE DEF K
  <2>. QED
    BY <1>2, <1>3 DEF Row
<1>5. ASSUME NEW k \in DOMAIN rows \cap K
      PROVE  /\ Again(k) \in Row
             /\ Again(k).policy = rows[k].policy
             /\ Again(k).ingestedAt = rows[k].ingestedAt
             /\ Again(k).certified = rows[k].certified
             /\ Again(k).write = writes + 1
  <2>. HIDE DEF K
  <2>. QED
    BY <1>2, <1>3 DEF Row
<1>. HIDE DEF K, C, Fresh, Again
<1>6. ASSUME NEW k \in DOMAIN rows
      PROVE  /\ rows'[k].policy = rows[k].policy
             /\ rows'[k].ingestedAt = rows[k].ingestedAt
             /\ rows'[k].certified = rows[k].certified
             /\ rows'[k].write \in {rows[k].write, writes + 1}
  BY <1>1, <1>5
<1>7. ASSUME NEW k \in DOMAIN rows' \ DOMAIN rows
      PROVE  /\ k \in Keys
             /\ rows'[k].certified = FALSE
             /\ rows'[k].write = writes + 1
             /\ \E m \in Logs : m.eid = k[1] /\ m.policy = rows'[k].policy
  <2>1. k \in K /\ rows'[k] = Fresh(k)
    BY <1>1
  <2>. QED
    BY <2>1, <1>3, <1>4
<1>8. ASSUME NEW k \in DOMAIN rows' PROVE rows'[k] \in Row
  <2>1. CASE k \in DOMAIN rows \ K
    BY <2>1, <1>1, <1>2
  <2>2. CASE k \in DOMAIN rows \cap K
    BY <2>2, <1>1, <1>5
  <2>3. CASE k \in K \ DOMAIN rows
    BY <2>3, <1>1, <1>4
  <2>. QED
    BY <2>1, <2>2, <2>3, <1>1
<1>. QED
  BY <1>1, <1>6, <1>7, <1>8 DEF RowsGrow

\* A write keeps the invariant: what it changes is newer than any event.
LEMMA WriteKeeps ==
  ASSUME IInv, RowsGrow, writes' = writes + 1,
         UNCHANGED <<debouncerVars, handlerVars, certs, judged, wire, evt>>
  PROVE  CoreInv'
<1>. USE DEF debouncerVars, handlerVars
<1>1. Numbers /\ \A k \in DOMAIN rows' : rows'[k].write \in Nat
  BY TypesGiveNumbers, RowFacts DEF IInv, RowsGrow
<1>. USE DEF Numbers
<1>2. \A k \in DOMAIN rows : rows'[k].write >= rows[k].write
  BY <1>1 DEF IInv, CoreInv, RowBooks, RowsGrow
<1>3. ASSUME NEW e \in Events, NEW k \in DOMAIN rows', InWindow(e, k)'
      PROVE  k \in DOMAIN rows /\ rows'[k].write = rows[k].write /\ InWindow(e, k)
  <2>1. rows'[k].write <= evt[e].asOf /\ evt[e].asOf <= writes
    BY <1>3 DEF InWindow, IInv, CoreInv, AsOfPast
  <2>2. rows'[k].write # writes + 1
    BY <2>1, <1>1
  <2>3. k \in DOMAIN rows /\ rows'[k].write = rows[k].write
    BY <2>2 DEF RowsGrow
  <2>. QED
    BY <2>3, <1>3 DEF InWindow, Since, RowsGrow
<1>4. AsOfPast'
  BY <1>1 DEF IInv, CoreInv, AsOfPast
<1>5. RowBooks'
  <2>1. \A k \in Keys : judged[k] <= writes'
    BY <1>1 DEF IInv, CoreInv, RowBooks
  <2>2. ASSUME NEW k \in DOMAIN rows
        PROVE  /\ rows'[k].write <= writes' /\ judged[k] <= rows'[k].write
               /\ \E l \in Logs : l.eid = k[1] /\ l.policy = rows'[k].policy
    BY <1>1, <1>2 DEF IInv, CoreInv, RowBooks, RowsGrow
  <2>3. ASSUME NEW k \in DOMAIN rows' \ DOMAIN rows
        PROVE  /\ rows'[k].write <= writes' /\ judged[k] <= rows'[k].write
               /\ \E l \in Logs : l.eid = k[1] /\ l.policy = rows'[k].policy
    BY <1>1, <2>1 DEF RowsGrow
  <2>. QED
    BY <2>1, <2>2, <2>3 DEF RowBooks
<1>6. ASSUME NEW e \in Events PROVE EventInv(e)'
  <2>0. EventInv(e)
    BY DEF IInv, CoreInv
  <2>1. Books(e)'
    BY <2>0, <1>1, <1>2 DEF EventInv, Books, RowsGrow
  <2>2. NotOvertaken(e)'
    BY <2>0 DEF EventInv, NotOvertaken
  <2>3. VerdictsStored(e)'
    BY <2>0 DEF EventInv, VerdictsStored
  <2>4. CoversSoFar(e)'
    BY <2>0, <1>3 DEF EventInv, CoversSoFar, Judged, Ahead
  <2>5. Covers(e)'
    BY <2>0, <1>3 DEF EventInv, Covers, Judged
  <2>. QED
    BY <2>1, <2>2, <2>3, <2>4, <2>5 DEF EventInv
<1>7. ASSUME NEW k \in DOMAIN rows' PROVE FlagAgrees(k)'
  <2>1. rows'[k].certified => k \in DOMAIN rows /\ rows[k].certified
    BY DEF RowsGrow
  <2>. QED
    BY <2>1 DEF IInv, CoreInv, FlagAgrees, BetweenStatements
<1>. QED
  BY <1>4, <1>5, <1>6, <1>7 DEF CoreInv

-------------------------------------------------------------------------------
\* Steps outside the handler and the tables: events that a handler works on or
\* has finished stay as they are.
EventsKept ==
  \A e \in Events :
    /\ stage[e] \in {"running", "done"} =>
         stage'[e] = stage[e] /\ policyOf'[e] = policyOf[e] /\ evt'[e] = evt[e]
    /\ stage'[e] = "done" => stage[e] = "done"

\* Such steps keep the core of the invariant.
LEMMA QuietKeeps ==
  ASSUME IInv, EventsKept, AsOfPast', UNCHANGED <<storeVars, handlerVars, writes>>
  PROVE  CoreInv'
<1>. USE DEF storeVars, handlerVars
<1>1. RowBooks'
  BY DEF IInv, CoreInv, RowBooks
<1>2. ASSUME NEW e \in Events PROVE EventInv(e)'
  <2>0. EventInv(e)
    BY DEF IInv, CoreInv
  <2>1. Books(e)'
    BY <2>0 DEF EventInv, Books, EventsKept
  <2>2. NotOvertaken(e)' /\ VerdictsStored(e)'
    BY <2>0 DEF EventInv, NotOvertaken, VerdictsStored
  <2>3. CoversSoFar(e)'
    <3>1. e \in queried => policyOf'[e] = policyOf[e] /\ evt'[e] = evt[e]
      BY <2>0 DEF EventInv, Books, EventsKept
    <3>. QED
      BY <2>0, <3>1 DEF EventInv, CoversSoFar, InWindow, Since, Judged, Ahead
  <2>4. Covers(e)'
    <3>1. stage'[e] = "done" =>
            stage[e] = "done" /\ policyOf'[e] = policyOf[e] /\ evt'[e] = evt[e]
      BY DEF EventsKept
    <3>. QED
      BY <2>0, <3>1 DEF EventInv, Covers, InWindow, Since, Judged
  <2>. QED
    BY <2>1, <2>2, <2>3, <2>4 DEF EventInv
<1>3. ASSUME NEW k \in DOMAIN rows' PROVE FlagAgrees(k)'
  BY DEF IInv, CoreInv, FlagAgrees, BetweenStatements
<1>. QED
  BY <1>1, <1>2, <1>3 DEF CoreInv

\* The steps of the handler leave the bus alone, so what is known of the past
\* stays known.
LEMMA HandlerKeepsAsOf ==
  ASSUME IInv, UNCHANGED <<wire, evt, writes>>
  PROVE  AsOfPast'
BY DEF IInv, CoreInv, AsOfPast

\* The query returns snapshots of the rows of the window, one for each.
LEMMA QueryReturns ==
  ASSUME StoreTyped, NEW p, NEW since
  PROVE  /\ RecentEvidence(p, since) \in SUBSET SnapshotRow
         /\ \A t \in RecentEvidence(p, since) :
              /\ t.key \in DOMAIN rows /\ rows[t.key].policy = p
              /\ t.write = rows[t.key].write /\ t = Snapshot(t.key)
         /\ \A k \in DOMAIN rows :
              rows[k].policy = p /\ rows[k].ingestedAt >= since =>
                \E t \in RecentEvidence(p, since) : t.key = k /\ t.write = rows[k].write
<1>1. \A k \in DOMAIN rows :
        Snapshot(k) \in SnapshotRow /\ Snapshot(k).key = k /\ Snapshot(k).write = rows[k].write
  BY SnapshotTyped
<1>. QED
  BY <1>1 DEF RecentEvidence

\* A query starts the handler's work: everything in its window lies ahead.
LEMMA QueryKeeps ==
  ASSUME IInv, NEW e \in Events, Query(e)
  PROVE  CoreInv'
<1>. DEFINE found == RecentEvidence(policyOf[e], Since(e))
<1>1. /\ todo \in [Events -> SUBSET SnapshotRow]
      /\ StoreTyped
      /\ Numbers
      /\ EventInv(e) /\ \A f \in Events : EventInv(f)
      /\ RowBooks
  BY TypesGiveNumbers DEF IInv, Typed, CoreInv, HandlerTyped
<1>2. /\ stage[e] = "running" /\ e \notin queried
      /\ queried' = queried \cup {e}
      /\ todo'[e] = found
      /\ \A f \in Events \ {e} : todo'[f] = todo[f]
      /\ doing' = doing /\ stage' = stage /\ policyOf' = policyOf /\ evt' = evt
      /\ rows' = rows /\ certs' = certs /\ judged' = judged
      /\ spoiled' = spoiled /\ torn' = torn /\ writes' = writes /\ wire' = wire
  BY <1>1 DEF Query, debouncerVars, storeVars, busVars
<1>3. /\ found \in SUBSET SnapshotRow
      /\ \A t \in found :
              /\ t.key \in DOMAIN rows /\ rows[t.key].policy = policyOf[e]
              /\ t.write = rows[t.key].write /\ t = Snapshot(t.key)
      /\ \A k \in DOMAIN rows :
              rows[k].policy = policyOf[e] /\ rows[k].ingestedAt >= Since(e) =>
                \E t \in found : t.key = k /\ t.write = rows[k].write
  BY <1>1, QueryReturns
<1>. HIDE DEF found
<1>4. AsOfPast' /\ RowBooks'
  BY <1>1, <1>2, HandlerKeepsAsOf DEF RowBooks
<1>5. EventInv(e)'
  <2>1. doing[e] = {}
    BY <1>1, <1>2 DEF EventInv, Books
  <2>2. Books(e)'
    BY <1>1, <1>2, <1>3, <2>1 DEF Books, Numbers
  <2>3. NotOvertaken(e)'
    BY <1>1, <1>2, <1>3 DEF NotOvertaken, RowBooks
  <2>4. VerdictsStored(e)'
    BY <1>2, <2>1 DEF VerdictsStored
  <2>5. CoversSoFar(e)'
    BY <1>2, <1>3 DEF CoversSoFar, InWindow, Since, Ahead
  <2>6. Covers(e)'
    BY <1>2 DEF Covers
  <2>. QED
    BY <2>2, <2>3, <2>4, <2>5, <2>6 DEF EventInv
<1>6. ASSUME NEW f \in Events \ {e} PROVE EventInv(f)'
  <2>0. EventInv(f)
    BY <1>1
  <2>1. Books(f)'
    BY <1>2, <2>0 DEF EventInv, Books
  <2>2. NotOvertaken(f)' /\ VerdictsStored(f)'
    BY <1>2, <2>0 DEF EventInv, NotOvertaken, VerdictsStored
  <2>3. CoversSoFar(f)' /\ Covers(f)'
    BY <1>2, <2>0 DEF EventInv, CoversSoFar, Covers, InWindow, Since, Judged, Ahead
  <2>. QED
    BY <2>1, <2>2, <2>3 DEF EventInv
<1>7. ASSUME NEW k \in DOMAIN rows' PROVE FlagAgrees(k)'
  BY <1>2 DEF IInv, CoreInv, FlagAgrees, BetweenStatements
<1>. QED
  BY <1>4, <1>5, <1>6, <1>7 DEF CoreInv

-------------------------------------------------------------------------------
\* The handlers that a step does not concern.
LEMMA OthersKeep ==
  ASSUME IInv, NEW f \in Events,
         f \in queried' <=> f \in queried, f \in spoiled' <=> f \in spoiled,
         stage'[f] = stage[f], todo'[f] = todo[f], doing'[f] = doing[f],
         UNCHANGED <<rows, certs, judged, policyOf, evt>>
  PROVE  EventInv(f)'
<1>0. EventInv(f)
  BY DEF IInv, CoreInv
<1>1. Books(f)'
  BY <1>0 DEF EventInv, Books
<1>2. NotOvertaken(f)' /\ VerdictsStored(f)'
  BY <1>0 DEF EventInv, NotOvertaken, VerdictsStored
<1>3. CoversSoFar(f)' /\ Covers(f)'
  BY <1>0 DEF EventInv, CoversSoFar, Covers, InWindow, Since, Judged, Ahead
<1>. QED
  BY <1>1, <1>2, <1>3 DEF EventInv

\* A failed query ends the handler: its event is spoiled and covers nothing.
LEMMA QueryFailsKeeps ==
  ASSUME IInv, NEW e \in Events, QueryFails(e)
  PROVE  CoreInv'
<1>1. /\ stage[e] = "running" /\ e \notin queried
      /\ stage'[e] = "done" /\ \A f \in Events \ {e} : stage'[f] = stage[f]
      /\ spoiled' = spoiled \cup {e}
      /\ queried' = queried /\ todo' = todo /\ doing' = doing /\ torn' = torn
      /\ policyOf' = policyOf /\ evt' = evt /\ wire' = wire /\ writes' = writes
      /\ rows' = rows /\ certs' = certs /\ judged' = judged
  BY DEF QueryFails, Return, IInv, DebouncerInv, DebouncerTypeOK, storeVars, busVars
<1>2. AsOfPast' /\ RowBooks'
  BY <1>1, HandlerKeepsAsOf DEF IInv, CoreInv, RowBooks
<1>3. EventInv(e)'
  <2>0. EventInv(e)
    BY DEF IInv, CoreInv
  <2>1. Books(e)'
    BY <1>1, <2>0 DEF EventInv, Books
  <2>2. NotOvertaken(e)' /\ VerdictsStored(e)'
    BY <1>1, <2>0 DEF EventInv, NotOvertaken, VerdictsStored
  <2>3. CoversSoFar(e)' /\ Covers(e)'
    BY <1>1 DEF CoversSoFar, Covers
  <2>. QED
    BY <2>1, <2>2, <2>3 DEF EventInv
<1>4. \A f \in Events \ {e} : EventInv(f)'
  BY <1>1, OthersKeep
<1>5. ASSUME NEW k \in DOMAIN rows' PROVE FlagAgrees(k)'
  BY <1>1 DEF IInv, CoreInv, FlagAgrees, BetweenStatements
<1>. QED
  BY <1>2, <1>3, <1>4, <1>5 DEF CoreInv

\* A handler that returns has nothing ahead, so its window is covered.
LEMMA HandlerReturnsKeeps ==
  ASSUME IInv, NEW e \in Events, HandlerReturns(e)
  PROVE  CoreInv'
<1>1. /\ e \in queried /\ todo[e] = {} /\ doing[e] = {}
      /\ stage'[e] = "done" /\ \A f \in Events \ {e} : stage'[f] = stage[f]
      /\ queried' = queried \ {e}
      /\ spoiled' = spoiled /\ todo' = todo /\ doing' = doing /\ torn' = torn
      /\ policyOf' = policyOf /\ evt' = evt /\ wire' = wire /\ writes' = writes
      /\ rows' = rows /\ certs' = certs /\ judged' = judged
  BY DEF HandlerReturns, Return, IInv, DebouncerInv, DebouncerTypeOK, storeVars, busVars
<1>2. AsOfPast' /\ RowBooks'
  BY <1>1, HandlerKeepsAsOf DEF IInv, CoreInv, RowBooks
<1>3. EventInv(e)'
  <2>0. EventInv(e)
    BY DEF IInv, CoreInv
  <2>1. Books(e)'
    BY <1>1 DEF Books
  <2>2. NotOvertaken(e)' /\ VerdictsStored(e)' /\ CoversSoFar(e)'
    BY <1>1 DEF NotOvertaken, VerdictsStored, CoversSoFar
  <2>3. Covers(e)'
    BY <1>1, <2>0 DEF EventInv, CoversSoFar, Covers, InWindow, Since, Judged, Ahead
  <2>. QED
    BY <2>1, <2>2, <2>3 DEF EventInv
<1>4. \A f \in Events \ {e} : EventInv(f)'
  BY <1>1, OthersKeep
<1>5. ASSUME NEW k \in DOMAIN rows' PROVE FlagAgrees(k)'
  BY <1>1 DEF IInv, CoreInv, FlagAgrees, BetweenStatements
<1>. QED
  BY <1>2, <1>3, <1>4, <1>5 DEF CoreInv

\* A row passed over with nothing stored: the event is spoiled.
PassesOver(e) == SaveVerdictsFails(e) /\ UNCHANGED <<certs, judged, torn>>

LEMMA PassesOverKeeps ==
  ASSUME IInv, NEW e \in Events, PassesOver(e)
  PROVE  CoreInv'
<1>1. /\ todo'[e] \subseteq todo[e] /\ \A f \in Events \ {e} : todo'[f] = todo[f]
      /\ spoiled' = spoiled \cup {e}
      /\ stage' = stage /\ queried' = queried /\ doing' = doing /\ torn' = torn
      /\ policyOf' = policyOf /\ evt' = evt /\ wire' = wire /\ writes' = writes
      /\ rows' = rows /\ certs' = certs /\ judged' = judged
  BY DEF PassesOver, SaveVerdictsFails, IInv, Typed, HandlerTyped, debouncerVars, busVars
<1>2. AsOfPast' /\ RowBooks'
  BY <1>1, HandlerKeepsAsOf DEF IInv, CoreInv, RowBooks
<1>3. EventInv(e)'
  <2>0. EventInv(e)
    BY DEF IInv, CoreInv
  <2>1. Books(e)'
    BY <1>1, <2>0 DEF EventInv, Books
  <2>2. NotOvertaken(e)' /\ VerdictsStored(e)'
    BY <1>1, <2>0 DEF EventInv, NotOvertaken, VerdictsStored
  <2>3. CoversSoFar(e)' /\ Covers(e)'
    BY <1>1 DEF CoversSoFar, Covers
  <2>. QED
    BY <2>1, <2>2, <2>3 DEF EventInv
<1>4. \A f \in Events \ {e} : EventInv(f)'
  BY <1>1, OthersKeep
<1>5. ASSUME NEW k \in DOMAIN rows' PROVE FlagAgrees(k)'
  BY <1>1 DEF IInv, CoreInv, FlagAgrees, BetweenStatements
<1>. QED
  BY <1>2, <1>3, <1>4, <1>5 DEF CoreInv

\* A flag that does not follow: the evidence id is torn.
LEMMA SetFlagFailsKeeps ==
  ASSUME IInv, NEW e \in Events, SetFlagFails(e)
  PROVE  CoreInv'
<1>1. /\ doing'[e] = {} /\ \A f \in Events \ {e} : doing'[f] = doing[f]
      /\ torn' = torn \cup {s.key[1] : s \in doing[e]}
      /\ spoiled' = spoiled \cup {e}
      /\ stage' = stage /\ queried' = queried /\ todo' = todo
      /\ policyOf' = policyOf /\ evt' = evt /\ wire' = wire /\ writes' = writes
      /\ rows' = rows /\ certs' = certs /\ judged' = judged
  BY DEF SetFlagFails, IInv, Typed, HandlerTyped, debouncerVars, storeVars, busVars
<1>2. AsOfPast' /\ RowBooks'
  BY <1>1, HandlerKeepsAsOf DEF IInv, CoreInv, RowBooks
<1>3. EventInv(e)'
  <2>0. EventInv(e)
    BY DEF IInv, CoreInv
  <2>1. Books(e)'
    BY <1>1, <2>0 DEF EventInv, Books
  <2>2. NotOvertaken(e)' /\ VerdictsStored(e)'
    BY <1>1, <2>0 DEF EventInv, NotOvertaken, VerdictsStored
  <2>3. CoversSoFar(e)' /\ Covers(e)'
    BY <1>1 DEF CoversSoFar, Covers
  <2>. QED
    BY <2>1, <2>2, <2>3 DEF EventInv
<1>4. \A f \in Events \ {e} : EventInv(f)'
  BY <1>1, OthersKeep
<1>5. ASSUME NEW k \in DOMAIN rows' PROVE FlagAgrees(k)'
  <2>1. BetweenStatements(k[1]) => BetweenStatements(k[1])' \/ k[1] \in torn'
    BY <1>1 DEF BetweenStatements
  <2>. QED
    BY <1>1, <2>1 DEF IInv, CoreInv, FlagAgrees
<1>. QED
  BY <1>2, <1>3, <1>4, <1>5 DEF CoreInv

\* The process dies: handlers and what they had in hand are gone, evidence ids
\* between two statements are torn.
LEMMA CrashKeeps ==
  ASSUME IInv, Crash
  PROVE  CoreInv'
<1>1. /\ \A e \in Events : stage'[e] = "done" => stage[e] = "done"
      /\ queried' = {} /\ wire' = << >>
      /\ \A e \in Events : todo'[e] = {} /\ doing'[e] = {}
      /\ torn' = torn \cup UNION {{s.key[1] : s \in doing[e]} : e \in Events}
      /\ policyOf' = policyOf /\ evt' = evt /\ writes' = writes /\ spoiled' = spoiled
      /\ rows' = rows /\ certs' = certs /\ judged' = judged
  BY DEF Crash, Live, storeVars
<1>2. AsOfPast' /\ RowBooks'
  BY <1>1 DEF IInv, CoreInv, RowBooks, AsOfPast
<1>3. ASSUME NEW e \in Events PROVE EventInv(e)'
  <2>0. EventInv(e)
    BY DEF IInv, CoreInv
  <2>1. Books(e)' /\ NotOvertaken(e)' /\ VerdictsStored(e)' /\ CoversSoFar(e)'
    BY <1>1 DEF Books, NotOvertaken, VerdictsStored, CoversSoFar
  <2>2. Covers(e)'
    BY <1>1, <2>0 DEF EventInv, Covers, InWindow, Since, Judged
  <2>. QED
    BY <2>1, <2>2 DEF EventInv
<1>4. ASSUME NEW k \in DOMAIN rows' PROVE FlagAgrees(k)'
  <2>1. BetweenStatements(k[1]) => k[1] \in torn'
    BY <1>1 DEF BetweenStatements
  <2>. QED
    BY <1>1, <2>1 DEF IInv, CoreInv, FlagAgrees
<1>. QED
  BY <1>2, <1>3, <1>4 DEF CoreInv

-------------------------------------------------------------------------------
\* Two handlers with rows of one evidence id in hand are one, when the id has
\* one home: the rows are of one policy, and a policy has one handler.
LEMMA OneHandlerPerHome ==
  ASSUME IInv, NEW e \in Events, NEW f \in Events,
         NEW s \in todo[e] \cup doing[e], NEW t \in todo[f] \cup doing[f],
         s.key[1] = t.key[1], OneHome(t.key[1])
  PROVE  e = f
<1>1. EventInv(e) /\ EventInv(f) /\ RowBooks
  BY DEF IInv, CoreInv
<1>2. e \in queried /\ f \in queried
  BY <1>1 DEF EventInv, Books
<1>3. /\ s.key \in DOMAIN rows /\ rows[s.key].policy = policyOf[e]
      /\ t.key \in DOMAIN rows /\ rows[t.key].policy = policyOf[f]
  BY <1>1 DEF EventInv, Books
<1>4. PICK l \in Logs : l.eid = s.key[1] /\ l.policy = policyOf[e]
  BY <1>1, <1>3 DEF RowBooks
<1>5. PICK m \in Logs : m.eid = t.key[1] /\ m.policy = policyOf[f]
  BY <1>1, <1>3 DEF RowBooks
<1>6. policyOf[e] = policyOf[f]
  BY <1>4, <1>5 DEF OneHome
<1>. QED
  BY <1>1, <1>2, <1>6 DEF EventInv, Books, IInv, DebouncerInv, SingleFlight

\* Likewise for two handlers with the same row in hand, whatever its id.
LEMMA OneHandlerPerRow ==
  ASSUME IInv, NEW e \in Events, NEW f \in Events,
         NEW s \in todo[e] \cup doing[e], NEW t \in todo[f] \cup doing[f],
         s.key = t.key
  PROVE  e = f
<1>1. EventInv(e) /\ EventInv(f)
  BY DEF IInv, CoreInv
<1>2. e \in queried /\ f \in queried
  BY <1>1 DEF EventInv, Books
<1>3. policyOf[e] = policyOf[f]
  BY <1>1 DEF EventInv, Books
<1>. QED
  BY <1>1, <1>2, <1>3 DEF EventInv, Books, IInv, DebouncerInv, SingleFlight

\* The verdicts of the row whose snapshot is s are stored, and the handler of e has the
\* flag still to set, or was told that they are not stored and passes the row over.
Saves(e, s) ==
  /\ e \in queried /\ s \in todo[e] /\ doing[e] = {}
  /\ todo'[e] = todo[e] \ {s}
  /\ \/ doing'[e] = {s} /\ torn' = torn /\ spoiled' = spoiled
     \/ doing'[e] = {} /\ torn' = torn \cup {s.key[1]} /\ spoiled' = spoiled \cup {e}
  /\ \A f \in Events \ {e} : todo'[f] = todo[f] /\ doing'[f] = doing[f]
  /\ todo' \in [Events -> SUBSET SnapshotRow] /\ doing' \in [Events -> SUBSET SnapshotRow]
  /\ DOMAIN certs' = DOMAIN certs \cup {s.key[1]}
  /\ certs'[s.key[1]] = s.verdicts
  /\ \A i \in DOMAIN certs \ {s.key[1]} : certs'[i] = certs[i]
  /\ judged' = [judged EXCEPT ![s.key] = s.write]
  /\ UNCHANGED <<debouncerVars, busVars, rows, queried, writes>>

\* Saving has that effect, and so has a failure that stores the verdicts.
LEMMA SaveVerdictsSaves ==
  ASSUME IInv, NEW e \in Events, SaveVerdicts(e) \/ SaveVerdictsFails(e)
  PROVE  PassesOver(e) \/ \E s \in SnapshotRow : Saves(e, s)
<1>. SUFFICES ASSUME ~PassesOver(e) PROVE \E s \in SnapshotRow : Saves(e, s)
  OBVIOUS
<1>1. todo \in [Events -> SUBSET SnapshotRow] /\ doing \in [Events -> SUBSET SnapshotRow]
  BY DEF IInv, Typed, HandlerTyped
<1>2. PICK s \in todo[e] :
        /\ todo' = [todo EXCEPT ![e] = @ \ {s}]
        /\ InsertCertifications(s)
        /\ \/ /\ doing' = [doing EXCEPT ![e] = {s}]
              /\ torn' = torn /\ spoiled' = spoiled
           \/ /\ doing' = doing
              /\ torn' = torn \cup {s.key[1]} /\ spoiled' = spoiled \cup {e}
  <2>1. CASE SaveVerdicts(e)
    BY <2>1 DEF SaveVerdicts
  <2>2. CASE SaveVerdictsFails(e)
    BY <2>2 DEF SaveVerdictsFails, PassesOver
  <2>. QED
    BY <2>1, <2>2
<1>3. s \in SnapshotRow
  BY <1>1
<1>0. e \in queried /\ doing[e] = {}
  BY DEF SaveVerdicts, SaveVerdictsFails
<1>4. /\ todo'[e] = todo[e] \ {s}
      /\ \/ doing'[e] = {s} /\ torn' = torn /\ spoiled' = spoiled
         \/ doing'[e] = {} /\ torn' = torn \cup {s.key[1]} /\ spoiled' = spoiled \cup {e}
      /\ \A f \in Events \ {e} : todo'[f] = todo[f] /\ doing'[f] = doing[f]
      /\ todo' \in [Events -> SUBSET SnapshotRow] /\ doing' \in [Events -> SUBSET SnapshotRow]
  BY <1>0, <1>1, <1>2, <1>3
<1>5. /\ DOMAIN certs' = DOMAIN certs \cup {s.key[1]}
      /\ certs'[s.key[1]] = s.verdicts
      /\ \A i \in DOMAIN certs \ {s.key[1]} : certs'[i] = certs[i]
      /\ judged' = [judged EXCEPT ![s.key] = s.write]
  BY <1>2 DEF InsertCertifications
<1>6. UNCHANGED <<debouncerVars, busVars, rows, queried, writes>>
  BY DEF SaveVerdicts, SaveVerdictsFails
<1>. QED
  BY <1>0, <1>2, <1>3, <1>4, <1>5, <1>6 DEF Saves

\* What saving does to the judgements: they advance, and no further than the row.
LEMMA SavesAdvances ==
  ASSUME IInv, NEW e \in Events, NEW s \in SnapshotRow, Saves(e, s)
  PROVE  /\ s.key \in DOMAIN rows /\ s.key \in Keys
         /\ judged[s.key] <= s.write /\ s.write <= rows[s.key].write
         /\ judged'[s.key] = s.write
         /\ \A k \in Keys \ {s.key} : judged'[k] = judged[k]
<1>1. EventInv(e) /\ Numbers
  BY TypesGiveNumbers DEF IInv, CoreInv
<1>. QED
  BY <1>1 DEF EventInv, Books, NotOvertaken, Numbers, Saves

\* Saving keeps the core: single flight tells the handlers of one id apart.
LEMMA SavesKeeps ==
  ASSUME IInv, NEW e \in Events, NEW s \in SnapshotRow, Saves(e, s)
  PROVE  CoreInv'
<1>0. /\ rows' = rows /\ writes' = writes /\ stage' = stage /\ policyOf' = policyOf
      /\ evt' = evt /\ wire' = wire /\ queried' = queried
      /\ torn \subseteq torn' /\ spoiled \subseteq spoiled'
      /\ \A f \in Events \ {e} : f \in spoiled' => f \in spoiled
  BY DEF Saves, debouncerVars, busVars
<1>1. /\ s.key \in DOMAIN rows /\ s.key \in Keys
      /\ judged[s.key] <= s.write /\ s.write <= rows[s.key].write
      /\ judged'[s.key] = s.write
      /\ \A k \in Keys \ {s.key} : judged'[k] = judged[k]
  BY SavesAdvances
<1>2. Numbers /\ RowBooks /\ \A f \in Events : EventInv(f)
  BY TypesGiveNumbers DEF IInv, CoreInv
<1>3. s.write \in Nat
  BY SnapshotFacts
<1>4. AsOfPast'
  BY <1>0, HandlerKeepsAsOf
<1>5. RowBooks'
  <2>1. \A k \in DOMAIN rows : judged'[k] <= rows[k].write
    BY <1>1, <1>2 DEF RowBooks, Numbers
  <2>2. s.write <= writes
    BY <1>1, <1>2, <1>3 DEF RowBooks, Numbers
  <2>3. \A k \in Keys : judged'[k] <= writes
    BY <1>1, <1>2, <2>2 DEF RowBooks
  <2>. QED
    BY <1>0, <1>2, <2>1, <2>3 DEF RowBooks
<1>6. ASSUME NEW k \in DOMAIN rows, Judged(k) PROVE judged'[k] = rows[k].write
  BY <1>6, <1>1, <1>2, <1>3 DEF Judged, Numbers
<1>7. EventInv(e)'
  <2>0. EventInv(e)
    BY <1>2
  <2>1. /\ todo'[e] = todo[e] \ {s} /\ doing'[e] \in {{}, {s}}
        /\ e \in queried /\ s \in todo[e] /\ doing[e] = {}
    BY DEF Saves
  <2>2. Books(e)'
    BY <1>0, <2>0, <2>1 DEF EventInv, Books
  <2>3. NotOvertaken(e)'
    <3>1. \A t \in todo[e] \ {s} : t.key \in Keys /\ t.key # s.key
      BY <1>2, <2>0, <2>1 DEF EventInv, Books, Numbers
    <3>. QED
      BY <1>1, <2>0, <2>1, <3>1 DEF EventInv, NotOvertaken
  <2>4. VerdictsStored(e)'
    BY <2>1 DEF VerdictsStored, Saves
  <2>5. CoversSoFar(e)'
    <3>1. ASSUME NEW k \in DOMAIN rows, Ahead(e, k)
          PROVE  \/ judged'[k] = rows[k].write
                 \/ \E t \in todo'[e] : t.key = k /\ t.write = rows[k].write
      BY <3>1, <1>1, <2>1 DEF Ahead
    <3>. QED
      BY <1>0, <1>6, <2>0, <3>1 DEF EventInv, CoversSoFar, InWindow, Since, Judged, Ahead
  <2>6. Covers(e)'
    BY <1>0, <2>0, <2>1 DEF EventInv, Books, Covers
  <2>. QED
    BY <2>2, <2>3, <2>4, <2>5, <2>6 DEF EventInv
<1>8. ASSUME NEW f \in Events \ {e} PROVE EventInv(f)'
  <2>0. EventInv(f)
    BY <1>2
  <2>1. todo'[f] = todo[f] /\ doing'[f] = doing[f] /\ s \in todo[e]
    BY DEF Saves
  <2>2. Books(f)'
    BY <1>0, <2>0, <2>1 DEF EventInv, Books
  <2>3. NotOvertaken(f)'
    <3>1. \A t \in todo[f] : t.key \in Keys /\ t.key # s.key
      BY <1>2, <2>1, OneHandlerPerRow DEF Numbers
    <3>. QED
      BY <1>1, <2>0, <2>1, <3>1 DEF EventInv, NotOvertaken
  <2>4. VerdictsStored(f)'
    <3>1. \A t \in doing[f] : OneHome(t.key[1]) => t.key[1] # s.key[1]
      BY <2>1, OneHandlerPerHome
    <3>2. \A t \in doing[f] : OneHome(t.key[1]) =>
            t.key[1] \in DOMAIN certs /\ certs[t.key[1]] = t.verdicts
      BY <2>0 DEF EventInv, VerdictsStored
    <3>. QED
      BY <2>1, <3>1, <3>2 DEF VerdictsStored, Saves
  <2>5. CoversSoFar(f)'
    BY <1>0, <1>6, <2>0, <2>1 DEF EventInv, CoversSoFar, InWindow, Since, Judged, Ahead
  <2>6. Covers(f)'
    BY <1>0, <1>6, <2>0 DEF EventInv, Covers, InWindow, Since, Judged
  <2>. QED
    BY <2>2, <2>3, <2>4, <2>5, <2>6 DEF EventInv
<1>9. ASSUME NEW k \in DOMAIN rows' PROVE FlagAgrees(k)'
  <2>1. k \in DOMAIN rows /\ FlagAgrees(k)
    BY <1>0 DEF IInv, CoreInv
  <2>2. CASE k[1] = s.key[1]
    <3>1. BetweenStatements(k[1])' \/ k[1] \in torn'
      BY <2>2 DEF BetweenStatements, Saves
    <3>. QED
      BY <3>1 DEF FlagAgrees
  <2>3. CASE k[1] # s.key[1]
    <3>1. k[1] \in DOMAIN certs => k[1] \in DOMAIN certs' /\ certs'[k[1]] = certs[k[1]]
      BY <2>3 DEF Saves
    <3>2. BetweenStatements(k[1]) => BetweenStatements(k[1])'
      BY DEF BetweenStatements, Saves
    <3>. QED
      BY <1>0, <2>1, <3>1, <3>2 DEF FlagAgrees
  <2>. QED
    BY <2>2, <2>3
<1>. QED
  BY <1>0, <1>4, <1>5, <1>7, <1>8, <1>9 DEF CoreInv

-------------------------------------------------------------------------------
\* The effect of SetFlag(e) when s is the snapshot in hand.
Flags(e, s) ==
  /\ s \in doing[e]
  /\ DOMAIN rows' = DOMAIN rows
  /\ \A k \in DOMAIN rows :
       /\ rows'[k] \in Row
       /\ rows'[k].policy = rows[k].policy
       /\ rows'[k].ingestedAt = rows[k].ingestedAt
       /\ rows'[k].write = rows[k].write
       /\ rows'[k].certified = IF k[1] = s.key[1] THEN IsCertified(s.verdicts)
                                                  ELSE rows[k].certified
  /\ torn' = torn \ {s.key[1]}
  /\ doing'[e] = {} /\ \A f \in Events \ {e} : doing'[f] = doing[f]
  /\ doing' \in [Events -> SUBSET SnapshotRow]
  /\ UNCHANGED <<debouncerVars, busVars, certs, judged, queried, todo, spoiled, writes>>

\* The action has that effect.
LEMMA SetFlagFlags ==
  ASSUME IInv, NEW e \in Events, SetFlag(e)
  PROVE  \E s \in SnapshotRow : Flags(e, s)
<1>1. /\ doing \in [Events -> SUBSET SnapshotRow]
      /\ \A k \in DOMAIN rows : rows[k] \in Row
  BY DEF IInv, Typed, HandlerTyped, StoreTyped
<1>2. PICK s \in doing[e] :
        /\ rows' = [k \in DOMAIN rows |->
                      IF k[1] = s.key[1]
                      THEN [rows[k] EXCEPT !.certified = IsCertified(s.verdicts)]
                      ELSE rows[k]]
        /\ torn' = torn \ {s.key[1]}
  BY DEF SetFlag
<1>3. s \in SnapshotRow
  BY <1>1
<1>4. IsCertified(s.verdicts) \in BOOLEAN
  BY DEF IsCertified
<1>5. ASSUME NEW k \in DOMAIN rows, NEW b \in BOOLEAN
      PROVE  LET r == [rows[k] EXCEPT !.certified = b]
             IN  /\ r \in Row /\ r.policy = rows[k].policy
                 /\ r.ingestedAt = rows[k].ingestedAt
                 /\ r.write = rows[k].write /\ r.certified = b
  BY <1>1 DEF Row
<1>6. ASSUME NEW k \in DOMAIN rows
      PROVE  /\ rows'[k] \in Row
             /\ rows'[k].policy = rows[k].policy
             /\ rows'[k].ingestedAt = rows[k].ingestedAt
             /\ rows'[k].write = rows[k].write
             /\ rows'[k].certified = IF k[1] = s.key[1] THEN IsCertified(s.verdicts)
                                                        ELSE rows[k].certified
  <2>1. CASE k[1] = s.key[1]
    <3>. DEFINE b == IsCertified(s.verdicts)
    <3>1. rows'[k] = [rows[k] EXCEPT !.certified = b]
      BY <1>2, <2>1
    <3>2. b \in BOOLEAN
      BY <1>4
    <3>. HIDE DEF b
    <3>3. /\ rows'[k] \in Row /\ rows'[k].policy = rows[k].policy
          /\ rows'[k].ingestedAt = rows[k].ingestedAt
          /\ rows'[k].write = rows[k].write /\ rows'[k].certified = b
      BY <1>5, <3>1, <3>2
    <3>. QED
      BY <3>3, <2>1 DEF b
  <2>2. CASE k[1] # s.key[1]
    <3>1. rows'[k] = rows[k]
      BY <1>2, <2>2
    <3>. QED
      BY <3>1, <2>2, <1>1
  <2>. QED
    BY <2>1, <2>2
<1>7. /\ DOMAIN rows' = DOMAIN rows
      /\ doing'[e] = {} /\ \A f \in Events \ {e} : doing'[f] = doing[f]
      /\ doing' \in [Events -> SUBSET SnapshotRow]
  BY <1>1, <1>2 DEF SetFlag
<1>8. UNCHANGED <<debouncerVars, busVars, certs, judged, queried, todo, spoiled, writes>>
  BY DEF SetFlag
<1>. QED
  BY <1>2, <1>3, <1>6, <1>7, <1>8 DEF Flags

\* Setting the flag keeps the core: the flag is that of the verdicts stored.
LEMMA FlagsKeeps ==
  ASSUME IInv, NEW e \in Events, NEW s \in SnapshotRow, Flags(e, s)
  PROVE  CoreInv'
<1>1. /\ writes' = writes /\ stage' = stage /\ policyOf' = policyOf
      /\ evt' = evt /\ wire' = wire /\ queried' = queried /\ spoiled' = spoiled
      /\ todo' = todo /\ certs' = certs /\ judged' = judged
  BY DEF Flags, debouncerVars, busVars
<1>2. /\ DOMAIN rows' = DOMAIN rows
      /\ \A k \in DOMAIN rows :
           /\ rows'[k].policy = rows[k].policy
           /\ rows'[k].ingestedAt = rows[k].ingestedAt
           /\ rows'[k].write = rows[k].write
  BY DEF Flags
<1>3. /\ s \in doing[e] /\ doing'[e] = {}
      /\ \A f \in Events \ {e} : doing'[f] = doing[f]
      /\ \A f \in Events : doing'[f] \subseteq doing[f]
  BY DEF Flags
<1>4. AsOfPast' /\ RowBooks'
  BY <1>1, <1>2, HandlerKeepsAsOf DEF IInv, CoreInv, RowBooks
<1>5. ASSUME NEW f \in Events PROVE EventInv(f)'
  <2>0. EventInv(f)
    BY DEF IInv, CoreInv
  <2>1. Books(f)'
    BY <1>1, <1>2, <1>3, <2>0 DEF EventInv, Books
  <2>2. NotOvertaken(f)' /\ VerdictsStored(f)'
    BY <1>1, <1>3, <2>0 DEF EventInv, NotOvertaken, VerdictsStored
  <2>3. CoversSoFar(f)' /\ Covers(f)'
    BY <1>1, <1>2, <2>0
       DEF EventInv, CoversSoFar, Covers, InWindow, Since, Judged, Ahead
  <2>. QED
    BY <2>1, <2>2, <2>3 DEF EventInv
<1>6. ASSUME NEW k \in DOMAIN rows' PROVE FlagAgrees(k)'
  <2>1. k \in DOMAIN rows /\ FlagAgrees(k) /\ EventInv(e)
    BY <1>2 DEF IInv, CoreInv
  <2>2. CASE k[1] = s.key[1]
    <3>1. OneHome(k[1]) => k[1] \in DOMAIN certs /\ certs[k[1]] = s.verdicts
      BY <2>1, <2>2, <1>3 DEF EventInv, VerdictsStored
    <3>2. rows'[k].certified = IsCertified(s.verdicts)
      BY <2>1, <2>2 DEF Flags
    <3>. QED
      BY <1>1, <3>1, <3>2 DEF FlagAgrees
  <2>3. CASE k[1] # s.key[1]
    <3>1. rows'[k].certified = rows[k].certified /\ (k[1] \in torn => k[1] \in torn')
      BY <2>1, <2>3 DEF Flags
    <3>2. doing[e] = {s}
      BY <2>1, <1>3 DEF EventInv, Books
    <3>3. BetweenStatements(k[1]) => BetweenStatements(k[1])'
      BY <1>3, <2>3, <3>2 DEF BetweenStatements
    <3>. QED
      BY <1>1, <2>1, <3>1, <3>3 DEF FlagAgrees
  <2>. QED
    BY <2>2, <2>3
<1>. QED
  BY <1>4, <1>5, <1>6 DEF CoreInv

-------------------------------------------------------------------------------
\* The bus.

\* Delivering pushes an event that nobody works on yet.
LEMMA DeliverKeeps ==
  ASSUME IInv, Deliver
  PROVE  CoreInv' /\ BusTyped' /\ \E p \in Policies : Push(p)
<1>. DEFINE m == Head(wire)
            new == pushed + 1
            v == [at |-> m.at, asOf |-> m.asOf, due |-> now + Window]
<1>1. /\ wire \in Seq(WireEvent) /\ wire # << >>
      /\ evt \in [Events -> PushedEvent]
      /\ worker \in Policies \cup {NoPolicy}
      /\ now \in 0..MaxTime
  BY DEF Deliver, IInv, Typed, BusTyped, CountersTyped
<1>2. /\ m \in WireEvent /\ m = wire[1] /\ 1 \in 1..Len(wire)
      /\ Tail(wire) \in Seq(WireEvent)
      /\ Len(Tail(wire)) = Len(wire) - 1
      /\ \A i \in 1..Len(Tail(wire)) : i + 1 \in 1..Len(wire) /\ Tail(wire)[i] = wire[i + 1]
  BY <1>1
<1>3. /\ Push(m.policy) /\ wire' = Tail(wire) /\ worker' = worker
      /\ evt' = [evt EXCEPT ![new] = v]
      /\ UNCHANGED <<storeVars, handlerVars, writes>>
  BY DEF Deliver
<1>4. m.policy \in Policies /\ v \in PushedEvent
  <2>. HIDE DEF m
  <2>1. /\ m.policy \in Policies /\ m.asOf \in 0..MaxWrites /\ m.at \in 0..MaxTime
    BY <1>2, WireFacts
  <2>2. now + Window \in 0..(MaxTime + Window)
    BY <1>1, CertificationAssumption
  <2>. QED
    BY <2>1, <2>2 DEF PushedEvent
<1>5. /\ new \in Events /\ stage[new] = "unborn"
      /\ stage'[new] = "armed"
      /\ \A e \in Events \ {new} :
           /\ policyOf'[e] = policyOf[e]
           /\ stage'[e] = stage[e] \/ (stage[e] = "armed" /\ stage'[e] = "stopped")
  <2>. HIDE DEF m
  <2>1. /\ pushed \in Nat /\ pushed < MaxEvents
        /\ policyOf' = [policyOf EXCEPT ![new] = m.policy]
        /\ stage' = [e \in Events |->
                        IF e = new THEN "armed"
                        ELSE IF e = timers[m.policy] /\ stage[e] = "armed" THEN "stopped"
                        ELSE stage[e]]
        /\ policyOf \in [Events -> Policies \cup {NoPolicy}]
    BY <1>3 DEF Push, IInv, DebouncerInv, DebouncerTypeOK
  <2>2. new \in Events /\ ~(new <= pushed)
    BY <2>1, DebouncerAssumption DEF Events
  <2>3. stage[new] = "unborn"
    BY <2>2 DEF IInv, DebouncerInv, BookKept
  <2>. HIDE DEF new
  <2>. QED
    BY <2>1, <2>2, <2>3
<1>. HIDE DEF m, new, v
<1>6. BusTyped'
  BY <1>1, <1>2, <1>3, <1>4, <1>5 DEF BusTyped
<1>7. \A e \in Events \ {new} : evt'[e] = evt[e]
  BY <1>1, <1>3
<1>8. EventsKept
  BY <1>5, <1>7 DEF EventsKept
<1>9. AsOfPast'
  <2>1. evt'[new].asOf = wire[1].asOf
    BY <1>1, <1>2, <1>3, <1>5 DEF v
  <2>2. AsOfPast
    BY DEF IInv, CoreInv
  <2>3. \A e \in Events : evt'[e].asOf <= writes
    BY <1>2, <1>7, <2>1, <2>2 DEF AsOfPast
  <2>4. \A i \in 1..Len(wire') : wire'[i].asOf <= writes
    BY <1>2, <1>3, <2>2 DEF AsOfPast
  <2>. QED
    BY <1>3, <2>3, <2>4 DEF AsOfPast
<1>10. CoreInv'
  BY <1>3, <1>8, <1>9, QuietKeeps
<1>. QED
  BY <1>3, <1>4, <1>6, <1>10

\* A message is lost.
LEMMA LoseMessageKeeps ==
  ASSUME IInv, LoseMessage
  PROVE  CoreInv' /\ BusTyped'
<1>1. /\ wire \in Seq(WireEvent) /\ wire # << >>
      /\ evt \in [Events -> PushedEvent]
      /\ worker \in Policies \cup {NoPolicy}
  BY DEF LoseMessage, IInv, Typed, BusTyped
<1>2. /\ Tail(wire) \in Seq(WireEvent)
      /\ \A i \in 1..Len(Tail(wire)) : i + 1 \in 1..Len(wire) /\ Tail(wire)[i] = wire[i + 1]
  BY <1>1
<1>3. /\ wire' = Tail(wire) /\ worker' = worker /\ evt' = evt
      /\ stage' = stage /\ policyOf' = policyOf
      /\ UNCHANGED <<storeVars, handlerVars, writes>> /\ writes' = writes
  BY DEF LoseMessage, debouncerVars
<1>4. AsOfPast'
  BY <1>2, <1>3 DEF IInv, CoreInv, AsOfPast
<1>5. EventsKept
  BY <1>3 DEF EventsKept
<1>6. CoreInv'
  BY <1>3, <1>4, <1>5, QuietKeeps
<1>. QED
  BY <1>1, <1>2, <1>3, <1>6 DEF BusTyped

\* The worker publishes: the message knows of all that is written.
LEMMA PublishKeeps ==
  ASSUME IInv, PublishEvidence
  PROVE  CoreInv' /\ BusTyped'
<1>. DEFINE m == [policy |-> worker, at |-> now, asOf |-> writes]
<1>1. /\ wire \in Seq(WireEvent)
      /\ evt \in [Events -> PushedEvent]
      /\ worker \in Policies
      /\ now \in 0..MaxTime /\ writes \in 0..MaxWrites
  BY DEF PublishEvidence, IInv, Typed, BusTyped, CountersTyped
<1>2. m \in WireEvent /\ m.asOf = writes
  BY <1>1 DEF WireEvent
<1>3. /\ wire' = Append(wire, m) /\ worker' = NoPolicy /\ evt' = evt
      /\ stage' = stage /\ policyOf' = policyOf
      /\ UNCHANGED <<storeVars, handlerVars, writes>> /\ writes' = writes
  BY DEF PublishEvidence, debouncerVars
<1>. HIDE DEF m
<1>4. /\ Append(wire, m) \in Seq(WireEvent)
      /\ \A i \in 1..Len(Append(wire, m)) :
           (i \in 1..Len(wire) /\ Append(wire, m)[i] = wire[i]) \/ Append(wire, m)[i] = m
  BY <1>1, <1>2
<1>5. writes <= writes
  BY <1>1, CertificationAssumption, DebouncerAssumption
<1>6. AsOfPast'
  BY <1>2, <1>3, <1>4, <1>5 DEF IInv, CoreInv, AsOfPast
<1>7. EventsKept
  BY <1>3 DEF EventsKept
<1>8. CoreInv'
  BY <1>3, <1>6, <1>7, QuietKeeps
<1>. QED
  BY <1>1, <1>3, <1>4, <1>8 DEF BusTyped

-------------------------------------------------------------------------------
\* Every step keeps every part.

\* What the debouncer sees of a step is one of its own, a stutter or a crash.
LEMMA DebouncerSide ==
  ASSUME IInv, [CertificationNext]_vars
  PROVE  [DebouncerNext]_debouncerVars \/ Crash
<1>1. ASSUME Deliver PROVE DebouncerNext
  BY <1>1, DeliverKeeps DEF DebouncerNext
<1>2. ASSUME NEW e \in Events,
             TimerExpires(e) \/ SkipInFlight(e) \/ StartHandler(e)
               \/ QueryFails(e) \/ HandlerReturns(e)
      PROVE  DebouncerNext
  <2>1. Goroutine(e)
    BY <1>2 DEF TimerExpires, SkipInFlight, StartHandler, QueryFails, HandlerReturns, Goroutine
  <2>. QED
    BY <2>1 DEF DebouncerNext
<1>3. ASSUME NEW e \in Events,
             Query(e) \/ SaveVerdicts(e) \/ SaveVerdictsFails(e)
               \/ SetFlag(e) \/ SetFlagFails(e)
      PROVE  UNCHANGED debouncerVars
  BY <1>3 DEF Query, SaveVerdicts, SaveVerdictsFails, SetFlag, SetFlagFails
<1>4. ASSUME NEW l \in Logs, IngestLog(l) \/ ExportLog(l) PROVE UNCHANGED debouncerVars
  BY <1>4 DEF IngestLog, ExportLog
<1>5. ASSUME PublishEvidence \/ PublishEvidenceFails \/ LoseMessage \/ Tick \/ UNCHANGED vars
      PROVE  UNCHANGED debouncerVars
  BY <1>5 DEF PublishEvidence, PublishEvidenceFails, LoseMessage, Tick, vars
<1>. QED
  BY <1>1, <1>2, <1>3, <1>4, <1>5 DEF CertificationNext, HandlerStep

\* A crash takes timers, goroutines and marks together.
LEMMA CrashKeepsDebouncer == ASSUME DebouncerInv, Crash PROVE DebouncerInv'
<1>. USE DebouncerAssumption
     DEF Crash, Live, DebouncerInv, DebouncerTypeOK, Events, NoEvent, Stages
<1>1. DebouncerTypeOK'
  OBVIOUS
<1>2. BookKept'
  BY DEF BookKept
<1>3. MarkedIffRunning'
  <2>1. \A e \in Events : stage'[e] # "running"
    OBVIOUS
  <2>. QED
    BY <2>1 DEF MarkedIffRunning
<1>4. SingleFlight'
  BY DEF SingleFlight
<1>. QED
  BY <1>1, <1>2, <1>3, <1>4

\* So the invariant of the debouncer survives in the process that crashes.
LEMMA DebouncerKept ==
  ASSUME IInv, [CertificationNext]_vars
  PROVE  DebouncerInv'
<1>1. CASE [DebouncerNext]_debouncerVars
  BY <1>1, TypePreserved, BooksPreserved, MarksPreserved, SingleFlightPreserved
     DEF IInv, DebouncerInv
<1>2. CASE Crash
  BY <1>2, CrashKeepsDebouncer DEF IInv
<1>. QED
  BY <1>1, <1>2, DebouncerSide

\* The counters stay within their bounds.
LEMMA CountersKept ==
  ASSUME IInv, [CertificationNext]_vars
  PROVE  CountersTyped'
<1>1. CountersTyped
  BY DEF IInv, Typed
<1>2. MaxWrites \in Nat /\ MaxTime \in Nat /\ MaxFaults \in Nat
  BY CertificationAssumption, DebouncerAssumption
<1>3. /\ now' = now \/ (now < MaxTime /\ now' = now + 1)
      /\ writes' = writes \/ (writes < MaxWrites /\ writes' = writes + 1)
      /\ faults' = faults \/ (faults < MaxFaults /\ faults' = faults + 1)
  <2>1. ASSUME NEW l \in Logs, IngestLog(l) \/ ExportLog(l)
        PROVE  /\ now' = now /\ faults' = faults
               /\ writes < MaxWrites /\ writes' = writes + 1
    BY <2>1 DEF IngestLog, ExportLog
  <2>2. ASSUME PublishEvidence \/ PublishEvidenceFails \/ Deliver \/ LoseMessage \/ Crash
        PROVE  /\ now' = now /\ writes' = writes
               /\ faults' = faults \/ (faults < MaxFaults /\ faults' = faults + 1)
    BY <2>2 DEF PublishEvidence, PublishEvidenceFails, Deliver, LoseMessage, Crash, Fault
  <2>3. ASSUME Tick PROVE now < MaxTime /\ now' = now + 1 /\ writes' = writes /\ faults' = faults
    BY <2>3 DEF Tick
  <2>4. ASSUME NEW e \in Events,
               TimerExpires(e) \/ SkipInFlight(e) \/ StartHandler(e) \/ HandlerStep(e)
        PROVE  /\ now' = now /\ writes' = writes
               /\ faults' = faults \/ (faults < MaxFaults /\ faults' = faults + 1)
    BY <2>4 DEF TimerExpires, SkipInFlight, StartHandler, HandlerStep, Query, QueryFails,
                SaveVerdicts, SaveVerdictsFails, SetFlag, SetFlagFails, HandlerReturns, Fault
  <2>5. ASSUME UNCHANGED vars PROVE now' = now /\ writes' = writes /\ faults' = faults
    BY <2>5 DEF vars
  <2>. QED
    BY <2>1, <2>2, <2>3, <2>4, <2>5 DEF CertificationNext
<1>. QED
  BY <1>1, <1>2, <1>3 DEF CountersTyped

\* A log is written, by the worker or by the exporter.
LEMMA LogKeeps ==
  ASSUME IInv, NEW l \in Logs, IngestLog(l) \/ ExportLog(l)
  PROVE  CoreInv' /\ StoreTyped' /\ BusTyped' /\ HandlerTyped'
<1>1. /\ writes < MaxWrites /\ writes' = writes + 1
      /\ \E prov \in BOOLEAN : rows' = Upsert(l, prov)
      /\ worker' \in {worker, NoPolicy, l.policy}
      /\ UNCHANGED <<debouncerVars, handlerVars, certs, judged, wire, evt>>
  BY DEF IngestLog, ExportLog, busVars
<1>2. RowsGrow
  BY <1>1, UpsertGrows DEF IInv
<1>3. CoreInv'
  BY <1>1, <1>2, WriteKeeps
<1>4. StoreTyped'
  BY <1>1, <1>2 DEF StoreTyped, RowsGrow, IInv, Typed
<1>5. l.policy \in Policies \cup {NoPolicy}
  BY CertificationAssumption
<1>6. BusTyped' /\ HandlerTyped'
  BY <1>1, <1>5 DEF BusTyped, HandlerTyped, handlerVars, IInv, Typed
<1>. QED
  BY <1>3, <1>4, <1>6

\* The steps of timers and goroutines outside the handler.
LEMMA GoroutineKeeps ==
  ASSUME IInv, NEW e \in Events, TimerExpires(e) \/ SkipInFlight(e) \/ StartHandler(e)
  PROVE  CoreInv' /\ StoreTyped' /\ BusTyped' /\ HandlerTyped'
<1>1. UNCHANGED <<storeVars, handlerVars, busVars, writes>>
  BY DEF TimerExpires, SkipInFlight, StartHandler
<1>2. /\ stage[e] \in {"armed", "expired"} /\ stage'[e] \notin {"done"}
      /\ \A f \in Events \ {e} : stage'[f] = stage[f]
      /\ policyOf' = policyOf
  BY DEF TimerExpires, SkipInFlight, StartHandler, Expire, FireSkip, FireRun,
         IInv, DebouncerInv, DebouncerTypeOK
<1>3. EventsKept
  BY <1>1, <1>2 DEF EventsKept, busVars
<1>4. AsOfPast'
  BY <1>1, HandlerKeepsAsOf DEF busVars
<1>5. CoreInv'
  BY <1>1, <1>3, <1>4, QuietKeeps
<1>. QED
  BY <1>1, <1>5
     DEF StoreTyped, BusTyped, HandlerTyped, storeVars, busVars, handlerVars, IInv, Typed

\* Publishing that fails, the clock, and steps that change nothing.
LEMMA RestKeeps ==
  ASSUME IInv, PublishEvidenceFails \/ Tick \/ UNCHANGED vars
  PROVE  CoreInv' /\ StoreTyped' /\ BusTyped' /\ HandlerTyped'
<1>1. /\ UNCHANGED <<debouncerVars, storeVars, handlerVars, wire, evt, writes>>
      /\ worker' \in {worker, NoPolicy}
  BY DEF PublishEvidenceFails, Tick, vars, busVars
<1>2. EventsKept
  BY <1>1 DEF EventsKept, debouncerVars
<1>3. AsOfPast'
  BY <1>1, HandlerKeepsAsOf
<1>4. CoreInv'
  BY <1>1, <1>2, <1>3, QuietKeeps
<1>. QED
  BY <1>1, <1>4
     DEF StoreTyped, BusTyped, HandlerTyped, storeVars, handlerVars, IInv, Typed

\* The statements of the handler.
LEMMA HandlerKeeps ==
  ASSUME IInv, NEW e \in Events, HandlerStep(e)
  PROVE  CoreInv' /\ StoreTyped' /\ BusTyped' /\ HandlerTyped'
<1>0. StoreTyped /\ BusTyped /\ HandlerTyped
  BY DEF IInv, Typed
<1>1. ASSUME Query(e) PROVE CoreInv' /\ StoreTyped' /\ BusTyped' /\ HandlerTyped'
  <2>1. RecentEvidence(policyOf[e], Since(e)) \in SUBSET SnapshotRow
    BY <1>0, QueryReturns
  <2>2. StoreTyped' /\ BusTyped' /\ HandlerTyped'
    BY <1>0, <1>1, <2>1 DEF Query, StoreTyped, BusTyped, HandlerTyped, storeVars, busVars
  <2>. QED
    BY <1>1, <2>2, QueryKeeps
<1>2. ASSUME QueryFails(e) PROVE CoreInv' /\ StoreTyped' /\ BusTyped' /\ HandlerTyped'
  <2>1. StoreTyped' /\ BusTyped' /\ HandlerTyped'
    BY <1>0, <1>2 DEF QueryFails, StoreTyped, BusTyped, HandlerTyped, storeVars, busVars
  <2>. QED
    BY <1>2, <2>1, QueryFailsKeeps
<1>3. ASSUME NEW s \in SnapshotRow, Saves(e, s)
      PROVE  CoreInv' /\ StoreTyped' /\ BusTyped' /\ HandlerTyped'
  <2>1. Saves(e, s)
    BY <1>3
  <2>2. s.verdicts \in Verdict /\ s.write \in 0..MaxWrites
    BY SnapshotFacts, CertificationAssumption, DebouncerAssumption
  <2>3. StoreTyped'
    BY <1>0, <2>1, <2>2 DEF Saves, StoreTyped
  <2>4. BusTyped' /\ HandlerTyped'
    BY <1>0, <2>1 DEF Saves, BusTyped, HandlerTyped, busVars
  <2>. QED
    BY <2>1, <2>3, <2>4, SavesKeeps
<1>4. ASSUME SaveVerdicts(e) \/ SaveVerdictsFails(e)
      PROVE  CoreInv' /\ StoreTyped' /\ BusTyped' /\ HandlerTyped'
  <2>1. ASSUME PassesOver(e) PROVE CoreInv' /\ StoreTyped' /\ BusTyped' /\ HandlerTyped'
    <3>1. StoreTyped' /\ BusTyped' /\ HandlerTyped'
      BY <1>0, <2>1 DEF PassesOver, SaveVerdictsFails, StoreTyped, BusTyped, HandlerTyped, busVars
    <3>. QED
      BY <2>1, <3>1, PassesOverKeeps
  <2>. QED
    BY <1>3, <1>4, <2>1, SaveVerdictsSaves
<1>5. ASSUME SetFlag(e) PROVE CoreInv' /\ StoreTyped' /\ BusTyped' /\ HandlerTyped'
  <2>1. PICK s \in SnapshotRow : Flags(e, s)
    BY <1>5, SetFlagFlags
  <2>2. StoreTyped' /\ BusTyped' /\ HandlerTyped'
    BY <1>0, <2>1 DEF Flags, StoreTyped, BusTyped, HandlerTyped, busVars
  <2>. QED
    BY <2>1, <2>2, FlagsKeeps
<1>6. ASSUME SetFlagFails(e) PROVE CoreInv' /\ StoreTyped' /\ BusTyped' /\ HandlerTyped'
  <2>1. StoreTyped' /\ BusTyped' /\ HandlerTyped'
    BY <1>0, <1>6 DEF SetFlagFails, StoreTyped, BusTyped, HandlerTyped, storeVars, busVars
  <2>. QED
    BY <1>6, <2>1, SetFlagFailsKeeps
<1>7. ASSUME HandlerReturns(e) PROVE CoreInv' /\ StoreTyped' /\ BusTyped' /\ HandlerTyped'
  <2>1. StoreTyped' /\ BusTyped' /\ HandlerTyped'
    BY <1>0, <1>7 DEF HandlerReturns, StoreTyped, BusTyped, HandlerTyped, storeVars, busVars
  <2>. QED
    BY <1>7, <2>1, HandlerReturnsKeeps
<1>. QED
  BY <1>1, <1>2, <1>3, <1>4, <1>5, <1>6, <1>7 DEF HandlerStep

\* Every step keeps the inductive invariant.
LEMMA StepKeepsInv == ASSUME IInv, [CertificationNext]_vars PROVE IInv'
<1>0. StoreTyped /\ BusTyped /\ HandlerTyped
  BY DEF IInv, Typed
<1>1. DebouncerInv' /\ CountersTyped'
  BY DebouncerKept, CountersKept
<1>2. ASSUME PublishEvidence PROVE CoreInv' /\ StoreTyped' /\ BusTyped' /\ HandlerTyped'
  BY <1>0, <1>2, PublishKeeps
     DEF PublishEvidence, StoreTyped, HandlerTyped, storeVars, handlerVars
<1>3. ASSUME Deliver PROVE CoreInv' /\ StoreTyped' /\ BusTyped' /\ HandlerTyped'
  BY <1>0, <1>3, DeliverKeeps
     DEF Deliver, StoreTyped, HandlerTyped, storeVars, handlerVars
<1>4. ASSUME LoseMessage PROVE CoreInv' /\ StoreTyped' /\ BusTyped' /\ HandlerTyped'
  BY <1>0, <1>4, LoseMessageKeeps
     DEF LoseMessage, StoreTyped, HandlerTyped, storeVars, handlerVars
<1>5. ASSUME Crash PROVE CoreInv' /\ StoreTyped' /\ BusTyped' /\ HandlerTyped'
  <2>1. StoreTyped' /\ BusTyped' /\ HandlerTyped'
    BY <1>0, <1>5 DEF Crash, StoreTyped, BusTyped, HandlerTyped, storeVars
  <2>. QED
    BY <1>5, <2>1, CrashKeeps
<1>6. CoreInv' /\ StoreTyped' /\ BusTyped' /\ HandlerTyped'
  BY <1>2, <1>3, <1>4, <1>5, LogKeeps, GoroutineKeeps, HandlerKeeps, RestKeeps
     DEF CertificationNext
<1>. QED
  BY <1>1, <1>6 DEF IInv, Typed

\* The initial state satisfies it: nothing is pushed, written or judged.
LEMMA InitGivesInv == ASSUME CertificationInit PROVE IInv
<1>. USE DEF CertificationInit
<1>1. DebouncerInv
  BY InitEstablishesInv
<1>2. MaxWrites \in Nat /\ MaxTime \in Nat /\ MaxFaults \in Nat /\ Window \in Nat
  BY CertificationAssumption, DebouncerAssumption
<1>3. CountersTyped
  BY <1>2 DEF CountersTyped
<1>4. StoreTyped
  BY <1>2 DEF StoreTyped
<1>5. BusTyped
  <2>1. NotPushed \in PushedEvent
    BY <1>2 DEF NotPushed, PushedEvent
  <2>2. wire \in Seq(WireEvent)
    OBVIOUS
  <2>. QED
    BY <2>1, <2>2 DEF BusTyped
<1>6. HandlerTyped
  BY DEF HandlerTyped
<1>7. CoreInv
  <2>1. AsOfPast
    BY DEF AsOfPast, NotPushed
  <2>2. RowBooks
    BY DEF RowBooks
  <2>3. \A e \in Events : EventInv(e)
    BY DEF EventInv, Books, NotOvertaken, VerdictsStored, CoversSoFar, Covers, DebouncerInit
  <2>. QED
    BY <2>1, <2>2, <2>3 DEF CoreInv
<1>. QED
  BY <1>1, <1>3, <1>4, <1>5, <1>6, <1>7 DEF IInv, Typed

\* The inductive invariant holds in every reachable state.
THEOREM InvariantHolds == CertificationSpec => []IInv
BY InitGivesInv, StepKeepsInv, PTL DEF CertificationSpec

-------------------------------------------------------------------------------
\* The results.

\* At most one row is between its two statements.
LEMMA AtMostOne ==
  ASSUME NEW S, \A s, t \in S : s = t
  PROVE  Cardinality(S) <= 1
<1>1. CASE S = {}
  BY <1>1, FS_EmptySet
<1>2. CASE S # {}
  <2>1. PICK s \in S : TRUE
    BY <1>2
  <2>2. S = {s}
    BY <2>1
  <2>3. Cardinality(S) = 1
    BY <2>2, FS_Singleton
  <2>. QED
    BY <2>3
<1>. QED
  BY <1>1, <1>2

\* The inductive invariant implies the invariant that the run checks.
LEMMA InvGivesCertificationInv == ASSUME IInv PROVE CertificationInv
<1>1. CertificationTypeOK
  <2>1. \A i \in DOMAIN wire : wire[i] \in WireEvent
    BY DEF IInv, Typed, BusTyped
  <2>. QED
    BY <2>1 DEF IInv, Typed, DebouncerInv, CertificationTypeOK, CountersTyped, StoreTyped,
                BusTyped, HandlerTyped, WireEvent, PushedEvent
<1>2. HandlerBooks
  <2>1. ASSUME NEW e \in Events PROVE Books(e) /\ Cardinality(doing[e]) <= 1
    <3>1. Books(e)
      BY DEF IInv, CoreInv, EventInv
    <3>2. Cardinality(doing[e]) <= 1
      BY <3>1, AtMostOne DEF Books
    <3>. QED
      BY <3>1, <3>2
  <2>. QED
    BY <2>1 DEF HandlerBooks, Books
<1>. QED
  BY <1>1, <1>2 DEF CertificationInv, IInv

\* The process that ingests, debounces, certifies, loses messages, fails and
\* crashes keeps its books: one handler per policy, one row at a time, no row
\* twice, and only rows of its own policy (certification_handler.go).
THEOREM CertificationInvariant == CertificationSpec => []CertificationInv
BY InvariantHolds, InvGivesCertificationInv, PTL

\* A row that is shown as certified, of an evidence id that one policy refers to, is one
\* whose stored verdicts say so, but for the moment between the two statements and for
\* ids that are torn: those whose flag did not follow verdicts that were stored, because
\* the flag's statement failed, the answer to the COMMIT of the verdicts was lost, or the
\* gateway crashed in between (certification_handler.go:76-94).
THEOREM FlagAlwaysAgrees == CertificationSpec => []FlagAgreesWithVerdicts
<1>1. IInv => FlagAgreesWithVerdicts
  BY DEF IInv, CoreInv, FlagAgreesWithVerdicts, FlagAgrees
<1>. QED
  BY <1>1, InvariantHolds, PTL

\* An event whose handler ended without a failed statement covers the window
\* that it was about (certification_handler.go).
THEOREM HandledAlwaysCovers == CertificationSpec => []HandledEventCoversItsWindow
<1>1. IInv => HandledEventCoversItsWindow
  BY DEF IInv, CoreInv, EventInv, HandledEventCoversItsWindow, Covers, InWindow, Judged
<1>. QED
  BY <1>1, InvariantHolds, PTL

\* The judgement of a row never goes back to an older state of the row.
LEMMA JudgementsAdvance ==
  ASSUME IInv, [CertificationNext]_vars, NEW k \in Keys
  PROVE  judged[k] <= judged'[k]
<1>1. judged[k] <= judged[k]
  BY TypesGiveNumbers DEF Numbers, IInv
<1>2. ASSUME NEW e \in Events, SaveVerdicts(e) \/ SaveVerdictsFails(e)
      PROVE  judged[k] <= judged'[k]
  <2>1. CASE PassesOver(e)
    BY <1>1, <2>1 DEF PassesOver
  <2>2. ASSUME NEW s \in SnapshotRow, Saves(e, s) PROVE judged[k] <= judged'[k]
    BY <1>1, <2>2, SavesAdvances
  <2>. QED
    BY <1>2, <2>1, <2>2, SaveVerdictsSaves
<1>3. ASSUME ~ \E e \in Events : SaveVerdicts(e) \/ SaveVerdictsFails(e) PROVE judged' = judged
  BY <1>3
     DEF CertificationNext, vars, storeVars, IngestLog, ExportLog, PublishEvidence,
         PublishEvidenceFails, Deliver, LoseMessage, TimerExpires, SkipInFlight,
         StartHandler, HandlerStep, Query, QueryFails, SetFlag, SetFlagFails,
         HandlerReturns, Tick, Crash
<1>. QED
  BY <1>1, <1>2, <1>3

\* A later judgement of a row is never replaced by one made on an older state of
\* the row (certification_handler.go: handlers of a policy follow each other).
THEOREM VerdictsAdvance == CertificationSpec => VerdictsNeverRegress
<1>1. IInv /\ [CertificationNext]_vars => [\A k \in Keys : judged[k] <= judged'[k]]_vars
  BY JudgementsAdvance
<1>. QED
  BY <1>1, InvariantHolds, PTL DEF CertificationSpec, VerdictsNeverRegress

===============================================================================
