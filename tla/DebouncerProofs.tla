--------------------------- MODULE DebouncerProofs ---------------------------
(***************************************************************************)
(* For every set of policies and every number of pushes: the debouncer     *)
(* runs at most one handler per policy, its in-flight marks agree with the *)
(* handlers at work, coalescing keeps the newest event of a burst, and its *)
(* steps are those of CoalescingNotifier.                                  *)
(***************************************************************************)
EXTENDS Debouncer, TLAPS

\* The initial state satisfies the inductive invariant.
LEMMA InitEstablishesInv == DebouncerInit => DebouncerInv
<1>. SUFFICES ASSUME DebouncerInit PROVE DebouncerInv
  OBVIOUS
<1>. USE DebouncerAssumption DEF DebouncerInit, Events, NoEvent, Stages
<1>1. DebouncerTypeOK
  BY DEF DebouncerTypeOK
<1>2. BookKept
  BY DEF BookKept
<1>3. MarkedIffRunning
  BY DEF MarkedIffRunning
<1>4. SingleFlight
  BY DEF SingleFlight
<1>. QED
  BY <1>1, <1>2, <1>3, <1>4 DEF DebouncerInv

\* Types are preserved by every step, given the books.
LEMMA TypePreserved ==
  DebouncerInv /\ [DebouncerNext]_debouncerVars => DebouncerTypeOK'
<1>. SUFFICES ASSUME DebouncerInv, [DebouncerNext]_debouncerVars
              PROVE  DebouncerTypeOK'
  OBVIOUS
<1>. USE DebouncerAssumption DEF DebouncerInv, DebouncerTypeOK, Events, NoEvent, Stages
<1>1. ASSUME NEW p \in Policies, Push(p) PROVE DebouncerTypeOK'
  BY <1>1 DEF Push
<1>2. ASSUME NEW e \in Events, Expire(e) PROVE DebouncerTypeOK'
  BY <1>2 DEF Expire
<1>3. ASSUME NEW e \in Events, FireSkip(e) PROVE DebouncerTypeOK'
  BY <1>3 DEF FireSkip
<1>4. ASSUME NEW e \in Events, FireRun(e) PROVE DebouncerTypeOK'
  <2>1. policyOf[e] \in Policies
    BY <1>4 DEF FireRun, BookKept
  <2>. QED
    BY <1>4, <2>1 DEF FireRun
<1>5. ASSUME NEW e \in Events, Return(e) PROVE DebouncerTypeOK'
  BY <1>5 DEF Return
<1>6. CASE UNCHANGED debouncerVars
  BY <1>6 DEF debouncerVars
<1>. QED
  BY <1>1, <1>2, <1>3, <1>4, <1>5, <1>6 DEF DebouncerNext, Goroutine

\* The books are kept by every step: Push files the new event, stops at most
\* the timer the map held, and fire clears the entry of its policy whichever
\* timer it belongs to.
LEMMA BooksPreserved ==
  DebouncerInv /\ [DebouncerNext]_debouncerVars => BookKept'
<1>. SUFFICES ASSUME DebouncerInv, [DebouncerNext]_debouncerVars
              PROVE  BookKept'
  OBVIOUS
<1>. USE DebouncerAssumption
     DEF DebouncerInv, DebouncerTypeOK, BookKept, InStage, Events, NoEvent, Stages
<1>1. ASSUME NEW p \in Policies, Push(p) PROVE BookKept'
  BY <1>1 DEF Push
<1>2. ASSUME NEW e \in Events, Expire(e) PROVE BookKept'
  BY <1>2 DEF Expire
<1>3. ASSUME NEW e \in Events, FireSkip(e) PROVE BookKept'
  BY <1>3 DEF FireSkip
<1>4. ASSUME NEW e \in Events, FireRun(e) PROVE BookKept'
  BY <1>4 DEF FireRun
<1>5. ASSUME NEW e \in Events, Return(e) PROVE BookKept'
  BY <1>5 DEF Return
<1>6. CASE UNCHANGED debouncerVars
  BY <1>6 DEF debouncerVars
<1>. QED
  BY <1>1, <1>2, <1>3, <1>4, <1>5, <1>6 DEF DebouncerNext, Goroutine

\* The marks stay equal to the policies of the running handlers.  The step
\* that needs single flight is Return: it clears the mark of a policy, so no
\* other handler of that policy may be at work.
LEMMA MarksPreserved ==
  DebouncerInv /\ [DebouncerNext]_debouncerVars => MarkedIffRunning'
<1>. SUFFICES ASSUME DebouncerInv, [DebouncerNext]_debouncerVars
              PROVE  MarkedIffRunning'
  OBVIOUS
<1>. USE DebouncerAssumption
     DEF DebouncerInv, DebouncerTypeOK, BookKept, MarkedIffRunning, InStage,
         Events, NoEvent, Stages
<1>1. ASSUME NEW p \in Policies, Push(p) PROVE MarkedIffRunning'
  <2>1. {f \in Events : stage'[f] = "running"} = {f \in Events : stage[f] = "running"}
    BY <1>1 DEF Push
  <2>2. \A f \in {g \in Events : stage[g] = "running"} : policyOf'[f] = policyOf[f]
    BY <1>1 DEF Push
  <2>3. inflight' = inflight
    BY <1>1 DEF Push
  <2>4. inflight = {policyOf[f] : f \in {g \in Events : stage[g] = "running"}}
    BY DEF MarkedIffRunning
  <2>5. {policyOf'[f] : f \in {g \in Events : stage'[g] = "running"}}
          = {policyOf[f] : f \in {g \in Events : stage[g] = "running"}}
    <3>. HIDE DEF Events
    <3>. QED
      BY ONLY <2>1, <2>2
  <2>. QED
    BY <2>3, <2>4, <2>5 DEF MarkedIffRunning
<1>2. ASSUME NEW e \in Events, Expire(e) PROVE MarkedIffRunning'
  BY <1>2 DEF Expire
<1>3. ASSUME NEW e \in Events, FireSkip(e) PROVE MarkedIffRunning'
  BY <1>3 DEF FireSkip
<1>4. ASSUME NEW e \in Events, FireRun(e) PROVE MarkedIffRunning'
  BY <1>4 DEF FireRun
<1>5. ASSUME NEW e \in Events, Return(e) PROVE MarkedIffRunning'
  BY <1>5 DEF Return, SingleFlight
<1>6. CASE UNCHANGED debouncerVars
  BY <1>6 DEF debouncerVars
<1>. QED
  BY <1>1, <1>2, <1>3, <1>4, <1>5, <1>6 DEF DebouncerNext, Goroutine

\* A second handler of a policy cannot start: FireRun requires the mark to be
\* absent, and the mark is there while a handler runs.
LEMMA SingleFlightPreserved ==
  DebouncerInv /\ [DebouncerNext]_debouncerVars => SingleFlight'
<1>. SUFFICES ASSUME DebouncerInv, [DebouncerNext]_debouncerVars
              PROVE  SingleFlight'
  OBVIOUS
<1>. USE DebouncerAssumption
     DEF DebouncerInv, DebouncerTypeOK, BookKept, SingleFlight, Events, NoEvent, Stages
<1>1. ASSUME NEW p \in Policies, Push(p) PROVE SingleFlight'
  BY <1>1 DEF Push
<1>2. ASSUME NEW e \in Events, Expire(e) PROVE SingleFlight'
  BY <1>2 DEF Expire
<1>3. ASSUME NEW e \in Events, FireSkip(e) PROVE SingleFlight'
  BY <1>3 DEF FireSkip
<1>4. ASSUME NEW e \in Events, FireRun(e) PROVE SingleFlight'
  <2>1. \A f \in Events : stage[f] = "running" => policyOf[f] # policyOf[e]
    BY <1>4 DEF FireRun, MarkedIffRunning
  <2>. QED
    BY <1>4, <2>1 DEF FireRun
<1>5. ASSUME NEW e \in Events, Return(e) PROVE SingleFlight'
  BY <1>5 DEF Return
<1>6. CASE UNCHANGED debouncerVars
  BY <1>6 DEF debouncerVars
<1>. QED
  BY <1>1, <1>2, <1>3, <1>4, <1>5, <1>6 DEF DebouncerNext, Goroutine

\* The inductive invariant holds in every reachable state: types, books,
\* marks that agree with the handlers, and single flight.
THEOREM DebouncerInvariant == DebouncerSpec => []DebouncerInv
<1>1. DebouncerInit => DebouncerInv
  BY InitEstablishesInv
<1>2. DebouncerInv /\ [DebouncerNext]_debouncerVars => DebouncerInv'
  BY TypePreserved, BooksPreserved, MarksPreserved, SingleFlightPreserved DEF DebouncerInv
<1>. QED
  BY <1>1, <1>2, PTL DEF DebouncerSpec

\* The debouncer never runs two handlers of one policy at the same time
\* (debounce.go: "won't fire a second concurrent handler").
THEOREM SingleFlightAlways == DebouncerSpec => []SingleFlight
<1>1. DebouncerInv => SingleFlight
  BY DEF DebouncerInv
<1>. QED
  BY <1>1, DebouncerInvariant, PTL

\* Coalescing never loses the newest event: Push stops only the timer the map
\* holds, and the event it files itself is newer and armed.
LEMMA NewestSurvivesStep ==
  DebouncerInv /\ NewestSurvives /\ [DebouncerNext]_debouncerVars => NewestSurvives'
<1>. SUFFICES ASSUME DebouncerInv, NewestSurvives, [DebouncerNext]_debouncerVars
              PROVE  NewestSurvives'
  OBVIOUS
<1>. USE DebouncerAssumption
     DEF DebouncerInv, DebouncerTypeOK, Events, NoEvent, Stages
<1>1. ASSUME NEW p \in Policies, Push(p) PROVE NewestSurvives'
  <2>. DEFINE new == pushed + 1
  <2>1. new \in Events /\ policyOf'[new] = p /\ stage'[new] = "armed"
    BY <1>1 DEF Push
  <2>. SUFFICES ASSUME NEW e \in Events, stage'[e] = "stopped"
                PROVE  \E f \in Events : f > e /\ policyOf'[f] = policyOf'[e]
                                         /\ stage'[f] # "stopped"
    BY DEF NewestSurvives
  <2>2. e < new /\ policyOf'[e] = policyOf[e]
    BY <1>1, <2>1 DEF Push, BookKept
  <2>3. CASE policyOf[e] = p
    BY <2>1, <2>2, <2>3
  <2>4. CASE policyOf[e] # p
    <3>1. stage[e] = "stopped"
      BY <1>1, <2>2, <2>4 DEF Push, BookKept, InStage
    <3>2. PICK f \in Events : f > e /\ policyOf[f] = policyOf[e] /\ stage[f] # "stopped"
      BY <3>1 DEF NewestSurvives
    <3>3. policyOf[f] \in Policies
      BY <3>1, <3>2 DEF BookKept
    <3>4. f <= pushed
      BY <3>3, <1>1 DEF BookKept, Push
    <3>5. policyOf'[f] = policyOf[f] /\ stage'[f] # "stopped"
      BY <1>1, <3>2, <3>4, <2>4 DEF Push, BookKept, InStage
    <3>. QED
      BY <3>2, <3>5, <2>2
  <2>. QED
    BY <2>3, <2>4
<1>2. ASSUME NEW e \in Events, Expire(e) PROVE NewestSurvives'
  BY <1>2 DEF Expire, NewestSurvives
<1>3. ASSUME NEW e \in Events, FireSkip(e) PROVE NewestSurvives'
  BY <1>3 DEF FireSkip, NewestSurvives
<1>4. ASSUME NEW e \in Events, FireRun(e) PROVE NewestSurvives'
  BY <1>4 DEF FireRun, NewestSurvives
<1>5. ASSUME NEW e \in Events, Return(e) PROVE NewestSurvives'
  BY <1>5 DEF Return, NewestSurvives
<1>6. CASE UNCHANGED debouncerVars
  BY <1>6 DEF debouncerVars, NewestSurvives
<1>. QED
  BY <1>1, <1>2, <1>3, <1>4, <1>5, <1>6 DEF DebouncerNext, Goroutine

\* A stopped event is always covered by a newer one of its policy that was not
\* stopped (debounce.go, Push: the last event of a burst decides).
THEOREM NewestAlwaysSurvives == DebouncerSpec => []NewestSurvives
<1>1. DebouncerInit => NewestSurvives
  BY DEF DebouncerInit, NewestSurvives
<1>2. DebouncerInv /\ NewestSurvives /\ [DebouncerNext]_debouncerVars => NewestSurvives'
  BY NewestSurvivesStep
<1>. QED
  BY <1>1, <1>2, DebouncerInvariant, PTL DEF DebouncerSpec

-------------------------------------------------------------------------------
\* The refinement.  Waiting(q) and Busy(q) are the values the mapping of
\* Debouncer gives to the variables of CoalescingNotifier at policy q.
Waiting(q) == InStage(q, {"armed", "expired"})
Busy(q) == InStage(q, {"running"})

\* A step that changes neither set at any policy stutters in the abstract.
LEMMA UnchangedSetsStutter ==
  ASSUME \A q \in Policies : Waiting(q)' = Waiting(q) /\ Busy(q)' = Busy(q)
  PROVE  UNCHANGED Notifier!notifierVars
BY DEF Notifier!notifierVars, Waiting, Busy

\* Push is Notify: at most the event of the timer in the map is superseded.
LEMMA PushNotifies ==
  ASSUME DebouncerInv, NEW p \in Policies, Push(p)
  PROVE  Notifier!NotifierNext
<1>. DEFINE new == pushed + 1
            old == {f \in Waiting(p) : f = timers[p] /\ stage[f] = "armed"}
<1>. USE DebouncerAssumption
     DEF DebouncerInv, DebouncerTypeOK, BookKept, Events, NoEvent, Stages
<1>1. new \in Events /\ policyOf[new] = NoPolicy /\ stage[new] = "unborn"
  BY DEF Push
<1>2. \A q \in Policies : Waiting(q)' = IF q = p THEN (Waiting(p) \ old) \cup {new}
                                                 ELSE Waiting(q)
  BY <1>1 DEF Push, Waiting, InStage
<1>3. \A q \in Policies : Busy(q)' = Busy(q)
  BY <1>1 DEF Push, Busy, InStage
<1>4. \A f \in Waiting(p) \cup Busy(p) : f < new
  BY <1>1 DEF Waiting, Busy, InStage
<1>5. Notifier!Notify(p, new)
  <2>. HIDE DEF new, old
  <2>1. old \in SUBSET Waiting(p)
    BY DEF old
  <2>2. [q \in Policies |-> Waiting(q)']
          = [[q \in Policies |-> Waiting(q)] EXCEPT ![p] = (@ \ old) \cup {new}]
    BY ONLY <1>2
  <2>3. [q \in Policies |-> Busy(q)'] = [q \in Policies |-> Busy(q)]
    BY ONLY <1>3
  <2>. QED
    BY ONLY <1>4, <2>1, <2>2, <2>3, p \in Policies DEF Notifier!Notify, Waiting, Busy
<1>. QED
  BY <1>1, <1>5 DEF Notifier!NotifierNext

\* FireSkip is Skip: the mark it sees is that of a handler at work.
LEMMA FireSkipSkips ==
  ASSUME DebouncerInv, NEW e \in Events, FireSkip(e)
  PROVE  Notifier!NotifierNext
<1>. DEFINE p == policyOf[e]
<1>. USE DebouncerAssumption
     DEF DebouncerInv, DebouncerTypeOK, BookKept, Events, NoEvent, Stages
<1>1. p \in Policies
  BY DEF FireSkip
<1>2. e \in Waiting(p) /\ Busy(p) # {}
  BY DEF FireSkip, Waiting, Busy, InStage, MarkedIffRunning
<1>3. \A q \in Policies : Waiting(q)' = IF q = p THEN Waiting(p) \ {e} ELSE Waiting(q)
  BY DEF FireSkip, Waiting, InStage
<1>4. \A q \in Policies : Busy(q)' = Busy(q)
  BY DEF FireSkip, Busy, InStage
<1>5. Notifier!Skip(p, e)
  <2>. HIDE DEF p
  <2>. QED
    BY <1>1, <1>2, <1>3, <1>4 DEF Notifier!Skip, Waiting, Busy
<1>. QED
  BY <1>1, <1>5 DEF Notifier!NotifierNext

\* FireRun is Begin: no mark means that no handler of the policy is at work.
LEMMA FireRunBegins ==
  ASSUME DebouncerInv, NEW e \in Events, FireRun(e)
  PROVE  Notifier!NotifierNext
<1>. DEFINE p == policyOf[e]
<1>. USE DebouncerAssumption
     DEF DebouncerInv, DebouncerTypeOK, BookKept, Events, NoEvent, Stages
<1>1. p \in Policies
  BY DEF FireRun
<1>2. e \in Waiting(p) /\ Busy(p) = {}
  BY DEF FireRun, Waiting, Busy, InStage, MarkedIffRunning
<1>3. \A q \in Policies : Waiting(q)' = IF q = p THEN Waiting(p) \ {e} ELSE Waiting(q)
  BY DEF FireRun, Waiting, InStage
<1>4. \A q \in Policies : Busy(q)' = IF q = p THEN {e} ELSE Busy(q)
  BY <1>2 DEF FireRun, Busy, InStage
<1>5. Notifier!Begin(p, e)
  <2>. HIDE DEF p
  <2>. QED
    BY <1>1, <1>2, <1>3, <1>4 DEF Notifier!Begin, Waiting, Busy
<1>. QED
  BY <1>1, <1>5 DEF Notifier!NotifierNext

\* Return is End: single flight makes the returning handler the only one.
LEMMA ReturnEnds ==
  ASSUME DebouncerInv, NEW e \in Events, Return(e)
  PROVE  Notifier!NotifierNext
<1>. DEFINE p == policyOf[e]
<1>. USE DebouncerAssumption
     DEF DebouncerInv, DebouncerTypeOK, BookKept, Events, NoEvent, Stages
<1>1. p \in Policies
  BY DEF Return
<1>2. Busy(p) = {e}
  BY DEF Return, Busy, InStage, SingleFlight
<1>3. \A q \in Policies : Waiting(q)' = Waiting(q)
  BY DEF Return, Waiting, InStage
<1>4. \A q \in Policies : Busy(q)' = IF q = p THEN {} ELSE Busy(q)
  BY <1>2 DEF Return, Busy, InStage
<1>5. Notifier!End(p)
  <2>. HIDE DEF p
  <2>. QED
    BY <1>1, <1>2, <1>3, <1>4 DEF Notifier!End, Waiting, Busy
<1>. QED
  BY <1>1, <1>5 DEF Notifier!NotifierNext

\* Every step of the debouncer is a step of the notifier, or a stutter: a timer
\* that goes off changes nothing that the notifier shows.
LEMMA StepRefines ==
  DebouncerInv /\ [DebouncerNext]_debouncerVars
    => [Notifier!NotifierNext]_(Notifier!notifierVars)
<1>. SUFFICES ASSUME DebouncerInv, [DebouncerNext]_debouncerVars
              PROVE  [Notifier!NotifierNext]_(Notifier!notifierVars)
  OBVIOUS
<1>1. ASSUME NEW p \in Policies, Push(p) PROVE Notifier!NotifierNext
  BY <1>1, PushNotifies
<1>2. ASSUME NEW e \in Events, Expire(e) PROVE UNCHANGED Notifier!notifierVars
  <2>1. \A q \in Policies : Waiting(q)' = Waiting(q) /\ Busy(q)' = Busy(q)
    BY <1>2 DEF Expire, Waiting, Busy, InStage, DebouncerInv, DebouncerTypeOK
  <2>. QED
    BY <2>1, UnchangedSetsStutter
<1>3. ASSUME NEW e \in Events, FireSkip(e) PROVE Notifier!NotifierNext
  BY <1>3, FireSkipSkips
<1>4. ASSUME NEW e \in Events, FireRun(e) PROVE Notifier!NotifierNext
  BY <1>4, FireRunBegins
<1>5. ASSUME NEW e \in Events, Return(e) PROVE Notifier!NotifierNext
  BY <1>5, ReturnEnds
<1>6. CASE UNCHANGED debouncerVars
  <2>1. \A q \in Policies : Waiting(q)' = Waiting(q) /\ Busy(q)' = Busy(q)
    BY <1>6 DEF debouncerVars, Waiting, Busy, InStage
  <2>. QED
    BY <2>1, UnchangedSetsStutter
<1>. QED
  BY <1>1, <1>2, <1>3, <1>4, <1>5, <1>6 DEF DebouncerNext, Goroutine

\* The debouncer implements the coalescing notifier: an event is lost only when
\* a newer one supersedes it or while a handler of its policy is at work, and
\* handlers of one policy come one after the other.
THEOREM DebouncerRefinesNotifier == DebouncerSpec => ImplementsNotifier
<1>1. DebouncerInit => Notifier!NotifierInit
  BY DebouncerAssumption
     DEF DebouncerInit, Notifier!NotifierInit, InStage, Events
<1>2. DebouncerInv /\ [DebouncerNext]_debouncerVars
        => [Notifier!NotifierNext]_(Notifier!notifierVars)
  BY StepRefines
<1>. QED
  BY <1>1, <1>2, DebouncerInvariant, PTL
     DEF DebouncerSpec, ImplementsNotifier, Notifier!NotifierSpec

===============================================================================
