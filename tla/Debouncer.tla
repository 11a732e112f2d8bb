------------------------------ MODULE Debouncer ------------------------------
(***************************************************************************)
(* The per-policy debouncer of internal/events/debounce.go.                *)
(*                                                                         *)
(* Push arms a timer with time.AfterFunc and stops the one it finds in the *)
(* timers map; when a timer goes off the runtime starts a goroutine that   *)
(* runs fire, which has to take d.mu first.  Going off (Expire) and taking *)
(* the lock (FireSkip, FireRun) are separate steps: a Push may come        *)
(* between them, and its Stop then has no effect.  Everything done under   *)
(* one hold of d.mu is one action.  A timer may go off arbitrarily late,   *)
(* and the handler may take arbitrarily long.                              *)
(*                                                                         *)
(* Event e is the e-th Push; the timer it arms has the same number.        *)
(***************************************************************************)
EXTENDS Naturals

CONSTANTS Policies,   \* policy IDs that evidence is ingested for
          NoPolicy,   \* the policy of an event not yet pushed
          MaxEvents   \* bound on the number of calls of Push

ASSUME DebouncerAssumption == MaxEvents \in Nat /\ NoPolicy \notin Policies

Events == 1..MaxEvents
NoEvent == 0

Stages == { "unborn",    \* not pushed yet
            "armed",     \* its timer runs
            "stopped",   \* its timer was stopped by a later Push
            "expired",   \* its goroutine waits for d.mu in fire
            "running",   \* inside d.handler
            "done",      \* d.handler has returned for it
            "dropped" }  \* fire found the policy in flight, or the process died

VARIABLES pushed,    \* how many events were pushed
          policyOf,  \* evt.PolicyID of each event
          stage,     \* where each event's timer and goroutine are
          timers,    \* d.timers: policy -> the event whose timer the map holds
          inflight   \* d.inflight: the policies whose entry is true

debouncerVars == <<pushed, policyOf, stage, timers, inflight>>

DebouncerInit ==
  /\ pushed = 0
  /\ policyOf = [e \in Events |-> NoPolicy]
  /\ stage = [e \in Events |-> "unborn"]
  /\ timers = [p \in Policies |-> NoEvent]
  /\ inflight = {}

InStage(p, stages) == {e \in Events : policyOf[e] = p /\ stage[e] \in stages}

-------------------------------------------------------------------------------
\* Mutated forms: plausible bugs in debounce.go, used to test the properties.

\* Push stores the new timer before it stops "the old one".
PushStopsItsOwnTimer(p) ==
  /\ pushed < MaxEvents
  /\ pushed' = pushed + 1
  /\ policyOf' = [policyOf EXCEPT ![pushed + 1] = p]
  /\ timers' = [timers EXCEPT ![p] = pushed + 1]
  /\ stage' = [stage EXCEPT ![pushed + 1] =
                 IF timers[p] = NoEvent THEN "armed" ELSE "stopped"]
  /\ UNCHANGED inflight

\* fire does not look at d.inflight.
FireIgnoresInflight(e) ==
  /\ stage[e] = "expired"
  /\ timers' = [timers EXCEPT ![policyOf[e]] = NoEvent]
  /\ inflight' = inflight \cup {policyOf[e]}
  /\ stage' = [stage EXCEPT ![e] = "running"]
  /\ UNCHANGED <<pushed, policyOf>>

\* fire skips an event although no handler of its policy is at work.
FireSkipsWhenIdle(e) ==
  /\ stage[e] = "expired"
  /\ timers' = [timers EXCEPT ![policyOf[e]] = NoEvent]
  /\ stage' = [stage EXCEPT ![e] = "dropped"]
  /\ UNCHANGED <<pushed, policyOf, inflight>>

\* The deferred function of fire is missing.
ReturnKeepsInflight(e) ==
  /\ stage[e] = "running"
  /\ stage' = [stage EXCEPT ![e] = "done"]
  /\ UNCHANGED <<pushed, policyOf, timers, inflight>>

-------------------------------------------------------------------------------
\* One action per step of the code.

\* Push: Stop has an effect only on a timer that has not gone off yet.
Push(p) ==
  /\ pushed < MaxEvents
  /\ pushed' = pushed + 1
  /\ policyOf' = [policyOf EXCEPT ![pushed + 1] = p]
  /\ timers' = [timers EXCEPT ![p] = pushed + 1]
  /\ stage' = [e \in Events |->
                 IF e = pushed + 1 THEN "armed"
                 ELSE IF e = timers[p] /\ stage[e] = "armed" THEN "stopped"
                 ELSE stage[e]]
  /\ UNCHANGED inflight

\* The runtime starts the goroutine of a timer that went off.
Expire(e) ==
  /\ stage[e] = "armed"
  /\ stage' = [stage EXCEPT ![e] = "expired"]
  /\ UNCHANGED <<pushed, policyOf, timers, inflight>>

\* fire, policy in flight: the map entry is deleted, whichever timer it is of,
\* and the event is forgotten.
FireSkip(e) ==
  /\ stage[e] = "expired"
  /\ policyOf[e] \in inflight
  /\ timers' = [timers EXCEPT ![policyOf[e]] = NoEvent]
  /\ stage' = [stage EXCEPT ![e] = "dropped"]
  /\ UNCHANGED <<pushed, policyOf, inflight>>

\* fire, policy idle: the map entry is deleted and the handler is entered.
FireRun(e) ==
  /\ stage[e] = "expired"
  /\ policyOf[e] \notin inflight
  /\ timers' = [timers EXCEPT ![policyOf[e]] = NoEvent]
  /\ inflight' = inflight \cup {policyOf[e]}
  /\ stage' = [stage EXCEPT ![e] = "running"]
  /\ UNCHANGED <<pushed, policyOf>>

\* The handler returns and the deferred function clears the in-flight mark.
Return(e) ==
  /\ stage[e] = "running"
  /\ inflight' = inflight \ {policyOf[e]}
  /\ stage' = [stage EXCEPT ![e] = "done"]
  /\ UNCHANGED <<pushed, policyOf, timers>>

Goroutine(e) == Expire(e) \/ FireSkip(e) \/ FireRun(e) \/ Return(e)

DebouncerNext ==
  \/ \E p \in Policies : Push(p)
  \/ \E e \in Events : Goroutine(e)

\* Timers go off, goroutines get the mutex and the handler returns.  Nobody is
\* obliged to push.
DebouncerFairness == \A e \in Events : WF_debouncerVars(Goroutine(e))

DebouncerSpec ==
  DebouncerInit /\ [][DebouncerNext]_debouncerVars /\ DebouncerFairness

-------------------------------------------------------------------------------
\* Properties.

\* Every variable stays within its type.
DebouncerTypeOK ==
  /\ pushed \in 0..MaxEvents
  /\ policyOf \in [Events -> Policies \cup {NoPolicy}]
  /\ stage \in [Events -> Stages]
  /\ timers \in [Policies -> Events \cup {NoEvent}]
  /\ inflight \in SUBSET Policies

\* "won't fire a second concurrent handler": d.handler never runs twice at the
\* same time for one policy.
SingleFlight ==
  \A e, f \in Events :
    (stage[e] = "running" /\ stage[f] = "running" /\ policyOf[e] = policyOf[f])
      => e = f

\* The in-flight mark and the handlers agree: a policy marked in flight has a
\* handler that will clear it, so no policy is blocked for ever, and a running
\* handler is always marked.
MarkedIffRunning ==
  inflight = {policyOf[e] : e \in {f \in Events : stage[f] = "running"}}

\* Events that were pushed have a policy, the others are untouched, and the
\* timers map holds only timers of that policy that Stop could still meet.
BookKept ==
  /\ \A e \in Events : IF e <= pushed THEN policyOf[e] \in Policies /\ stage[e] # "unborn"
                                      ELSE policyOf[e] = NoPolicy /\ stage[e] = "unborn"
  /\ \A p \in Policies : timers[p] # NoEvent => timers[p] \in InStage(p, {"armed", "expired"})

\* The inductive invariant behind the single-flight guarantee: types, the books
\* Push and fire keep, and marks that agree with the handlers at work.
DebouncerInv == DebouncerTypeOK /\ BookKept /\ MarkedIffRunning /\ SingleFlight

\* Coalescing keeps the newest: a stopped event is always covered by a later
\* event of its policy that was not stopped.  If Push could stop the timer it
\* has just armed, the last event of a burst would vanish.
NewestSurvives ==
  \A e \in Events : stage[e] = "stopped" =>
    \E f \in Events : f > e /\ policyOf[f] = policyOf[e] /\ stage[f] # "stopped"

\* A burst that starts on an idle policy is served: when an armed event is all
\* there is of its policy, a handler eventually runs for it or for a later one.
\* (MaxEvents makes the pushes stop: pushes less than a window apart for ever
\* would postpone the handler for ever.)
IdleBurstServed ==
  \A e \in Events :
    (stage[e] = "armed" /\ InStage(policyOf[e], {"armed", "expired", "running"}) = {e})
      ~> \E f \in Events : f >= e /\ policyOf[f] = policyOf[e] /\ stage[f] = "done"

\* The debouncer implements the coalescing notifier.
Notifier == INSTANCE CoalescingNotifier WITH
  waiting <- [p \in Policies |-> InStage(p, {"armed", "expired"})],
  busy <- [p \in Policies |-> InStage(p, {"running"})]

ImplementsNotifier == Notifier!NotifierSpec

===============================================================================
