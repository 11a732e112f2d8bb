-------------------------- MODULE CoalescingNotifier --------------------------
(***************************************************************************)
(* What the evidence debouncer promises its callers, without timers, locks *)
(* or goroutines: notifications of a policy wait, a newer one may take the *)
(* place of older ones, one handler at a time serves a policy, and a       *)
(* notification disappears without being served only while a handler of    *)
(* its policy is at work.                                                  *)
(***************************************************************************)
EXTENDS Naturals

CONSTANTS Policies,  \* the policies notifications are about
          Events     \* the notifications: numbers, in order of arrival

VARIABLES waiting,   \* policy -> its notifications not yet served
          busy       \* policy -> the notification being served, as a set

notifierVars == <<waiting, busy>>

NotifierInit ==
  /\ waiting = [p \in Policies |-> {}]
  /\ busy = [p \in Policies |-> {}]

\* A new notification may supersede any of the older ones that still wait.
Notify(p, e) ==
  /\ \A f \in waiting[p] \cup busy[p] : f < e
  /\ \E old \in SUBSET waiting[p] :
       waiting' = [waiting EXCEPT ![p] = (@ \ old) \cup {e}]
  /\ UNCHANGED busy

Begin(p, e) ==
  /\ e \in waiting[p]
  /\ busy[p] = {}
  /\ waiting' = [waiting EXCEPT ![p] = @ \ {e}]
  /\ busy' = [busy EXCEPT ![p] = {e}]

\* The only way to lose a notification that nothing supersedes.
Skip(p, e) ==
  /\ e \in waiting[p]
  /\ busy[p] # {}
  /\ waiting' = [waiting EXCEPT ![p] = @ \ {e}]
  /\ UNCHANGED busy

End(p) ==
  /\ busy[p] # {}
  /\ busy' = [busy EXCEPT ![p] = {}]
  /\ UNCHANGED waiting

NotifierNext ==
  \E p \in Policies :
    \/ End(p)
    \/ \E e \in Events : Notify(p, e) \/ Begin(p, e) \/ Skip(p, e)

NotifierSpec == NotifierInit /\ [][NotifierNext]_notifierVars

===============================================================================
