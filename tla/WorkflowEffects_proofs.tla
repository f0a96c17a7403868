----------------------- MODULE WorkflowEffects_proofs -----------------------
(***************************************************************************)
(* Effects of the workflow runtime: an action takes effect at most once    *)
(* for an event, together with its event, within the automation budget;    *)
(* and so the runtime implements AutomationPromise.                        *)
(*                                                                         *)
(* Every step is first reduced to what it does to the identities of rows,  *)
(* to the effects and to the executions (EffectStep, ExecutionStep); the   *)
(* invariant and the refinement then follow from these few forms.          *)
(***************************************************************************)
EXTENDS WorkflowRuntime_proofs

Recorded == {e \in Events : outbox[e].state # "ABSENT"}

\* An execution exists for recorded rows within the budget only.
ExecutionsBounded ==
  \A x \in Events \X Workflows : exec[x] # "NONE" =>
    outbox[x[1]].state # "ABSENT" /\ outbox[x[1]].depth < MaxDepth

\* The row of an effect is one level below the row that caused it, which exists.
CausesRecorded ==
  \A e \in Events : outbox[e].state # "ABSENT" /\ outbox[e].key # NoKey =>
    /\ outbox[outbox[e].key[1]].state # "ABSENT"
    /\ outbox[e].depth = outbox[outbox[e].key[1]].depth + 1

EffectInv ==
  EffectAtMostOnce /\ EffectIffEvent /\ ExecutionsBounded /\ CausesRecorded

-----------------------------------------------------------------------------
(* What a step may do to rows, effects and executions                      *)

KindOf(k) == Actions[k[2]][k[3]].kind

\* A worker within the budget is at the action of k.
Acting(k) ==
  /\ outbox[k[1]].state # "ABSENT" /\ outbox[k[1]].depth < MaxDepth
  /\ k[3] <= Len(Actions[k[2]])

RowsKept ==
  \A e \in Events :
    /\ outbox'[e].state = "ABSENT" <=> outbox[e].state = "ABSENT"
    /\ outbox'[e].depth = outbox[e].depth
    /\ outbox'[e].key = outbox[e].key

RowAdded(c, d, k) ==
  /\ outbox[c].state = "ABSENT" /\ outbox'[c].state # "ABSENT"
  /\ outbox'[c].depth = d /\ outbox'[c].key = k
  /\ \A e \in Events \ {c} : outbox'[e] = outbox[e]

Quiet == RowsKept /\ UNCHANGED applied

Commanded(c) == RowAdded(c, 0, NoKey) /\ UNCHANGED applied

Caused(k, c) ==
  /\ Acting(k) /\ KindOf(k) \in {"change_status", "assign"} /\ ~KeyTaken(k)
  /\ RowAdded(c, outbox[k[1]].depth + 1, k)
  /\ applied' = [applied EXCEPT ![k] = @ + 1]

Notified(k) ==
  /\ Acting(k) /\ KindOf(k) = "create_notification"
  /\ RowsKept
  /\ applied' = [applied EXCEPT ![k] = IF @ = 0 THEN 1 ELSE @]

EffectStep ==
  \/ Quiet
  \/ \E c \in Events : Commanded(c)
  \/ \E k \in Keys, c \in Events : Caused(k, c)
  \/ \E k \in Keys : Notified(k)

\* Executions are written for rows within the budget.
ExecutionStep ==
  \A x \in Events \X Workflows : exec'[x] # exec[x] =>
    outbox[x[1]].state # "ABSENT" /\ outbox[x[1]].depth < MaxDepth

-----------------------------------------------------------------------------

\* An update of one row by SameEvent keeps every row.
LEMMA RowUpdateKeeps ==
  ASSUME TypeOK, NEW e \in Events, outbox[e].state # "ABSENT", NEW r, SameEvent(r, outbox[e]),
         outbox' = [outbox EXCEPT ![e] = r]
  PROVE  RowsKept
BY DEF TypeOK, SameEvent, RowsKept

LEMMA SameRows == ASSUME UNCHANGED outbox PROVE RowsKept
BY DEF RowsKept

LEMMA AppendAdds ==
  ASSUME TypeOK, NEW c \in Events, outbox[c].state = "ABSENT",
         NEW d \in 0..MaxDepth, NEW ty \in EventTypes, NEW t \in Tickets,
         NEW s \in Statuses, NEW k \in Keys \cup {NoKey},
         outbox' = Append1(c, d, ty, t, s, k)
  PROVE  RowAdded(c, d, k)
<1>1. /\ outbox'[c] = [state |-> "PENDING", depth |-> d, type |-> ty, ticket |-> t,
                        status |-> s, key |-> k, tries |-> 0, lease |-> FALSE]
      /\ \A e \in Events \ {c} : outbox'[e] = outbox[e]
  BY DEF TypeOK, Append1
<1>2. outbox'[c].state = "PENDING" /\ outbox'[c].depth = d /\ outbox'[c].key = k
  BY <1>1
<1> QED BY <1>1, <1>2 DEF RowAdded

LEMMA AgentChangeEffect ==
  ASSUME IInv, NEW t \in Tickets, NEW s \in Statuses, AgentChange(t, s)
  PROVE  EffectStep
<1>1. PICK c \in Events :
        /\ outbox[c].state = "ABSENT"
        /\ outbox' = Append1(c, 0, "ticket.status_changed", t, s, NoKey)
  BY DEF AgentChange
<1>2. 0 \in 0..MaxDepth /\ "ticket.status_changed" \in EventTypes
  BY RuntimeConstants DEF EventTypes
<1>3. RowAdded(c, 0, NoKey)
  BY <1>1, <1>2, AppendAdds DEF IInv
<1> QED BY <1>3 DEF AgentChange, EffectStep, Commanded

LEMMA ReplayEffect ==
  ASSUME IInv, NEW e \in Events, Replay(e)
  PROVE  EffectStep
<1> DEFINE r == [outbox[e] EXCEPT !.state = "PENDING", !.tries = 0, !.lease = FALSE]
<1>1. outbox' = [outbox EXCEPT ![e] = r] /\ UNCHANGED applied
  BY DEF Replay
<1>2. outbox[e] \in Row /\ outbox[e].state # "ABSENT" /\ "PENDING" \in OutboxStates
  BY ReplayConstants DEF Replay, IInv, TypeOK, OutboxStates
<1>3. SameEvent(r, outbox[e])
  <2>1. 0 \in 0..MaxDeliveries
    BY RuntimeConstants
  <2> QED BY <1>2, <2>1, UpdateTyped
<1> HIDE DEF r
<1>4. RowsKept
  BY <1>1, <1>2, <1>3, RowUpdateKeeps DEF IInv
<1> QED BY <1>1, <1>4 DEF EffectStep, Quiet

LEMMA ExpireLeaseEffect ==
  ASSUME IInv, NEW e \in Events, ExpireLease(e)
  PROVE  EffectStep
<1>1. RowsKept /\ UNCHANGED applied
  BY DEF IInv, TypeOK, ExpireLease, Row, RowsKept
<1> QED BY <1>1 DEF EffectStep, Quiet

LEMMA ClaimBatchEffect ==
  ASSUME IInv, NEW w \in Workers, ClaimBatch(w)
  PROVE  EffectStep
<1>1. PICK S \in SUBSET {e \in Events : Claimable(e)} :
        outbox' = [e \in Events |->
                     IF e \in S THEN [outbox[e] EXCEPT !.state = "CLAIMED", !.lease = TRUE]
                                ELSE outbox[e]]
  BY DEF ClaimBatch
<1>2. \A e \in S : /\ SameEvent([outbox[e] EXCEPT !.state = "CLAIMED", !.lease = TRUE], outbox[e])
                   /\ outbox[e].state # "ABSENT"
  BY LeaseTyped DEF IInv, TypeOK, OutboxStates, Claimable
<1>3. RowsKept
  BY <1>1, <1>2 DEF SameEvent, RowsKept
<1> QED BY <1>3 DEF EffectStep, Quiet, ClaimBatch

LEMMA MarkProcessedEffect ==
  ASSUME IInv, NEW w \in Workers, MarkProcessed(w)
  PROVE  EffectStep
<1> DEFINE r == [outbox[cur[w]] EXCEPT !.state = "PROCESSED", !.lease = FALSE]
<1>1. outbox' = [outbox EXCEPT ![cur[w]] = r] /\ UNCHANGED applied
  BY DEF MarkProcessed
<1>2. cur[w] \in Events /\ outbox[cur[w]] \in Row /\ outbox[cur[w]].state # "ABSENT"
  BY LocalsKnown DEF MarkProcessed, MemoryOf, Resting, IInv, TypeOK
<1>3. SameEvent(r, outbox[cur[w]])
  BY <1>2, LeaseTyped DEF OutboxStates
<1> HIDE DEF r
<1>4. RowsKept
  BY <1>1, <1>2, <1>3, RowUpdateKeeps DEF IInv
<1> QED BY <1>1, <1>4 DEF EffectStep, Quiet

LEMMA RecordDeliveryFailureEffect ==
  ASSUME IInv, NEW w \in Workers, RecordDeliveryFailure(w)
  PROVE  EffectStep
<1> DEFINE n == Saturate(run[w].seen, MaxDeliveries)
           st == IF n >= MaxDeliveries THEN "DEAD_LETTERED" ELSE "FAILED"
           r == [outbox[cur[w]] EXCEPT !.state = st, !.tries = n, !.lease = FALSE]
<1>1. outbox' = [outbox EXCEPT ![cur[w]] = r] /\ UNCHANGED applied
  BY DEF RecordDeliveryFailure
<1>2. /\ cur[w] \in Events /\ outbox[cur[w]] \in Row /\ outbox[cur[w]].state # "ABSENT"
      /\ run[w].seen \in Nat
  BY LocalsKnown DEF RecordDeliveryFailure, MemoryOf, Resting, IInv, TypeOK, Run
<1>3. n \in 0..MaxDeliveries /\ st \in OutboxStates
  BY <1>2, SaturateTyped, RuntimeConstants DEF OutboxStates
<1> HIDE DEF n, st
<1>4. SameEvent(r, outbox[cur[w]])
  BY <1>2, <1>3, UpdateTyped
<1> HIDE DEF r
<1>5. RowsKept
  BY <1>1, <1>2, <1>4, RowUpdateKeeps DEF IInv
<1> QED BY <1>1, <1>5 DEF EffectStep, Quiet

\* The transaction of an action either leaves the effects alone or commits the
\* one effect of its key.
LEMMA RunActionEffect ==
  ASSUME IInv, NEW w \in Workers, RunAction(w)
  PROVE  EffectStep
<1> DEFINE e == cur[w]
           k == KeyOf(w)
           d == outbox[e].depth
           t == outbox[e].ticket
           s == ActionOf(w).to
<1>1. pc[w] \in AtAction
  BY DEF RunAction, AtAction
<1>2. /\ k \in Keys /\ d \in 0..MaxDepth /\ d < MaxDepth /\ t \in Tickets /\ s \in Statuses
      /\ Acting(k) /\ KindOf(k) = ActionOf(w).kind /\ k[1] = e
  BY <1>1, AtActionKnown DEF Row, Acting, KindOf, ActionOf
<1>3. ChildDepth(d) \in 0..MaxDepth /\ ChildDepth(d) = outbox[k[1]].depth + 1
  BY <1>2, ChildTyped DEF ChildDepth
<1>4. \/ KindOf(k) = "change_status" /\ ChangeStatusEffect(k, d, t, s)
      \/ ChangeStatusNoop(t, s)
      \/ KindOf(k) = "assign" /\ AssignEffect(k, d, t)
      \/ KindOf(k) = "create_notification" /\ NotificationEffect(k)
  BY <1>2 DEF RunAction
<1> HIDE DEF e, k, d, t, s
<1>5. CASE KindOf(k) = "change_status" /\ ChangeStatusEffect(k, d, t, s)
  <2>1. PICK c \in Events :
          /\ outbox[c].state = "ABSENT"
          /\ outbox' = Append1(c, ChildDepth(d), "ticket.status_changed", t, s, k)
    BY <1>5 DEF ChangeStatusEffect
  <2>2. "ticket.status_changed" \in EventTypes
    BY DEF EventTypes
  <2>3. RowAdded(c, ChildDepth(d), k)
    BY <1>2, <1>3, <2>1, <2>2, AppendAdds DEF IInv
  <2>4. Caused(k, c)
    BY <1>2, <1>3, <1>5, <2>3 DEF Caused, ChangeStatusEffect
  <2> QED BY <1>2, <2>4 DEF EffectStep
<1>6. CASE ChangeStatusNoop(t, s)
  BY <1>6, SameRows DEF ChangeStatusNoop, EffectStep, Quiet
<1>7. CASE KindOf(k) = "assign" /\ AssignEffect(k, d, t)
  <2>1. PICK c \in Events :
          /\ outbox[c].state = "ABSENT"
          /\ outbox' = Append1(c, ChildDepth(d), "ticket.assigned", t, status[t], k)
    BY <1>7 DEF AssignEffect
  <2>2. "ticket.assigned" \in EventTypes /\ status[t] \in Statuses
    BY <1>2 DEF EventTypes, IInv, TypeOK
  <2>3. RowAdded(c, ChildDepth(d), k)
    BY <1>2, <1>3, <2>1, <2>2, AppendAdds DEF IInv
  <2>4. Caused(k, c)
    BY <1>2, <1>3, <1>7, <2>3 DEF Caused, AssignEffect
  <2> QED BY <1>2, <2>4 DEF EffectStep
<1>8. CASE KindOf(k) = "create_notification" /\ NotificationEffect(k)
  <2>1. Notified(k)
    BY <1>2, <1>8, SameRows DEF NotificationEffect, Notified
  <2> QED BY <1>2, <2>1 DEF EffectStep
<1> QED BY <1>4, <1>5, <1>6, <1>7, <1>8

LEMMA NextEffect == IInv /\ Next => EffectStep
<1> SUFFICES ASSUME IInv, Next PROVE EffectStep
  OBVIOUS
<1>1. ASSUME NEW w \in Workers, Step(w) PROVE EffectStep
  <2>1. CASE UNCHANGED <<outbox, applied>>
    BY <2>1, SameRows DEF EffectStep, Quiet
  <2>2. CASE ~ UNCHANGED <<outbox, applied>>
    <3>1. \/ ClaimBatch(w) \/ RunAction(w) \/ MarkProcessed(w) \/ RecordDeliveryFailure(w)
      BY <1>1, <2>2
      DEF Step, TakeEvent, EndBatch, FindExecution, CreateExecution, SkipConditions,
          ReadAttempt, ActionFails, RecordAttemptFailure, FinalizeExecution, CountFailures,
          AutoPause, EndWorkflows, ReadDelivery, rows
    <3> QED BY <3>1, ClaimBatchEffect, RunActionEffect, MarkProcessedEffect,
               RecordDeliveryFailureEffect
  <2> QED BY <2>1, <2>2
<1>2. CASE \E e \in Events : ExpireLease(e)
  BY <1>2, ExpireLeaseEffect
<1>3. CASE Environment
  <2>1. CASE UNCHANGED <<outbox, applied>>
    BY <2>1, SameRows DEF EffectStep, Quiet
  <2>2. CASE ~ UNCHANGED <<outbox, applied>>
    <3>1. \/ \E t \in Tickets, s \in Statuses : AgentChange(t, s)
          \/ \E e \in Events : Replay(e)
      BY <1>3, <2>2
      DEF Environment, SetEnabled, Crash, CreateFails, DispatchError, rows
    <3> QED BY <3>1, AgentChangeEffect, ReplayEffect
  <2> QED BY <2>1, <2>2
<1> QED BY <1>1, <1>2, <1>3 DEF Next

\* Only a worker that walks the workflows of a row within the budget writes
\* executions, and only of that row.
LEMMA NextExecution == IInv /\ Next => ExecutionStep
<1> SUFFICES ASSUME IInv, Next PROVE ExecutionStep
  OBVIOUS
<1>1. CASE UNCHANGED exec
  BY <1>1 DEF ExecutionStep
<1>2. CASE exec' # exec
  <2>1. PICK w \in Workers :
          CreateExecution(w) \/ SkipConditions(w) \/ FinalizeExecution(w)
    <3>1. ~ \E e \in Events : ExpireLease(e)
      BY <1>2 DEF ExpireLease
    <3>2. ~ Environment
      BY <1>2 DEF Environment, AgentChange, Replay, SetEnabled, Crash, CreateFails,
                  DispatchError, rows
    <3>3. PICK w \in Workers : Step(w)
      BY <3>1, <3>2 DEF Next
    <3> QED BY <1>2, <3>3
            DEF Step, ClaimBatch, TakeEvent, EndBatch, FindExecution, ReadAttempt, RunAction,
                ActionFails, RecordAttemptFailure, CountFailures, AutoPause, EndWorkflows,
                MarkProcessed, ReadDelivery, RecordDeliveryFailure, rows
  <2>2. /\ cur[w] \in Events /\ outbox[cur[w]].state # "ABSENT"
        /\ outbox[cur[w]].depth < MaxDepth
    <3>1. pc[w] \in {"create", "skip", "finalize"}
      BY <2>1 DEF CreateExecution, SkipConditions, FinalizeExecution
    <3> QED BY <3>1, LocalsKnown DEF MemoryOf, Resting, Walking
  <2>3. \A x \in Events \X Workflows : x # ExecOf(w) => exec'[x] = exec[x]
    BY <2>1 DEF CreateExecution, SkipConditions, FinalizeExecution, IInv, TypeOK
  <2>4. ExecOf(w)[1] = cur[w]
    BY DEF ExecOf
  <2> QED BY <2>2, <2>3, <2>4 DEF ExecutionStep
<1> QED BY <1>1, <1>2

-----------------------------------------------------------------------------
(* The invariant                                                           *)

LEMMA InitEffects == Init => EffectInv
<1> SUFFICES ASSUME Init PROVE EffectInv
  OBVIOUS
<1>1. \A e \in Events : outbox[e].state = "ABSENT"
  BY DEF Init, NoRow
<1>2. \A k \in Keys : applied[k] = 0 /\ ~KeyTaken(k)
  BY <1>1 DEF Init, KeyTaken
<1>3. EffectAtMostOnce
  BY <1>2 DEF EffectAtMostOnce
<1>4. EffectIffEvent
  BY <1>1, <1>2 DEF EffectIffEvent
<1>5. ExecutionsBounded /\ CausesRecorded
  BY <1>1 DEF Init, ExecutionsBounded, CausesRecorded
<1> QED BY <1>3, <1>4, <1>5 DEF EffectInv

\* KeyTaken when no row is added, and when one is.
LEMMA KeptKeys ==
  ASSUME RowsKept, NEW k \in Keys
  PROVE  KeyTaken(k)' <=> KeyTaken(k)
BY DEF RowsKept, KeyTaken

LEMMA AddedKeys ==
  ASSUME NEW c \in Events, NEW d, NEW j, RowAdded(c, d, j), NEW k \in Keys
  PROVE  KeyTaken(k)' <=> (KeyTaken(k) \/ k = j)
BY DEF RowAdded, KeyTaken

\* The two invariants about effects, over the forms of a step.
LEMMA EffectsKept ==
  ASSUME IInv, EffectAtMostOnce, EffectIffEvent, EffectStep
  PROVE  EffectAtMostOnce' /\ EffectIffEvent'
<1> DEFINE Once(k) == applied[k] <= 1
           Together(k) == (k[3] <= Len(Actions[k[2]]) /\ KindOf(k) \in {"change_status", "assign"})
                            => (applied[k] > 0 <=> KeyTaken(k))
           Alone(k) == \A c, d \in Events :
                         (outbox[c].state # "ABSENT" /\ outbox[d].state # "ABSENT"
                          /\ outbox[c].key = k /\ outbox[d].key = k) => c = d
<1>1. \A k \in Keys : Once(k) /\ Together(k) /\ Alone(k)
  BY DEF EffectAtMostOnce, EffectIffEvent, KindOf
<1>2. \A k \in Keys : applied[k] \in Nat
  BY DEF IInv, TypeOK
<1>3. SUFFICES ASSUME NEW k \in Keys PROVE Once(k)' /\ Together(k)' /\ Alone(k)'
  BY DEF EffectAtMostOnce, EffectIffEvent, KindOf
<1>4. CASE Quiet
  <2>1. Once(k)' /\ Together(k)'
    BY <1>1, <1>4, KeptKeys DEF Quiet, KindOf
  <2>2. Alone(k)'
    BY <1>1, <1>4 DEF Quiet, RowsKept
  <2> QED BY <2>1, <2>2
<1>5. ASSUME NEW c \in Events, Commanded(c) PROVE Once(k)' /\ Together(k)' /\ Alone(k)'
  <2>1. k # NoKey
    BY RuntimeConstants
  <2>2. Once(k)' /\ Together(k)'
    BY <1>1, <1>5, <2>1, AddedKeys DEF Commanded, KindOf
  <2>3. Alone(k)'
    BY <1>1, <1>5, <2>1 DEF Commanded, RowAdded
  <2> QED BY <2>2, <2>3
<1>6. ASSUME NEW j \in Keys, NEW c \in Events, Caused(j, c)
      PROVE  Once(k)' /\ Together(k)' /\ Alone(k)'
  <2>1. ~KeyTaken(j) /\ applied[j] = 0
    BY <1>1, <1>2, <1>6 DEF Caused, Acting
  <2>2. applied'[j] = 1 /\ \A i \in Keys \ {j} : applied'[i] = applied[i]
    BY <1>6, <2>1 DEF Caused, IInv, TypeOK
  <2>3. KeyTaken(k)' <=> (KeyTaken(k) \/ k = j)
    BY <1>6, AddedKeys DEF Caused
  <2>4. Once(k)' /\ Together(k)'
    BY <1>1, <2>2, <2>3 DEF KindOf
  <2>5. Alone(k)'
    <3>1. CASE k = j
      BY <1>6, <2>1, <3>1 DEF Caused, RowAdded, KeyTaken
    <3>2. CASE k # j
      BY <1>1, <1>6, <3>2 DEF Caused, RowAdded
    <3> QED BY <3>1, <3>2
  <2> QED BY <2>4, <2>5
<1>7. ASSUME NEW j \in Keys, Notified(j) PROVE Once(k)' /\ Together(k)' /\ Alone(k)'
  <2>1. applied'[k] <= 1 /\ (k # j => applied'[k] = applied[k])
    BY <1>1, <1>2, <1>7 DEF Notified, IInv, TypeOK
  <2>2. k = j => KindOf(k) = "create_notification"
    BY <1>7 DEF Notified
  <2>3. KeyTaken(k)' <=> KeyTaken(k)
    BY <1>7, KeptKeys DEF Notified
  <2>4. Together(k)'
    BY <1>1, <2>1, <2>2, <2>3 DEF KindOf
  <2>5. Alone(k)'
    BY <1>1, <1>7 DEF Notified, RowsKept
  <2> QED BY <2>1, <2>4, <2>5
<1> QED BY <1>4, <1>5, <1>6, <1>7 DEF EffectStep

\* The row of a key is an event.
LEMMA KeyTyped ==
  ASSUME NEW k \in Keys
  PROVE  k[1] \in Events /\ k[2] \in Workflows
BY DEF Keys

\* Over a step, recorded rows keep their identity; a new row is a command's or a
\* child of a recorded row within the budget.
LEMMA RowForms ==
  ASSUME IInv, EffectStep
  PROVE  \A e \in Events :
           \/ /\ (outbox'[e].state = "ABSENT") <=> (outbox[e].state = "ABSENT")
              /\ outbox'[e].depth = outbox[e].depth /\ outbox'[e].key = outbox[e].key
           \/ /\ outbox[e].state = "ABSENT" /\ outbox'[e].depth = 0 /\ outbox'[e].key = NoKey
           \/ /\ outbox[e].state = "ABSENT"
              /\ \E k \in Keys : /\ outbox'[e].key = k
                                 /\ outbox[k[1]].state # "ABSENT"
                                 /\ outbox'[e].depth = outbox[k[1]].depth + 1
<1>1. CASE Quiet
  BY <1>1 DEF Quiet, RowsKept
<1>2. ASSUME NEW c \in Events, Commanded(c)
      PROVE  /\ outbox[c].state = "ABSENT" /\ outbox'[c].depth = 0 /\ outbox'[c].key = NoKey
             /\ \A e \in Events \ {c} : outbox'[e] = outbox[e]
  BY <1>2 DEF Commanded, RowAdded
<1>3. ASSUME NEW k \in Keys, NEW c \in Events, Caused(k, c)
      PROVE  /\ outbox[c].state = "ABSENT" /\ outbox'[c].key = k
             /\ outbox[k[1]].state # "ABSENT" /\ outbox'[c].depth = outbox[k[1]].depth + 1
             /\ \A e \in Events \ {c} : outbox'[e] = outbox[e]
  BY <1>3 DEF Caused, Acting, RowAdded
<1>4. ASSUME NEW k \in Keys, Notified(k) PROVE RowsKept
  BY <1>4 DEF Notified
<1>5. CASE \E c \in Events : Commanded(c)
  BY <1>2, <1>5
<1>6. CASE \E k \in Keys, c \in Events : Caused(k, c)
  BY <1>3, <1>6
<1>7. CASE \E k \in Keys : Notified(k)
  BY <1>4, <1>7 DEF RowsKept
<1> QED BY <1>1, <1>5, <1>6, <1>7 DEF EffectStep

LEMMA BudgetKept ==
  ASSUME IInv, ExecutionsBounded, CausesRecorded, EffectStep, ExecutionStep, RowsPersist
  PROVE  ExecutionsBounded' /\ CausesRecorded'
<1>1. ExecutionsBounded'
  <2> SUFFICES ASSUME NEW x \in Events \X Workflows, exec'[x] # "NONE"
               PROVE  outbox'[x[1]].state # "ABSENT" /\ outbox'[x[1]].depth < MaxDepth
    BY DEF ExecutionsBounded
  <2>1. x[1] \in Events
    OBVIOUS
  <2>2. outbox[x[1]].state # "ABSENT" /\ outbox[x[1]].depth < MaxDepth
    BY DEF ExecutionsBounded, ExecutionStep
  <2> QED BY <2>1, <2>2 DEF RowsPersist
<1>2. CausesRecorded'
  <2> SUFFICES ASSUME NEW e \in Events, outbox'[e].state # "ABSENT", outbox'[e].key # NoKey
               PROVE  /\ outbox'[outbox'[e].key[1]].state # "ABSENT"
                      /\ outbox'[e].depth = outbox'[outbox'[e].key[1]].depth + 1
    BY DEF CausesRecorded
  <2>1. CASE /\ (outbox'[e].state = "ABSENT") <=> (outbox[e].state = "ABSENT")
             /\ outbox'[e].depth = outbox[e].depth /\ outbox'[e].key = outbox[e].key
    <3>1. outbox[e].state # "ABSENT" /\ outbox[e].key # NoKey
      BY <2>1
    <3>2. outbox[e].key \in Keys
      BY <3>1 DEF IInv, TypeOK, Row
    <3>3. outbox[e].key[1] \in Events
      BY <3>2, KeyTyped
    <3>4. /\ outbox[outbox[e].key[1]].state # "ABSENT"
          /\ outbox[e].depth = outbox[outbox[e].key[1]].depth + 1
      BY <3>1 DEF CausesRecorded
    <3> QED BY <2>1, <3>3, <3>4 DEF RowsPersist
  <2>2. ASSUME NEW k \in Keys, outbox'[e].key = k, outbox[k[1]].state # "ABSENT",
               outbox'[e].depth = outbox[k[1]].depth + 1
        PROVE  /\ outbox'[outbox'[e].key[1]].state # "ABSENT"
               /\ outbox'[e].depth = outbox'[outbox'[e].key[1]].depth + 1
    <3>1. k[1] \in Events
      BY KeyTyped
    <3> QED BY <2>2, <3>1 DEF RowsPersist
  <2> QED BY <2>1, <2>2, RowForms
<1> QED BY <1>1, <1>2

\* The inductive invariant of the runtime's effects.
THEOREM EffectsHold == Spec => [](IInv /\ EffectInv)
<1>1. Init => IInv /\ EffectInv
  BY InitTyped, InitEffects
<1>2. IInv /\ EffectInv /\ Next => (IInv /\ EffectInv)'
  <2> SUFFICES ASSUME IInv, EffectInv, Next PROVE IInv' /\ EffectInv'
    OBVIOUS
  <2>1. IInv' /\ RowsPersist /\ EffectStep /\ ExecutionStep
    BY NextTyped, NextEffect, NextExecution
  <2>2. EffectAtMostOnce' /\ EffectIffEvent'
    BY <2>1, EffectsKept DEF EffectInv
  <2>3. ExecutionsBounded' /\ CausesRecorded'
    BY <2>1, BudgetKept DEF EffectInv
  <2> QED BY <2>1, <2>2, <2>3 DEF EffectInv
<1>3. IInv /\ EffectInv /\ UNCHANGED vars => (IInv /\ EffectInv)'
  <2> SUFFICES ASSUME IInv, EffectInv, UNCHANGED vars PROVE IInv' /\ EffectInv'
    OBVIOUS
  <2>1. EffectStep /\ ExecutionStep /\ RowsPersist
    BY SameRows, RowsUnchanged DEF vars, EffectStep, Quiet, ExecutionStep
  <2>2. EffectAtMostOnce' /\ EffectIffEvent' /\ ExecutionsBounded' /\ CausesRecorded'
    BY <2>1, EffectsKept, BudgetKept DEF EffectInv
  <2> QED BY <2>2, StutterTyped DEF EffectInv
<1> QED BY <1>1, <1>2, <1>3, PTL DEF Spec

\* Exactly-once effects: whatever is crashed, replayed, stolen or run by two
\* processes at a time, one action takes effect at most once for one event.
THEOREM AtMostOnce == Spec => []EffectAtMostOnce
<1>1. EffectInv => EffectAtMostOnce
  BY DEF EffectInv
<1> QED BY EffectsHold, <1>1, PTL

\* Transactional outbox: a ticket write of an action and its event exist together.
THEOREM EffectWithEvent == Spec => []EffectIffEvent
<1>1. EffectInv => EffectIffEvent
  BY DEF EffectInv
<1> QED BY EffectsHold, <1>1, PTL

\* Recursion budget: automation is exactly one level deeper with every event it
\* causes, and a row at the limit runs no workflow.
THEOREM Bounded == Spec => []AutomationBounded
<1>1. IInv /\ EffectInv => AutomationBounded
  <2> SUFFICES ASSUME IInv, EffectInv, NEW e \in Events, outbox[e].state # "ABSENT"
               PROVE  /\ outbox[e].depth = MaxDepth => \A v \in Workflows : exec[<<e, v>>] = "NONE"
                      /\ outbox[e].key # NoKey => outbox[e].depth = outbox[outbox[e].key[1]].depth + 1
    BY DEF AutomationBounded
  <2>1. ASSUME NEW v \in Workflows, outbox[e].depth = MaxDepth PROVE exec[<<e, v>>] = "NONE"
    <3>1. <<e, v>> \in Events \X Workflows /\ <<e, v>>[1] = e
      OBVIOUS
    <3>2. ~(outbox[e].depth < MaxDepth)
      BY <2>1, RuntimeConstants
    <3> QED BY <3>1, <3>2 DEF EffectInv, ExecutionsBounded
  <2> QED BY <2>1 DEF EffectInv, CausesRecorded
<1> QED BY EffectsHold, <1>1, PTL

-----------------------------------------------------------------------------
(* The runtime implements the promise                                      *)

LEMMA InitPromise == Init => Promise!PromiseInit
<1> SUFFICES ASSUME Init PROVE Promise!PromiseInit
  OBVIOUS
<1>1. \A e \in Events : outbox[e] = NoRow
  BY DEF Init
<1>2. 0 \in 0..MaxDepth
  BY RuntimeConstants
<1>3. NoRow.state = "ABSENT" /\ NoRow.depth = 0 /\ NoRow.key = NoKey
  BY DEF NoRow
<1> QED BY <1>1, <1>2, <1>3 DEF Promise!PromiseInit, Init

LEMMA StepPromise ==
  ASSUME IInv, EffectInv, IInv', EffectStep
  PROVE  Promise!PromiseNext \/ UNCHANGED Promise!promiseVars
<1>0. /\ \A e \in Events : outbox[e] \in Row /\ outbox'[e] \in Row
      /\ \A k \in Keys : applied[k] \in Nat
      /\ applied = [k \in Keys |-> applied[k]]
  BY DEF IInv, TypeOK
<1>1. ASSUME RowsKept
      PROVE  /\ {e \in Events : outbox'[e].state # "ABSENT"} = {e \in Events : outbox[e].state # "ABSENT"}
             /\ [e \in Events |-> outbox'[e].depth] = [e \in Events |-> outbox[e].depth]
             /\ [e \in Events |-> outbox'[e].key] = [e \in Events |-> outbox[e].key]
  BY <1>1 DEF RowsKept
<1>2. CASE Quiet
  BY <1>1, <1>2 DEF Quiet, Promise!promiseVars
<1>3. ASSUME NEW c \in Events, NEW d, NEW k, RowAdded(c, d, k)
      PROVE  Promise!RecordEvent(c, d, k)
  BY <1>3 DEF RowAdded, Promise!RecordEvent
<1>4. ASSUME NEW c \in Events, Commanded(c) PROVE Promise!PromiseNext
  BY <1>3, <1>4 DEF Commanded, Promise!Command, Promise!PromiseNext
<1>5. ASSUME NEW k \in Keys, NEW c \in Events, Caused(k, c) PROVE Promise!PromiseNext
  <2>1. k[1] \in Events
    BY KeyTyped
  <2>2. applied[k] = 0
    BY <1>0, <1>5 DEF Caused, Acting, KindOf, EffectInv, EffectIffEvent
  <2>3. Promise!Pending(k)
    BY <1>5, <2>1, <2>2 DEF Caused, Acting, Promise!Pending
  <2>4. Promise!RecordEvent(c, outbox[k[1]].depth + 1, k)
    BY <1>3, <1>5 DEF Caused
  <2>5. applied' = [applied EXCEPT ![k] = 1]
    BY <1>5, <2>2 DEF Caused
  <2>6. [e \in Events |-> outbox[e].depth][k[1]] = outbox[k[1]].depth
    BY <2>1
  <2>7. Promise!CauseEvent(k, c)
    BY <2>3, <2>4, <2>5, <2>6 DEF Promise!CauseEvent
  <2> QED BY <2>7 DEF Promise!PromiseNext
<1>6. ASSUME NEW k \in Keys, Notified(k)
      PROVE  Promise!PromiseNext \/ UNCHANGED Promise!promiseVars
  <2>1. k[1] \in Events
    BY KeyTyped
  <2>2. CASE applied[k] = 0
    <3>1. Promise!Pending(k)
      BY <1>6, <2>1, <2>2 DEF Notified, Acting, Promise!Pending
    <3>2. Promise!Notify(k)
      BY <1>1, <1>6, <2>2, <3>1 DEF Notified, Promise!Notify
    <3> QED BY <3>2 DEF Promise!PromiseNext
  <2>3. CASE applied[k] # 0
    <3>1. applied' = applied
      BY <1>0, <1>6, <2>3 DEF Notified
    <3> QED BY <1>1, <1>6, <3>1 DEF Notified, Promise!promiseVars
  <2> QED BY <2>2, <2>3
<1> QED BY <1>2, <1>4, <1>5, <1>6 DEF EffectStep

\* Refinement: for every instance, the outbox, the leases, the workers and all
\* their failures together do nothing the promise does not allow.
THEOREM RuntimeKeepsPromise == Spec => KeepsPromise
<1>1. (IInv /\ EffectInv) /\ (IInv /\ EffectInv)' /\ [Next]_vars
        => [Promise!PromiseNext]_(Promise!promiseVars)
  <2> SUFFICES ASSUME IInv, EffectInv, IInv', [Next]_vars
               PROVE  Promise!PromiseNext \/ UNCHANGED Promise!promiseVars
    OBVIOUS
  <2>1. CASE Next
    BY <2>1, NextEffect, StepPromise
  <2>2. CASE UNCHANGED vars
    BY <2>2 DEF vars, Promise!promiseVars
  <2> QED BY <2>1, <2>2
<1> QED BY InitPromise, EffectsHold, <1>1, PTL DEF Spec, KeepsPromise, Promise!PromiseSpec
=============================================================================
