----------------------- MODULE WorkflowRuntime_proofs -----------------------
(* Proofs about the workflow runtime.                                      *)
EXTENDS WorkflowRuntime, SequenceTheorems, TLAPS

-----------------------------------------------------------------------------
(* What a worker's locals say about the rows                               *)

Resting    == {"idle", "batch"}
Walking    == {"workflow", "create", "skip", "attempt", "act", "record", "finalize",
               "count", "pause"}
AtWorkflow == Walking \ {"workflow"}
AtAction   == {"attempt", "act", "record"}

\* The rows a worker has in memory exist; the one it walks the workflows for is
\* within the automation budget; its ordinal is that of an action.
MemoryOf(w) ==
  /\ \A e \in batch[w] : outbox[e].state # "ABSENT"
  /\ pc[w] \notin Resting => cur[w] \in Events /\ outbox[cur[w]].state # "ABSENT"
  /\ pc[w] \in Walking => outbox[cur[w]].depth < MaxDepth
  /\ pc[w] \in AtWorkflow => run[w].wf \in Workflows
  /\ pc[w] \in AtAction => run[w].ord \in 1..Len(Actions[run[w].wf])

MemoryOK == \A w \in Workers : MemoryOf(w)

IInv == TypeOK /\ MemoryOK

\* Rows are never deleted, and what an event is and carries never changes.
RowsPersist ==
  \A e \in Events : outbox[e].state # "ABSENT" =>
    /\ outbox'[e].state # "ABSENT"
    /\ outbox'[e].depth = outbox[e].depth
    /\ outbox'[e].key = outbox[e].key
    /\ outbox'[e].status = outbox[e].status

-----------------------------------------------------------------------------
(* Helpers                                                                 *)

\* An action of a workflow is an action record, and its ordinal is a key's.
LEMMA ActionTyped ==
  ASSUME NEW v \in Workflows, NEW i \in 1..Len(Actions[v])
  PROVE  /\ Actions[v][i] \in [kind : ActionKinds, to : Statuses]
         /\ i \in Ordinals
<1>1. Actions[v] \in Seq([kind : ActionKinds, to : Statuses])
  BY RuntimeConstants
<1>2. Len(Actions[v]) \in Nat /\ Len(Actions[v]) <= MaxOrdinal
  BY <1>1, RuntimeConstants
<1>3. i \in Ordinals
  BY <1>2, RuntimeConstants DEF Ordinals
<1>4. Actions[v][i] \in [kind : ActionKinds, to : Statuses]
  BY <1>1, ElementOfSeq
<1> QED BY <1>3, <1>4

\* A row appended in an unused place is a row, and leaves the others alone.
LEMMA AppendTyped ==
  ASSUME TypeOK,
         NEW c \in Events, outbox[c].state = "ABSENT",
         NEW d \in 0..MaxDepth, NEW ty \in EventTypes, NEW t \in Tickets,
         NEW s \in Statuses, NEW k \in Keys \cup {NoKey},
         outbox' = Append1(c, d, ty, t, s, k)
  PROVE  /\ outbox' \in [Events -> Row]
         /\ RowsPersist
         /\ outbox'[c] = [state |-> "PENDING", depth |-> d, type |-> ty, ticket |-> t,
                          status |-> s, key |-> k, tries |-> 0, lease |-> FALSE]
         /\ \A e \in Events \ {c} : outbox'[e] = outbox[e]
<1>1. 0 \in 0..MaxDeliveries
  BY RuntimeConstants
<1>2. [state |-> "PENDING", depth |-> d, type |-> ty, ticket |-> t,
       status |-> s, key |-> k, tries |-> 0, lease |-> FALSE] \in Row
  BY <1>1 DEF Row, OutboxStates
<1> QED BY <1>2 DEF TypeOK, Append1, RowsPersist

\* What the updates of a row leave alone.
SameEvent(r, q) ==
  /\ r \in Row /\ r.state # "ABSENT"
  /\ r.depth = q.depth /\ r.type = q.type /\ r.ticket = q.ticket
  /\ r.status = q.status /\ r.key = q.key

\* Updating the state, the attempts or the lease of a row keeps it a row.
LEMMA UpdateTyped ==
  ASSUME NEW q \in Row, NEW st \in OutboxStates, NEW n \in 0..MaxDeliveries, NEW l \in BOOLEAN
  PROVE  SameEvent([q EXCEPT !.state = st, !.tries = n, !.lease = l], q)
BY DEF SameEvent, Row, OutboxStates

LEMMA LeaseTyped ==
  ASSUME NEW q \in Row, NEW st \in OutboxStates, NEW l \in BOOLEAN
  PROVE  SameEvent([q EXCEPT !.state = st, !.lease = l], q)
BY DEF SameEvent, Row, OutboxStates

LEMMA RowUpdated ==
  ASSUME TypeOK, NEW e \in Events, NEW r, SameEvent(r, outbox[e]),
         outbox' = [outbox EXCEPT ![e] = r]
  PROVE  outbox' \in [Events -> Row] /\ RowsPersist
BY DEF TypeOK, SameEvent, RowsPersist

\* A counter that saturates stays within its limit.
LEMMA SaturateTyped ==
  ASSUME NEW n \in Nat, NEW limit \in Nat
  PROVE  Saturate(n, limit) \in 0..limit
BY DEF Saturate

-----------------------------------------------------------------------------

LEMMA InitTyped == Init => IInv
<1> SUFFICES ASSUME Init PROVE IInv
  OBVIOUS
<1>1. NoRow \in Row
  <2>1. (CHOOSE t \in Tickets : TRUE) \in Tickets /\ (CHOOSE s \in Statuses : TRUE) \in Statuses
    BY RuntimeConstants
  <2> QED BY <2>1, RuntimeConstants DEF NoRow, Row, EventTypes
<1>2. NoAttempt \in Attempt
  BY RuntimeConstants DEF NoAttempt, Attempt, AttemptStates
<1>3. NoRun \in Run
  BY DEF NoRun, Run
<1>4. TypeOK
  BY <1>1, <1>2, <1>3, RuntimeConstants DEF Init, TypeOK, Positions
<1>5. MemoryOK
  BY DEF Init, MemoryOK, MemoryOf, Resting, Walking, AtWorkflow, AtAction
<1> QED BY <1>4, <1>5 DEF IInv

-----------------------------------------------------------------------------
(* Every step preserves the invariant                                      *)

\* A worker whose locals a step leaves alone still has its rows.
LEMMA OthersKeep ==
  ASSUME TypeOK, RowsPersist, NEW x \in Workers, MemoryOf(x),
         pc'[x] = pc[x], batch'[x] \subseteq batch[x], cur'[x] = cur[x], run'[x] = run[x]
  PROVE  MemoryOf(x)'
BY DEF TypeOK, RowsPersist, MemoryOf, Resting, Walking

\* A step of one worker: it is enough to look at that worker.
LEMMA WorkerStep ==
  ASSUME IInv, NEW w \in Workers, RowsPersist, MemoryOf(w)',
         \A x \in Workers \ {w} : /\ pc'[x] = pc[x] /\ batch'[x] = batch[x]
                                   /\ cur'[x] = cur[x] /\ run'[x] = run[x]
  PROVE  MemoryOK'
<1> SUFFICES ASSUME NEW x \in Workers PROVE MemoryOf(x)'
  BY DEF MemoryOK
<1>1. CASE x = w
  BY <1>1
<1>2. CASE x # w
  BY <1>2, OthersKeep DEF IInv, MemoryOK
<1> QED BY <1>1, <1>2

\* A step that changes no local and no identity of a row.
LEMMA EnvironmentStep ==
  ASSUME IInv, RowsPersist, UNCHANGED <<pc, batch, cur, run>>
  PROVE  MemoryOK'
BY OthersKeep DEF IInv, MemoryOK

LEMMA AgentChangeTyped ==
  ASSUME IInv, NEW t \in Tickets, NEW s \in Statuses, AgentChange(t, s)
  PROVE  IInv' /\ RowsPersist
<1>1. PICK c \in Events :
        /\ outbox[c].state = "ABSENT"
        /\ outbox' = Append1(c, 0, "ticket.status_changed", t, s, NoKey)
  BY DEF AgentChange
<1>2. 0 \in 0..MaxDepth /\ "ticket.status_changed" \in EventTypes
  BY RuntimeConstants DEF EventTypes
<1>3. outbox' \in [Events -> Row] /\ RowsPersist
  BY <1>1, <1>2, AppendTyped DEF IInv
<1>4. TypeOK'
  BY <1>3 DEF IInv, TypeOK, AgentChange, locals
<1> QED BY <1>3, <1>4, EnvironmentStep DEF IInv, AgentChange, locals

LEMMA ReplayTyped ==
  ASSUME IInv, NEW e \in Events, Replay(e)
  PROVE  IInv' /\ RowsPersist
<1>1. 0 \in 0..MaxDeliveries
  BY RuntimeConstants
<1>2. outbox' \in [Events -> Row] /\ RowsPersist
  <2> DEFINE r == [outbox[e] EXCEPT !.state = "PENDING", !.tries = 0, !.lease = FALSE]
  <2>1. outbox' = [outbox EXCEPT ![e] = r]
    BY DEF Replay
  <2>2. outbox[e] \in Row /\ "PENDING" \in OutboxStates
    BY DEF IInv, TypeOK, OutboxStates
  <2>3. SameEvent(r, outbox[e])
    BY <1>1, <2>2, UpdateTyped
  <2> HIDE DEF r
  <2> QED BY <2>1, <2>3, RowUpdated DEF IInv
<1>3. budget' \in 0..MaxDisturbances
  BY RuntimeConstants DEF IInv, TypeOK, Replay, Disturb
<1>4. TypeOK'
  BY <1>2, <1>3 DEF IInv, TypeOK, Replay, locals
<1> QED BY <1>2, <1>4, EnvironmentStep DEF IInv, Replay, locals

LEMMA SetEnabledTyped ==
  ASSUME IInv, NEW v \in Workflows, NEW b \in BOOLEAN, SetEnabled(v, b)
  PROVE  IInv' /\ RowsPersist
<1>1. budget' \in 0..MaxDisturbances
  BY RuntimeConstants DEF IInv, TypeOK, SetEnabled, Disturb
<1>2. TypeOK'
  BY <1>1 DEF IInv, TypeOK, SetEnabled, locals
<1>3. RowsPersist
  BY DEF SetEnabled, RowsPersist
<1> QED BY <1>2, <1>3, EnvironmentStep DEF IInv, SetEnabled, locals

LEMMA ExpireLeaseTyped ==
  ASSUME IInv, NEW e \in Events, ExpireLease(e)
  PROVE  IInv' /\ RowsPersist
<1>1. outbox' \in [Events -> Row] /\ RowsPersist
  <2> DEFINE r == [outbox[e] EXCEPT !.lease = FALSE]
  <2>1. outbox' = [outbox EXCEPT ![e] = r]
    BY DEF ExpireLease
  <2>2. SameEvent(r, outbox[e])
    <3>1. outbox[e] \in Row /\ outbox[e].state # "ABSENT"
      BY DEF IInv, TypeOK, ExpireLease
    <3> QED BY <3>1 DEF SameEvent, Row
  <2> HIDE DEF r
  <2> QED BY <2>1, <2>2, RowUpdated DEF IInv
<1>2. TypeOK'
  BY <1>1 DEF IInv, TypeOK, ExpireLease, locals
<1> QED BY <1>1, <1>2, EnvironmentStep DEF IInv, ExpireLease, locals

LEMMA ClaimBatchTyped ==
  ASSUME IInv, NEW w \in Workers, ClaimBatch(w)
  PROVE  IInv' /\ RowsPersist
<1>1. PICK S \in SUBSET {e \in Events : Claimable(e)} :
        /\ outbox' = [e \in Events |->
                        IF e \in S THEN [outbox[e] EXCEPT !.state = "CLAIMED", !.lease = TRUE]
                                   ELSE outbox[e]]
        /\ batch' = [batch EXCEPT ![w] = S]
  BY DEF ClaimBatch
<1>2. \A e \in S : SameEvent([outbox[e] EXCEPT !.state = "CLAIMED", !.lease = TRUE], outbox[e])
  BY LeaseTyped DEF IInv, TypeOK, OutboxStates
<1>3. outbox' \in [Events -> Row] /\ RowsPersist
  BY <1>1, <1>2 DEF IInv, TypeOK, SameEvent, RowsPersist
<1>4. TypeOK'
  BY <1>1, <1>3 DEF IInv, TypeOK, ClaimBatch, Move, Positions
<1>5. MemoryOf(w)'
  <2>1. pc'[w] = "batch" /\ batch'[w] = S
    BY <1>1 DEF IInv, TypeOK, ClaimBatch, Move
  <2>2. \A e \in S : outbox[e].state # "ABSENT"
    BY DEF Claimable
  <2> QED BY <1>3, <2>1, <2>2 DEF RowsPersist, MemoryOf, Resting, Walking, AtWorkflow, AtAction
<1>6. MemoryOK'
  BY <1>1, <1>3, <1>5, WorkerStep DEF ClaimBatch, Move, IInv, TypeOK
<1> QED BY <1>3, <1>4, <1>6 DEF IInv

LEMMA RowsUnchanged == ASSUME UNCHANGED outbox PROVE RowsPersist
BY DEF RowsPersist

\* The loop over the actions stands at an action or is over.
LEMMA ActionAtTyped ==
  ASSUME NEW v \in Workflows, NEW n \in Nat \ {0}
  PROVE  /\ ActionAt(v, n) \in {"finalize", "attempt"}
         /\ ActionAt(v, n) = "attempt" => n \in 1..Len(Actions[v])
<1>1. Len(Actions[v]) \in Nat
  BY RuntimeConstants
<1> QED BY <1>1 DEF ActionAt

\* NextWorkflow, NextOrdinal, Release and EnterExecution leave good locals.
LEMMA NextWorkflowTyped ==
  ASSUME IInv, NEW w \in Workers, NextWorkflow(w), pc[w] \in Walking, RowsPersist,
         UNCHANGED <<batch, cur>>
  PROVE  /\ pc' \in [Workers -> Positions] /\ plan' \in [Workers -> SUBSET Workflows]
         /\ run' \in [Workers -> Run]
         /\ MemoryOK'
<1>1. NoRun \in Run
  BY DEF NoRun, Run
<1>2. /\ pc' \in [Workers -> Positions] /\ plan' \in [Workers -> SUBSET Workflows]
      /\ run' \in [Workers -> Run]
  BY <1>1 DEF IInv, TypeOK, NextWorkflow, Move, Positions
<1>3. pc'[w] = "workflow"
  BY DEF IInv, TypeOK, NextWorkflow, Move
<1>4. MemoryOf(w)'
  BY <1>3 DEF IInv, TypeOK, MemoryOK, MemoryOf, RowsPersist, Resting, Walking, AtWorkflow, AtAction
<1> QED BY <1>2, <1>4, WorkerStep DEF NextWorkflow, Move, IInv, TypeOK

LEMMA RunTyped ==
  ASSUME NEW q \in Run, NEW n \in Nat, NEW a \in BOOLEAN, NEW b \in BOOLEAN
  PROVE  [q EXCEPT !.ord = n, !.ok = a, !.bad = b] \in Run
BY DEF Run

\* What is known of one worker's locals.
LEMMA LocalsKnown ==
  ASSUME IInv, NEW w \in Workers
  PROVE  /\ pc[w] \in Positions /\ run[w] \in Run /\ plan[w] \in SUBSET Workflows
         /\ batch[w] \in SUBSET Events /\ MemoryOf(w)
BY DEF IInv, TypeOK, MemoryOK

LEMMA NextOrdinalTyped ==
  ASSUME IInv, NEW w \in Workers, NEW o \in {"ok", "bad"}, NextOrdinal(w, o),
         pc[w] \in AtAction, RowsPersist, UNCHANGED <<batch, cur>>
  PROVE  /\ pc' \in [Workers -> Positions]
         /\ run' \in [Workers -> Run]
         /\ MemoryOK'
<1> DEFINE v == run[w].wf
           n == run[w].ord + 1
<1>1. /\ v \in Workflows /\ n \in Nat \ {0}
      /\ cur[w] \in Events /\ outbox[cur[w]].state # "ABSENT" /\ outbox[cur[w]].depth < MaxDepth
  BY LocalsKnown DEF Run, MemoryOf, Resting, Walking, AtWorkflow, AtAction
<1>2. /\ ActionAt(v, n) \in {"finalize", "attempt"}
      /\ ActionAt(v, n) = "attempt" => n \in 1..Len(Actions[v])
  BY <1>1, ActionAtTyped
<1>3. pc'[w] = ActionAt(v, n) /\ run'[w].wf = v /\ run'[w].ord = n
  BY DEF NextOrdinal, Move, IInv, TypeOK, Run
<1>4. pc' \in [Workers -> Positions]
  BY <1>2 DEF IInv, TypeOK, NextOrdinal, Move, Positions
<1>5. run' \in [Workers -> Run]
  <2> DEFINE a == run[w].ok \/ o = "ok"
             b == run[w].bad \/ o = "bad"
  <2>1. run' = [run EXCEPT ![w] = [run[w] EXCEPT !.ord = n, !.ok = a, !.bad = b]]
    BY DEF NextOrdinal
  <2>2. run[w] \in Run /\ n \in Nat /\ a \in BOOLEAN /\ b \in BOOLEAN
    BY <1>1, LocalsKnown
  <2> HIDE DEF n, a, b
  <2>3. [run[w] EXCEPT !.ord = n, !.ok = a, !.bad = b] \in Run
    BY <2>2, RunTyped
  <2> QED BY <2>1, <2>3 DEF IInv, TypeOK
<1>6. MemoryOf(w)'
  BY <1>1, <1>2, <1>3 DEF IInv, TypeOK, MemoryOK, MemoryOf, RowsPersist, Resting, Walking, AtWorkflow, AtAction
<1> QED BY <1>4, <1>5, <1>6, WorkerStep DEF NextOrdinal, Move, IInv, TypeOK

LEMMA ReleaseTyped ==
  ASSUME IInv, NEW w \in Workers, Release(w), RowsPersist, UNCHANGED batch
  PROVE  /\ pc' \in [Workers -> Positions] /\ plan' \in [Workers -> SUBSET Workflows]
         /\ run' \in [Workers -> Run] /\ cur' \in [Workers -> Events \cup {NoEvent}]
         /\ MemoryOK'
<1>1. NoRun \in Run
  BY DEF NoRun, Run
<1>2. /\ pc' \in [Workers -> Positions] /\ plan' \in [Workers -> SUBSET Workflows]
      /\ run' \in [Workers -> Run] /\ cur' \in [Workers -> Events \cup {NoEvent}]
  BY <1>1 DEF IInv, TypeOK, Release, Move, Positions
<1>3. pc'[w] = "batch"
  BY DEF IInv, TypeOK, Release, Move
<1>4. MemoryOf(w)'
  BY <1>3 DEF IInv, TypeOK, MemoryOK, MemoryOf, RowsPersist, Resting, Walking, AtWorkflow, AtAction
<1> QED BY <1>2, <1>4, WorkerStep DEF Release, Move, IInv, TypeOK

LEMMA EnterExecutionTyped ==
  ASSUME IInv, NEW w \in Workers, NEW v \in Workflows, EnterExecution(w, v),
         pc[w] \in Walking, RowsPersist, UNCHANGED <<batch, cur>>
  PROVE  /\ pc' \in [Workers -> Positions]
         /\ run' \in [Workers -> Run]
         /\ MemoryOK'
<1>1. /\ ActionAt(v, 1) \in {"finalize", "attempt"}
      /\ ActionAt(v, 1) = "attempt" => 1 \in 1..Len(Actions[v])
  BY ActionAtTyped
<1>2. pc'[w] \in {"skip", ActionAt(v, 1)} /\ run'[w] = [NoRun EXCEPT !.wf = v]
  BY DEF EnterExecution, Move, IInv, TypeOK
<1>3. [NoRun EXCEPT !.wf = v] \in Run
  BY DEF NoRun, Run
<1>4. pc' \in [Workers -> Positions] /\ run' \in [Workers -> Run]
  BY <1>1, <1>3 DEF IInv, TypeOK, EnterExecution, Move, Positions
<1>5. run'[w].wf = v /\ run'[w].ord = 1
  BY <1>2 DEF NoRun
<1>6. MemoryOf(w)'
  BY <1>1, <1>2, <1>5 DEF IInv, TypeOK, MemoryOK, MemoryOf, RowsPersist, Resting, Walking, AtWorkflow, AtAction
<1> QED BY <1>4, <1>6, WorkerStep DEF EnterExecution, Move, IInv, TypeOK

-----------------------------------------------------------------------------
(* The steps of dispatchOutboxEvent                                        *)

LEMMA EndBatchTyped ==
  ASSUME IInv, NEW w \in Workers, EndBatch(w)
  PROVE  IInv' /\ RowsPersist
<1>1. RowsPersist
  BY RowsUnchanged DEF EndBatch, rows
<1>2. TypeOK'
  BY DEF IInv, TypeOK, EndBatch, Move, rows, locals, Positions
<1>3. pc'[w] = "idle" /\ \A x \in Workers \ {w} : pc'[x] = pc[x]
  BY DEF IInv, TypeOK, EndBatch, Move
<1>4. MemoryOf(w)'
  BY <1>3, LocalsKnown DEF EndBatch, rows, locals, MemoryOf, Resting, Walking, AtWorkflow, AtAction
<1> QED BY <1>1, <1>2, <1>3, <1>4, WorkerStep DEF IInv, EndBatch, locals

LEMMA TakeEventTyped ==
  ASSUME IInv, NEW w \in Workers, TakeEvent(w)
  PROVE  IInv' /\ RowsPersist
<1>1. PICK e \in batch[w] :
        /\ batch' = [batch EXCEPT ![w] = @ \ {e}]
        /\ cur' = [cur EXCEPT ![w] = e]
        /\ IF Capped(outbox[e].depth)
           THEN Move(w, "mark") /\ UNCHANGED plan
           ELSE Move(w, "workflow") /\ plan' = [plan EXCEPT ![w] = Matching(e)]
  BY DEF TakeEvent
<1>2. RowsPersist
  BY RowsUnchanged DEF TakeEvent, rows
<1>3. e \in Events /\ outbox[e] \in Row /\ outbox[e].state # "ABSENT" /\ outbox[e].depth \in 0..MaxDepth
  BY LocalsKnown DEF MemoryOf, IInv, TypeOK, Row
<1>4. /\ pc' \in [Workers -> Positions] /\ plan' \in [Workers -> SUBSET Workflows]
      /\ batch' \in [Workers -> SUBSET Events] /\ cur' \in [Workers -> Events \cup {NoEvent}]
  <2>1. Matching(e) \in SUBSET Workflows
    BY DEF Matching
  <2> QED BY <1>1, <1>3, <2>1 DEF IInv, TypeOK, Move, Positions
<1>5. TypeOK'
  BY <1>4 DEF IInv, TypeOK, TakeEvent, rows
<1>6. /\ pc'[w] \in {"mark", "workflow"}
      /\ pc'[w] = "workflow" => ~Capped(outbox[e].depth)
      /\ cur'[w] = e /\ batch'[w] \subseteq batch[w]
  BY <1>1 DEF IInv, TypeOK, Move
<1>7. pc'[w] = "workflow" => outbox[e].depth < MaxDepth
  BY <1>3, <1>6, RuntimeConstants DEF Capped
<1>8. MemoryOf(w)'
  BY <1>3, <1>6, <1>7, LocalsKnown
  DEF TakeEvent, rows, MemoryOf, Resting, Walking, AtWorkflow, AtAction
<1>9. \A x \in Workers \ {w} : /\ pc'[x] = pc[x] /\ batch'[x] = batch[x]
                               /\ cur'[x] = cur[x] /\ run'[x] = run[x]
  BY <1>1 DEF IInv, TypeOK, Move, TakeEvent
<1> QED BY <1>2, <1>5, <1>8, <1>9, WorkerStep DEF IInv

LEMMA FindExecutionTyped ==
  ASSUME IInv, NEW w \in Workers, FindExecution(w)
  PROVE  IInv' /\ RowsPersist
<1>1. RowsPersist
  BY RowsUnchanged DEF FindExecution, rows
<1>2. PICK v \in plan[w] :
        \/ plan' = [plan EXCEPT ![w] = @ \ {v}] /\ UNCHANGED <<run, pc>>
        \/ EnterExecution(w, v) /\ UNCHANGED plan
        \/ run' = [run EXCEPT ![w].wf = v] /\ Move(w, "create") /\ UNCHANGED plan
  BY DEF FindExecution
<1>3. v \in Workflows /\ pc[w] = "workflow" /\ UNCHANGED <<batch, cur>>
  BY LocalsKnown DEF FindExecution
<1>4. CASE plan' = [plan EXCEPT ![w] = @ \ {v}] /\ UNCHANGED <<run, pc>>
  <2>1. TypeOK'
    BY <1>3, <1>4 DEF IInv, TypeOK, FindExecution, rows
  <2> QED BY <1>1, <1>3, <1>4, <2>1, EnvironmentStep DEF IInv
<1>5. CASE EnterExecution(w, v) /\ UNCHANGED plan
  <2>1. pc' \in [Workers -> Positions] /\ run' \in [Workers -> Run] /\ MemoryOK'
    BY <1>1, <1>3, <1>5, EnterExecutionTyped DEF Walking
  <2>2. TypeOK'
    BY <1>3, <1>5, <2>1 DEF IInv, TypeOK, FindExecution, rows
  <2> QED BY <1>1, <2>1, <2>2 DEF IInv
<1>6. CASE run' = [run EXCEPT ![w].wf = v] /\ Move(w, "create") /\ UNCHANGED plan
  <2>1. pc' \in [Workers -> Positions] /\ run' \in [Workers -> Run]
    <3>1. pc' \in [Workers -> Positions]
      BY <1>6 DEF IInv, TypeOK, Move, Positions
    <3>2. [run[w] EXCEPT !.wf = v] \in Run
      BY <1>3 DEF IInv, TypeOK, Run
    <3>3. run' = [run EXCEPT ![w] = [run[w] EXCEPT !.wf = v]]
      BY <1>6
    <3> QED BY <3>1, <3>2, <3>3 DEF IInv, TypeOK
  <2>2. TypeOK'
    BY <1>3, <1>6, <2>1 DEF IInv, TypeOK, FindExecution, rows
  <2>3. /\ pc'[w] = "create" /\ run'[w].wf = v
        /\ \A x \in Workers \ {w} : pc'[x] = pc[x] /\ run'[x] = run[x]
    BY <1>6 DEF IInv, TypeOK, Move, Run
  <2>4. MemoryOf(w)'
    BY <1>3, <2>3, LocalsKnown
    DEF FindExecution, rows, MemoryOf, Resting, Walking, AtWorkflow, AtAction
  <2> QED BY <1>1, <1>3, <2>2, <2>3, <2>4, WorkerStep DEF IInv
<1> QED BY <1>2, <1>4, <1>5, <1>6

\* Steps that end a workflow and at most write one execution or workflow row.
LEMMA CreateExecutionTyped ==
  ASSUME IInv, NEW w \in Workers, CreateExecution(w)
  PROVE  IInv' /\ RowsPersist
<1>1. RowsPersist
  BY RowsUnchanged DEF CreateExecution
<1>2. pc[w] = "create" /\ run[w].wf \in Workflows /\ ExecOf(w) \in Events \X Workflows
  BY LocalsKnown DEF CreateExecution, MemoryOf, Resting, AtWorkflow, Walking, ExecOf
<1>3. CASE exec[ExecOf(w)] = "NONE"
  <2>1. /\ exec' = [exec EXCEPT ![ExecOf(w)] = "RUNNING"]
        /\ EnterExecution(w, run[w].wf)
        /\ UNCHANGED <<plan, outbox, attempts, applied, status, enabled, batch, cur, budget>>
    BY <1>3 DEF CreateExecution
  <2>2. pc' \in [Workers -> Positions] /\ run' \in [Workers -> Run] /\ MemoryOK'
    BY <1>1, <1>2, <2>1, EnterExecutionTyped DEF Walking
  <2>3. TypeOK'
    BY <1>2, <2>1, <2>2 DEF IInv, TypeOK
  <2> QED BY <1>1, <2>2, <2>3 DEF IInv
<1>4. CASE exec[ExecOf(w)] # "NONE"
  <2>1. /\ NextWorkflow(w)
        /\ UNCHANGED <<exec, outbox, attempts, applied, status, enabled, batch, cur, budget>>
    BY <1>4 DEF CreateExecution
  <2>2. /\ pc' \in [Workers -> Positions] /\ plan' \in [Workers -> SUBSET Workflows]
        /\ run' \in [Workers -> Run] /\ MemoryOK'
    BY <1>1, <1>2, <2>1, NextWorkflowTyped DEF Walking
  <2>3. TypeOK'
    BY <2>1, <2>2 DEF IInv, TypeOK
  <2> QED BY <1>1, <2>2, <2>3 DEF IInv
<1> QED BY <1>3, <1>4

LEMMA CreateFailsTyped ==
  ASSUME IInv, NEW w \in Workers, CreateFails(w)
  PROVE  IInv' /\ RowsPersist
<1>1. RowsPersist
  BY RowsUnchanged DEF CreateFails, rows
<1>2. /\ pc' \in [Workers -> Positions] /\ plan' \in [Workers -> SUBSET Workflows]
      /\ run' \in [Workers -> Run] /\ MemoryOK'
  BY <1>1, NextWorkflowTyped DEF CreateFails, Walking
<1>3. budget' \in 0..MaxDisturbances
  BY RuntimeConstants DEF IInv, TypeOK, CreateFails, Disturb
<1>4. TypeOK'
  BY <1>2, <1>3 DEF IInv, TypeOK, CreateFails, rows
<1> QED BY <1>1, <1>2, <1>4 DEF IInv

LEMMA SkipConditionsTyped ==
  ASSUME IInv, NEW w \in Workers, SkipConditions(w)
  PROVE  IInv' /\ RowsPersist
<1>1. RowsPersist
  BY RowsUnchanged DEF SkipConditions
<1>2. /\ pc' \in [Workers -> Positions] /\ plan' \in [Workers -> SUBSET Workflows]
      /\ run' \in [Workers -> Run] /\ MemoryOK'
  BY <1>1, NextWorkflowTyped DEF SkipConditions, Walking
<1>3. exec' \in [Events \X Workflows -> ExecutionDone \cup {"NONE", "RUNNING"}]
  BY DEF IInv, TypeOK, SkipConditions, ExecutionDone
<1>4. TypeOK'
  BY <1>2, <1>3 DEF IInv, TypeOK, SkipConditions
<1> QED BY <1>1, <1>2, <1>4 DEF IInv

LEMMA FinalizeExecutionTyped ==
  ASSUME IInv, NEW w \in Workers, FinalizeExecution(w)
  PROVE  IInv' /\ RowsPersist
<1>1. RowsPersist
  BY RowsUnchanged DEF FinalizeExecution
<1>2. exec' \in [Events \X Workflows -> ExecutionDone \cup {"NONE", "RUNNING"}]
  BY DEF IInv, TypeOK, FinalizeExecution, ExecutionDone, Outcome
<1>3. CASE NextWorkflow(w)
  <2>1. /\ pc' \in [Workers -> Positions] /\ plan' \in [Workers -> SUBSET Workflows]
        /\ run' \in [Workers -> Run] /\ MemoryOK'
    BY <1>1, <1>3, NextWorkflowTyped DEF FinalizeExecution, Walking
  <2>2. TypeOK'
    BY <1>2, <2>1 DEF IInv, TypeOK, FinalizeExecution
  <2> QED BY <1>1, <2>1, <2>2 DEF IInv
<1>4. CASE Move(w, "count") /\ UNCHANGED <<plan, run>>
  <2>1. TypeOK'
    BY <1>2, <1>4 DEF IInv, TypeOK, FinalizeExecution, Move, Positions
  <2>2. pc'[w] = "count" /\ \A x \in Workers \ {w} : pc'[x] = pc[x]
    BY <1>4 DEF IInv, TypeOK, Move
  <2>3. MemoryOf(w)'
    BY <1>4, <2>2, LocalsKnown
    DEF FinalizeExecution, MemoryOf, Resting, Walking, AtWorkflow, AtAction
  <2> QED BY <1>1, <1>4, <2>1, <2>2, <2>3, WorkerStep DEF IInv, FinalizeExecution
<1> QED BY <1>3, <1>4 DEF FinalizeExecution

LEMMA CountFailuresTyped ==
  ASSUME IInv, NEW w \in Workers, CountFailures(w)
  PROVE  IInv' /\ RowsPersist
<1>1. RowsPersist
  BY RowsUnchanged DEF CountFailures, rows
<1>2. CASE NextWorkflow(w)
  <2>1. /\ pc' \in [Workers -> Positions] /\ plan' \in [Workers -> SUBSET Workflows]
        /\ run' \in [Workers -> Run] /\ MemoryOK'
    BY <1>1, <1>2, NextWorkflowTyped DEF CountFailures, Walking
  <2>2. TypeOK'
    BY <2>1 DEF IInv, TypeOK, CountFailures, rows
  <2> QED BY <1>1, <2>1, <2>2 DEF IInv
<1>3. CASE Move(w, "pause") /\ UNCHANGED <<plan, run>>
  <2>1. TypeOK'
    BY <1>3 DEF IInv, TypeOK, CountFailures, rows, Move, Positions
  <2>2. pc'[w] = "pause" /\ \A x \in Workers \ {w} : pc'[x] = pc[x]
    BY <1>3 DEF IInv, TypeOK, Move
  <2>3. MemoryOf(w)'
    BY <1>3, <2>2, LocalsKnown
    DEF CountFailures, rows, MemoryOf, Resting, Walking, AtWorkflow, AtAction
  <2> QED BY <1>1, <1>3, <2>1, <2>2, <2>3, WorkerStep DEF IInv, CountFailures
<1> QED BY <1>2, <1>3 DEF CountFailures

LEMMA AutoPauseTyped ==
  ASSUME IInv, NEW w \in Workers, AutoPause(w)
  PROVE  IInv' /\ RowsPersist
<1>1. RowsPersist
  BY RowsUnchanged DEF AutoPause
<1>2. /\ pc' \in [Workers -> Positions] /\ plan' \in [Workers -> SUBSET Workflows]
      /\ run' \in [Workers -> Run] /\ MemoryOK'
  BY <1>1, NextWorkflowTyped DEF AutoPause, Walking
<1>3. TypeOK'
  BY <1>2 DEF IInv, TypeOK, AutoPause
<1> QED BY <1>1, <1>2, <1>3 DEF IInv

LEMMA EndWorkflowsTyped ==
  ASSUME IInv, NEW w \in Workers, EndWorkflows(w)
  PROVE  IInv' /\ RowsPersist
<1>1. RowsPersist
  BY RowsUnchanged DEF EndWorkflows, rows
<1>2. TypeOK'
  BY DEF IInv, TypeOK, EndWorkflows, Move, rows, locals, Positions
<1>3. pc'[w] = "mark" /\ \A x \in Workers \ {w} : pc'[x] = pc[x]
  BY DEF IInv, TypeOK, EndWorkflows, Move
<1>4. MemoryOf(w)'
  BY <1>3, LocalsKnown
  DEF EndWorkflows, rows, locals, MemoryOf, Resting, Walking, AtWorkflow, AtAction
<1> QED BY <1>1, <1>2, <1>3, <1>4, WorkerStep DEF IInv, EndWorkflows, locals

-----------------------------------------------------------------------------
(* The steps of executeActions                                             *)

\* The key of the action a worker is at, and its event.
LEMMA AtActionKnown ==
  ASSUME IInv, NEW w \in Workers, pc[w] \in AtAction
  PROVE  /\ KeyOf(w) \in Keys /\ cur[w] \in Events /\ run[w].wf \in Workflows
         /\ KeyOf(w)[1] = cur[w] /\ KeyOf(w)[2] = run[w].wf /\ KeyOf(w)[3] = run[w].ord
         /\ run[w].ord \in 1..Len(Actions[run[w].wf]) /\ run[w].seen \in Nat
         /\ ActionOf(w) \in [kind : ActionKinds, to : Statuses]
         /\ outbox[cur[w]] \in Row /\ outbox[cur[w]].state # "ABSENT"
         /\ outbox[cur[w]].depth < MaxDepth
<1>1. /\ cur[w] \in Events /\ run[w].wf \in Workflows /\ run[w] \in Run
      /\ run[w].ord \in 1..Len(Actions[run[w].wf])
      /\ outbox[cur[w]].state # "ABSENT" /\ outbox[cur[w]].depth < MaxDepth
  BY LocalsKnown DEF MemoryOf, Resting, Walking, AtWorkflow, AtAction
<1>2. run[w].ord \in Ordinals /\ ActionOf(w) \in [kind : ActionKinds, to : Statuses]
  BY <1>1, ActionTyped DEF ActionOf
<1>3. outbox[cur[w]] \in Row /\ run[w].seen \in Nat
  BY <1>1 DEF IInv, TypeOK, Run
<1> QED BY <1>1, <1>2, <1>3 DEF KeyOf, Keys

\* A child event is within the budget.
LEMMA ChildTyped ==
  ASSUME NEW d \in 0..MaxDepth, d < MaxDepth
  PROVE  ChildDepth(d) \in 0..MaxDepth
BY RuntimeConstants DEF ChildDepth

LEMMA ReadAttemptTyped ==
  ASSUME IInv, NEW w \in Workers, ReadAttempt(w)
  PROVE  IInv' /\ RowsPersist
<1>1. RowsPersist
  BY RowsUnchanged DEF ReadAttempt, rows
<1>2. pc[w] \in AtAction
  BY DEF ReadAttempt, AtAction
<1>3. CASE NextOrdinal(w, "ok")
  <2>1. pc' \in [Workers -> Positions] /\ run' \in [Workers -> Run] /\ MemoryOK'
    BY <1>1, <1>2, <1>3, NextOrdinalTyped DEF ReadAttempt
  <2>2. TypeOK'
    BY <2>1 DEF IInv, TypeOK, ReadAttempt, rows
  <2> QED BY <1>1, <2>1, <2>2 DEF IInv
<1>4. CASE /\ run' = [run EXCEPT ![w].seen = attempts[KeyOf(w)].number]
           /\ Move(w, IF ActionOf(w).kind = "unregistered" THEN "record" ELSE "act")
  <2>1. attempts[KeyOf(w)].number \in Nat
    BY <1>2, AtActionKnown, RuntimeConstants DEF IInv, TypeOK, Attempt
  <2>2. pc' \in [Workers -> Positions] /\ run' \in [Workers -> Run]
    <3>1. pc' \in [Workers -> Positions]
      BY <1>4 DEF IInv, TypeOK, Move, Positions
    <3>2. [run[w] EXCEPT !.seen = attempts[KeyOf(w)].number] \in Run
      BY <2>1 DEF IInv, TypeOK, Run
    <3>3. run' = [run EXCEPT ![w] = [run[w] EXCEPT !.seen = attempts[KeyOf(w)].number]]
      BY <1>4
    <3> QED BY <3>1, <3>2, <3>3 DEF IInv, TypeOK
  <2>3. TypeOK'
    BY <2>2 DEF IInv, TypeOK, ReadAttempt, rows
  <2>4. /\ pc'[w] \in {"record", "act"}
        /\ run'[w].wf = run[w].wf /\ run'[w].ord = run[w].ord
        /\ \A x \in Workers \ {w} : pc'[x] = pc[x] /\ run'[x] = run[x]
    BY <1>4, <2>1 DEF IInv, TypeOK, Move, Run
  <2>5. MemoryOf(w)'
    BY <1>2, <2>4, LocalsKnown
    DEF ReadAttempt, rows, MemoryOf, Resting, Walking, AtWorkflow, AtAction
  <2> QED BY <1>1, <2>3, <2>4, <2>5, WorkerStep DEF IInv, ReadAttempt
<1> QED BY <1>3, <1>4 DEF ReadAttempt

\* The three effects, seen from the rows they write.
LEMMA ChangeStatusEffectTyped ==
  ASSUME IInv, NEW k \in Keys, NEW d \in 0..MaxDepth, d < MaxDepth, NEW t \in Tickets,
         NEW s \in Statuses, ChangeStatusEffect(k, d, t, s)
  PROVE  /\ outbox' \in [Events -> Row] /\ RowsPersist
         /\ status' \in [Tickets -> Statuses] /\ applied' \in [Keys -> Nat]
<1>1. PICK c \in Events :
        /\ outbox[c].state = "ABSENT"
        /\ outbox' = Append1(c, ChildDepth(d), "ticket.status_changed", t, s, k)
  BY DEF ChangeStatusEffect
<1>2. "ticket.status_changed" \in EventTypes /\ ChildDepth(d) \in 0..MaxDepth
  BY ChildTyped DEF EventTypes
<1>3. outbox' \in [Events -> Row] /\ RowsPersist
  BY <1>1, <1>2, AppendTyped DEF IInv
<1> QED BY <1>3 DEF ChangeStatusEffect, IInv, TypeOK

LEMMA AssignEffectTyped ==
  ASSUME IInv, NEW k \in Keys, NEW d \in 0..MaxDepth, d < MaxDepth, NEW t \in Tickets,
         AssignEffect(k, d, t)
  PROVE  /\ outbox' \in [Events -> Row] /\ RowsPersist
         /\ status' \in [Tickets -> Statuses] /\ applied' \in [Keys -> Nat]
<1>1. PICK c \in Events :
        /\ outbox[c].state = "ABSENT"
        /\ outbox' = Append1(c, ChildDepth(d), "ticket.assigned", t, status[t], k)
  BY DEF AssignEffect
<1>2. "ticket.assigned" \in EventTypes /\ ChildDepth(d) \in 0..MaxDepth /\ status[t] \in Statuses
  BY ChildTyped DEF EventTypes, IInv, TypeOK
<1>3. outbox' \in [Events -> Row] /\ RowsPersist
  BY <1>1, <1>2, AppendTyped DEF IInv
<1> QED BY <1>3 DEF AssignEffect, IInv, TypeOK

LEMMA RunActionTyped ==
  ASSUME IInv, NEW w \in Workers, RunAction(w)
  PROVE  IInv' /\ RowsPersist
<1> DEFINE e == cur[w]
           k == KeyOf(w)
           d == outbox[e].depth
           t == outbox[e].ticket
           s == ActionOf(w).to
<1>1. pc[w] \in AtAction
  BY DEF RunAction, AtAction
<1>2. k \in Keys /\ d \in 0..MaxDepth /\ d < MaxDepth /\ t \in Tickets /\ s \in Statuses
  BY <1>1, AtActionKnown DEF Row
<1>3. \/ ChangeStatusEffect(k, d, t, s)
      \/ ChangeStatusNoop(t, s)
      \/ AssignEffect(k, d, t)
      \/ NotificationEffect(k)
  BY DEF RunAction
<1> HIDE DEF e, k, d, t, s
<1>4. /\ outbox' \in [Events -> Row] /\ RowsPersist
      /\ status' \in [Tickets -> Statuses] /\ applied' \in [Keys -> Nat]
  <2>1. CASE ChangeStatusEffect(k, d, t, s)
    BY <1>2, <2>1, ChangeStatusEffectTyped
  <2>2. CASE ChangeStatusNoop(t, s)
    BY <2>2, RowsUnchanged DEF ChangeStatusNoop, IInv, TypeOK
  <2>3. CASE AssignEffect(k, d, t)
    BY <1>2, <2>3, AssignEffectTyped
  <2>4. CASE NotificationEffect(k)
    BY <1>2, <2>4, RowsUnchanged DEF NotificationEffect, IInv, TypeOK
  <2> QED BY <1>3, <2>1, <2>2, <2>3, <2>4
<1>5. attempts' \in [Keys -> Attempt]
  <2>1. k \in Keys /\ attempts[k].number \in Nat
    BY <1>2, RuntimeConstants DEF IInv, TypeOK, Attempt
  <2>2. Saturate(attempts[k].number, MaxActionAttempts) \in 0..MaxActionAttempts
    BY <2>1, SaturateTyped, RuntimeConstants
  <2>3. attempts' = [attempts EXCEPT ![k] =
                       [state |-> "SUCCEEDED",
                        number |-> Saturate(attempts[k].number, MaxActionAttempts)]]
    BY DEF RunAction, k
  <2> QED BY <2>2, <2>3 DEF IInv, TypeOK, Attempt, AttemptStates
<1>6. pc' \in [Workers -> Positions] /\ run' \in [Workers -> Run] /\ MemoryOK'
  BY <1>1, <1>4, NextOrdinalTyped DEF RunAction
<1>7. TypeOK'
  BY <1>4, <1>5, <1>6 DEF IInv, TypeOK, RunAction
<1> QED BY <1>4, <1>6, <1>7 DEF IInv

LEMMA ActionFailsTyped ==
  ASSUME IInv, NEW w \in Workers, ActionFails(w)
  PROVE  IInv' /\ RowsPersist
<1>1. RowsPersist
  BY RowsUnchanged DEF ActionFails, rows
<1>2. budget' \in 0..MaxDisturbances
  BY RuntimeConstants DEF IInv, TypeOK, ActionFails, Disturb
<1>3. TypeOK'
  BY <1>2 DEF IInv, TypeOK, ActionFails, rows, locals, Move, Positions
<1>4. pc'[w] = "record" /\ \A x \in Workers \ {w} : pc'[x] = pc[x]
  BY DEF IInv, TypeOK, ActionFails, Move
<1>5. MemoryOf(w)'
  BY <1>4, LocalsKnown
  DEF ActionFails, rows, locals, MemoryOf, Resting, Walking, AtWorkflow, AtAction
<1> QED BY <1>1, <1>3, <1>4, <1>5, WorkerStep DEF IInv, ActionFails, locals

LEMMA RecordAttemptFailureTyped ==
  ASSUME IInv, NEW w \in Workers, RecordAttemptFailure(w)
  PROVE  IInv' /\ RowsPersist
<1>1. RowsPersist
  BY RowsUnchanged DEF RecordAttemptFailure
<1>2. pc[w] \in AtAction
  BY DEF RecordAttemptFailure, AtAction
<1>3. pc' \in [Workers -> Positions] /\ run' \in [Workers -> Run] /\ MemoryOK'
  BY <1>1, <1>2, NextOrdinalTyped DEF RecordAttemptFailure
<1>4. attempts' \in [Keys -> Attempt]
  <2> DEFINE n == Saturate(run[w].seen, MaxActionAttempts)
  <2>1. n \in 0..MaxActionAttempts
    BY <1>2, AtActionKnown, SaturateTyped, RuntimeConstants
  <2>2. attempts' = [attempts EXCEPT ![KeyOf(w)] =
                       [state |-> IF n >= MaxActionAttempts THEN "DEAD_LETTERED" ELSE "FAILED",
                        number |-> n]]
    BY DEF RecordAttemptFailure
  <2> HIDE DEF n
  <2> QED BY <2>1, <2>2 DEF IInv, TypeOK, Attempt, AttemptStates
<1>5. TypeOK'
  BY <1>3, <1>4 DEF IInv, TypeOK, RecordAttemptFailure
<1> QED BY <1>1, <1>3, <1>5 DEF IInv

-----------------------------------------------------------------------------
(* The steps that finish a row, or lose it                                 *)

LEMMA MarkProcessedTyped ==
  ASSUME IInv, NEW w \in Workers, MarkProcessed(w)
  PROVE  IInv' /\ RowsPersist
<1>1. cur[w] \in Events /\ outbox[cur[w]] \in Row
  BY LocalsKnown DEF MarkProcessed, MemoryOf, Resting, IInv, TypeOK
<1>2. outbox' \in [Events -> Row] /\ RowsPersist
  <2> DEFINE r == [outbox[cur[w]] EXCEPT !.state = "PROCESSED", !.lease = FALSE]
  <2>1. outbox' = [outbox EXCEPT ![cur[w]] = r]
    BY DEF MarkProcessed
  <2>2. SameEvent(r, outbox[cur[w]])
    BY <1>1, LeaseTyped DEF OutboxStates
  <2> HIDE DEF r
  <2> QED BY <1>1, <2>1, <2>2, RowUpdated DEF IInv
<1>3. /\ pc' \in [Workers -> Positions] /\ plan' \in [Workers -> SUBSET Workflows]
      /\ run' \in [Workers -> Run] /\ cur' \in [Workers -> Events \cup {NoEvent}]
      /\ MemoryOK'
  BY <1>2, ReleaseTyped DEF MarkProcessed
<1>4. TypeOK'
  BY <1>2, <1>3 DEF IInv, TypeOK, MarkProcessed
<1> QED BY <1>2, <1>3, <1>4 DEF IInv

LEMMA DispatchErrorTyped ==
  ASSUME IInv, NEW w \in Workers, DispatchError(w)
  PROVE  IInv' /\ RowsPersist
<1>1. RowsPersist
  BY RowsUnchanged DEF DispatchError, rows
<1>2. budget' \in 0..MaxDisturbances
  BY RuntimeConstants DEF IInv, TypeOK, DispatchError, Disturb
<1>3. NoRun \in Run
  BY DEF NoRun, Run
<1>4. TypeOK'
  BY <1>2, <1>3 DEF IInv, TypeOK, DispatchError, rows, Move, Positions
<1>5. /\ pc'[w] = "fail_read" /\ pc[w] \notin Resting
      /\ \A x \in Workers \ {w} : pc'[x] = pc[x] /\ run'[x] = run[x]
  BY DEF IInv, TypeOK, DispatchError, Move, Dispatching, Resting
<1>6. MemoryOf(w)'
  BY <1>5, LocalsKnown
  DEF DispatchError, rows, MemoryOf, Resting, Walking, AtWorkflow, AtAction
<1> QED BY <1>1, <1>4, <1>5, <1>6, WorkerStep DEF IInv, DispatchError

LEMMA ReadDeliveryTyped ==
  ASSUME IInv, NEW w \in Workers, ReadDelivery(w)
  PROVE  IInv' /\ RowsPersist
<1>1. RowsPersist
  BY RowsUnchanged DEF ReadDelivery, rows
<1>2. outbox[cur[w]].tries \in Nat
  <2>1. cur[w] \in Events
    BY LocalsKnown DEF ReadDelivery, MemoryOf, Resting
  <2>2. outbox[cur[w]] \in Row
    BY <2>1 DEF IInv, TypeOK
  <2> QED BY <2>2, RuntimeConstants DEF Row
<1>3. [NoRun EXCEPT !.seen = outbox[cur[w]].tries] \in Run
  BY <1>2 DEF NoRun, Run
<1>4. TypeOK'
  BY <1>3 DEF IInv, TypeOK, ReadDelivery, rows, Move, Positions
<1>5. /\ pc'[w] = "fail_write"
      /\ \A x \in Workers \ {w} : pc'[x] = pc[x] /\ run'[x] = run[x]
  BY DEF IInv, TypeOK, ReadDelivery, Move
<1>6. MemoryOf(w)'
  BY <1>5, LocalsKnown
  DEF ReadDelivery, rows, MemoryOf, Resting, Walking, AtWorkflow, AtAction
<1> QED BY <1>1, <1>4, <1>5, <1>6, WorkerStep DEF IInv, ReadDelivery

LEMMA RecordDeliveryFailureTyped ==
  ASSUME IInv, NEW w \in Workers, RecordDeliveryFailure(w)
  PROVE  IInv' /\ RowsPersist
<1>1. cur[w] \in Events /\ outbox[cur[w]] \in Row /\ run[w].seen \in Nat
  BY LocalsKnown DEF RecordDeliveryFailure, MemoryOf, Resting, IInv, TypeOK, Run
<1>2. outbox' \in [Events -> Row] /\ RowsPersist
  <2> DEFINE n == Saturate(run[w].seen, MaxDeliveries)
             st == IF n >= MaxDeliveries THEN "DEAD_LETTERED" ELSE "FAILED"
             r == [outbox[cur[w]] EXCEPT !.state = st, !.tries = n, !.lease = FALSE]
  <2>1. outbox' = [outbox EXCEPT ![cur[w]] = r]
    BY DEF RecordDeliveryFailure
  <2>2. n \in 0..MaxDeliveries /\ st \in OutboxStates
    BY <1>1, SaturateTyped, RuntimeConstants DEF OutboxStates
  <2> HIDE DEF n, st
  <2>3. SameEvent(r, outbox[cur[w]])
    BY <1>1, <2>2, UpdateTyped
  <2> HIDE DEF r
  <2> QED BY <1>1, <2>1, <2>3, RowUpdated DEF IInv
<1>3. /\ pc' \in [Workers -> Positions] /\ plan' \in [Workers -> SUBSET Workflows]
      /\ run' \in [Workers -> Run] /\ cur' \in [Workers -> Events \cup {NoEvent}]
      /\ MemoryOK'
  BY <1>2, ReleaseTyped DEF RecordDeliveryFailure
<1>4. TypeOK'
  BY <1>2, <1>3 DEF IInv, TypeOK, RecordDeliveryFailure
<1> QED BY <1>2, <1>3, <1>4 DEF IInv

LEMMA CrashTyped ==
  ASSUME IInv, NEW w \in Workers, Crash(w)
  PROVE  IInv' /\ RowsPersist
<1>1. RowsPersist
  BY RowsUnchanged DEF Crash, rows
<1>2. budget' \in 0..MaxDisturbances
  BY RuntimeConstants DEF IInv, TypeOK, Crash, Disturb
<1>3. NoRun \in Run
  BY DEF NoRun, Run
<1>4. TypeOK'
  BY <1>2, <1>3 DEF IInv, TypeOK, Crash, rows, Move, Positions
<1>5. /\ pc'[w] = "idle" /\ batch'[w] = {}
      /\ \A x \in Workers \ {w} : /\ pc'[x] = pc[x] /\ batch'[x] = batch[x]
                                   /\ cur'[x] = cur[x] /\ run'[x] = run[x]
  BY DEF IInv, TypeOK, Crash, Move
<1>6. MemoryOf(w)'
  BY <1>5 DEF MemoryOf, Resting, Walking, AtWorkflow, AtAction
<1> QED BY <1>1, <1>4, <1>5, <1>6, WorkerStep DEF IInv

-----------------------------------------------------------------------------

\* Every step of the runtime preserves the invariant, deletes no row and changes
\* no identity.
LEMMA NextTyped == IInv /\ Next => IInv' /\ RowsPersist
<1> SUFFICES ASSUME IInv, Next PROVE IInv' /\ RowsPersist
  OBVIOUS
<1>1. CASE \E w \in Workers : Step(w)
  <2> PICK w \in Workers : Step(w)
    BY <1>1
  <2> QED BY ClaimBatchTyped, TakeEventTyped, EndBatchTyped, FindExecutionTyped,
             CreateExecutionTyped, SkipConditionsTyped, ReadAttemptTyped, RunActionTyped,
             ActionFailsTyped, RecordAttemptFailureTyped, FinalizeExecutionTyped,
             CountFailuresTyped, AutoPauseTyped, EndWorkflowsTyped, MarkProcessedTyped,
             ReadDeliveryTyped, RecordDeliveryFailureTyped DEF Step
<1>2. CASE \E e \in Events : ExpireLease(e)
  BY <1>2, ExpireLeaseTyped
<1>3. CASE Environment
  BY <1>3, AgentChangeTyped, ReplayTyped, SetEnabledTyped, CrashTyped, CreateFailsTyped,
     DispatchErrorTyped DEF Environment
<1> QED BY <1>1, <1>2, <1>3 DEF Next

LEMMA StutterTyped == IInv /\ UNCHANGED vars => IInv'
BY DEF IInv, TypeOK, MemoryOK, MemoryOf, vars

\* Type correctness of the runtime for every number of processes, rows, tickets
\* and workflows, and with it what every worker may rely on: the rows it has in
\* memory exist and the one it runs workflows for is within the budget.
THEOREM InvariantHolds == Spec => []IInv
<1>1. IInv /\ [Next]_vars => IInv'
  BY NextTyped, StutterTyped
<1> QED BY InitTyped, <1>1, PTL DEF Spec

THEOREM TypeCorrect == Spec => []TypeOK
<1>1. IInv => TypeOK
  BY DEF IInv
<1> QED BY InvariantHolds, <1>1, PTL
=============================================================================
