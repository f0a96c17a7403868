------------------------ MODULE WorkflowOrder_proofs ------------------------
(***************************************************************************)
(* What executions and attempts tell about each other, for any number of   *)
(* processes, rows and workflows.                                          *)
(*                                                                         *)
(* Every step is reduced to what it does to one worker's place in a        *)
(* workflow, to the attempts, the effects and the executions (Progress).   *)
(* OrderedActions and SkippedNeverActs follow whatever the leases do.      *)
(* With leases that are kept no row is with two workers; then a worker     *)
(* knows the outcome of every action it has passed, no attempt that        *)
(* succeeded and no finished execution is written again, and the outcome   *)
(* of an execution is that of its actions.                                 *)
(***************************************************************************)
EXTENDS WorkflowRuntime_proofs

-----------------------------------------------------------------------------
(* What a step does                                                        *)

\* Positions between finding an execution and writing its outcome.
InLoop == {"attempt", "act", "record", "finalize"}
Busy   == InLoop \cup {"skip"}

SameLocals(x) == pc'[x] = pc[x] /\ cur'[x] = cur[x] /\ run'[x] = run[x]
OthersSame(w) == \A x \in Workers \ {w} : SameLocals(x)

\* Workers stay where they are or leave the workflow they are at.
Elsewhere ==
  /\ \A x \in Workers : SameLocals(x) \/ pc'[x] \notin Busy
  /\ UNCHANGED <<exec, attempts, applied>>

\* w begins, or resumes, workflow v for its row.
Enters(w, v) ==
  /\ exec[<<cur[w], v>>] \in {"NONE", "RUNNING"} /\ cur[w] \in Events
  /\ \A x \in Events \X Workflows : exec'[x] = IF x = <<cur[w], v>> THEN "RUNNING" ELSE exec[x]
  /\ pc'[w] = IF ConditionsPass(cur[w], v) THEN ActionAt(v, 1) ELSE "skip"
  /\ run'[w] = [NoRun EXCEPT !.wf = v] /\ cur'[w] = cur[w]
  /\ OthersSame(w)
  /\ UNCHANGED <<outbox, attempts, applied>>

\* w ends the workflow it is at with outcome o.
Leaves(w, o) ==
  /\ \/ pc[w] = "skip" /\ o = "SKIPPED_CONDITIONS"
     \/ pc[w] = "finalize" /\ o = Outcome(w)
  /\ exec' = [exec EXCEPT ![ExecOf(w)] = o]
  /\ pc'[w] \notin Busy
  /\ OthersSame(w)
  /\ UNCHANGED <<outbox, attempts, applied>>

\* w has read the attempt of its action, or the action has failed.
Stays(w) ==
  /\ \/ pc[w] = "attempt" /\ ~AlreadyDone(KeyOf(w)) /\ pc'[w] \in {"act", "record"}
     \/ pc[w] = "act" /\ pc'[w] = "record"
  /\ cur'[w] = cur[w] /\ run'[w].wf = run[w].wf /\ run'[w].ord = run[w].ord
  /\ run'[w].ok = run[w].ok /\ run'[w].bad = run[w].bad
  /\ OthersSame(w)
  /\ UNCHANGED <<outbox, exec, attempts, applied>>

\* w goes on with the next action.
GoesOn(w, o) ==
  /\ NextOrdinal(w, o)
  /\ UNCHANGED <<exec, cur>>

\* The action had succeeded before.
Passes(w) ==
  /\ pc[w] = "attempt" /\ AlreadyDone(KeyOf(w))
  /\ GoesOn(w, "ok")
  /\ UNCHANGED <<outbox, attempts, applied>>

\* The attempt of the action gets its result.
Writes(w, o) ==
  /\ \/ pc[w] = "act" /\ o = "ok" /\ attempts'[KeyOf(w)].state = "SUCCEEDED"
        /\ \A k \in Keys \ {KeyOf(w)} : applied'[k] = applied[k]
     \/ pc[w] = "record" /\ o = "bad" /\ attempts'[KeyOf(w)].state \in {"FAILED", "DEAD_LETTERED"}
        /\ UNCHANGED applied
  /\ \A k \in Keys \ {KeyOf(w)} : attempts'[k] = attempts[k]
  /\ GoesOn(w, o)

Progress ==
  \/ Elsewhere
  \/ \E w \in Workers :
       \/ \E v \in Workflows : Enters(w, v)
       \/ \E o \in ExecutionDone : Leaves(w, o)
       \/ Stays(w)
       \/ Passes(w)
       \/ \E o \in {"ok", "bad"} : Writes(w, o)

-----------------------------------------------------------------------------
(* Every step is one of these                                              *)

LEMMA NextWorkflowElsewhere ==
  ASSUME IInv, NEW w \in Workers, NextWorkflow(w), UNCHANGED cur
  PROVE  pc'[w] \notin Busy /\ OthersSame(w)
BY DEF IInv, TypeOK, NextWorkflow, Move, Busy, InLoop, OthersSame, SameLocals

LEMMA EnterEnters ==
  ASSUME IInv, NEW w \in Workers, NEW v \in Workflows, EnterExecution(w, v), cur[w] \in Events,
         exec[<<cur[w], v>>] \in {"NONE", "RUNNING"},
         \A x \in Events \X Workflows : exec'[x] = IF x = <<cur[w], v>> THEN "RUNNING" ELSE exec[x],
         UNCHANGED <<outbox, attempts, applied, cur>>
  PROVE  Enters(w, v)
<1>1. /\ pc'[w] = IF ConditionsPass(cur[w], v) THEN ActionAt(v, 1) ELSE "skip"
      /\ run'[w] = [NoRun EXCEPT !.wf = v] /\ OthersSame(w)
  BY DEF EnterExecution, Move, IInv, TypeOK, OthersSame, SameLocals
<1> QED BY <1>1 DEF Enters

LEMMA FindProgress ==
  ASSUME IInv, NEW w \in Workers, FindExecution(w)
  PROVE  Progress
<1>1. PICK v \in plan[w] :
        \/ UNCHANGED <<run, pc>>
        \/ exec[<<cur[w], v>>] # "NONE" /\ ~Finished(<<cur[w], v>>) /\ EnterExecution(w, v)
        \/ run' = [run EXCEPT ![w].wf = v] /\ Move(w, "create")
  BY DEF FindExecution
<1>2. v \in Workflows /\ cur[w] \in Events /\ UNCHANGED <<exec, attempts, applied, outbox, cur>>
  BY LocalsKnown DEF FindExecution, rows, MemoryOf, Resting
<1>3. CASE UNCHANGED <<run, pc>>
  BY <1>2, <1>3 DEF Progress, Elsewhere, SameLocals
<1>4. CASE exec[<<cur[w], v>>] # "NONE" /\ ~Finished(<<cur[w], v>>) /\ EnterExecution(w, v)
  <2>1. exec[<<cur[w], v>>] = "RUNNING"
    BY <1>4 DEF Finished
  <2>2. Enters(w, v)
    BY <1>2, <1>4, <2>1, EnterEnters
  <2> QED BY <1>2, <2>2 DEF Progress
<1>5. CASE run' = [run EXCEPT ![w].wf = v] /\ Move(w, "create")
  <2>1. pc'[w] = "create" /\ OthersSame(w)
    BY <1>2, <1>5 DEF IInv, TypeOK, Move, OthersSame, SameLocals
  <2> QED BY <1>2, <2>1 DEF Progress, Elsewhere, OthersSame, Busy, InLoop
<1> QED BY <1>1, <1>3, <1>4, <1>5

LEMMA CreateProgress ==
  ASSUME IInv, NEW w \in Workers, CreateExecution(w)
  PROVE  Progress
<1>1. /\ run[w].wf \in Workflows /\ cur[w] \in Events
      /\ UNCHANGED <<outbox, attempts, applied, cur>>
  BY LocalsKnown DEF CreateExecution, MemoryOf, Resting, AtWorkflow, Walking
<1>2. CASE exec[ExecOf(w)] = "NONE"
  <2>1. exec' = [exec EXCEPT ![ExecOf(w)] = "RUNNING"] /\ EnterExecution(w, run[w].wf)
    BY <1>2 DEF CreateExecution
  <2>2. \A x \in Events \X Workflows : exec'[x] = IF x = <<cur[w], run[w].wf>> THEN "RUNNING" ELSE exec[x]
    BY <1>1, <2>1 DEF IInv, TypeOK, ExecOf
  <2>3. Enters(w, run[w].wf)
    BY <1>1, <1>2, <2>1, <2>2, EnterEnters DEF ExecOf
  <2> QED BY <1>1, <2>3 DEF Progress
<1>3. CASE exec[ExecOf(w)] # "NONE"
  <2>1. NextWorkflow(w) /\ UNCHANGED exec
    BY <1>3 DEF CreateExecution
  <2>2. pc'[w] \notin Busy /\ OthersSame(w)
    BY <1>1, <2>1, NextWorkflowElsewhere
  <2> QED BY <1>1, <2>1, <2>2 DEF Progress, Elsewhere, OthersSame
<1> QED BY <1>2, <1>3

LEMMA SkipProgress ==
  ASSUME IInv, NEW w \in Workers, SkipConditions(w)
  PROVE  Progress
<1>1. pc'[w] \notin Busy /\ OthersSame(w)
  BY NextWorkflowElsewhere DEF SkipConditions
<1>2. Leaves(w, "SKIPPED_CONDITIONS")
  BY <1>1 DEF SkipConditions, Leaves
<1> QED BY <1>2 DEF Progress, ExecutionDone

LEMMA FinalizeProgress ==
  ASSUME IInv, NEW w \in Workers, FinalizeExecution(w)
  PROVE  Progress
<1>1. pc'[w] \notin Busy /\ OthersSame(w)
  <2>1. CASE NextWorkflow(w)
    BY <2>1, NextWorkflowElsewhere DEF FinalizeExecution
  <2>2. CASE Move(w, "count") /\ UNCHANGED <<plan, run>>
    BY <2>2 DEF FinalizeExecution, Move, IInv, TypeOK, Busy, InLoop, OthersSame, SameLocals
  <2> QED BY <2>1, <2>2 DEF FinalizeExecution
<1>2. Leaves(w, Outcome(w)) /\ Outcome(w) \in ExecutionDone
  BY <1>1 DEF FinalizeExecution, Leaves, Outcome, ExecutionDone
<1> QED BY <1>2 DEF Progress

LEMMA ReadProgress ==
  ASSUME IInv, NEW w \in Workers, ReadAttempt(w)
  PROVE  Progress
<1>1. CASE AlreadyDone(KeyOf(w))
  BY <1>1 DEF ReadAttempt, rows, Progress, Passes, GoesOn
<1>2. CASE ~AlreadyDone(KeyOf(w))
  <2> DEFINE n == attempts[KeyOf(w)].number
  <2>1. /\ pc[w] = "attempt" /\ run' = [run EXCEPT ![w].seen = n]
        /\ Move(w, IF ActionOf(w).kind = "unregistered" THEN "record" ELSE "act")
        /\ UNCHANGED <<outbox, exec, attempts, applied, cur>>
    BY <1>2 DEF ReadAttempt, rows
  <2> HIDE DEF n
  <2>2. /\ pc'[w] \in {"act", "record"} /\ OthersSame(w)
        /\ run'[w].wf = run[w].wf /\ run'[w].ord = run[w].ord
        /\ run'[w].ok = run[w].ok /\ run'[w].bad = run[w].bad
    BY <2>1 DEF IInv, TypeOK, Move, Run, OthersSame, SameLocals
  <2> QED BY <1>2, <2>1, <2>2 DEF Progress, Stays
<1> QED BY <1>1, <1>2

LEMMA FailProgress ==
  ASSUME IInv, NEW w \in Workers, ActionFails(w)
  PROVE  Progress
<1>1. pc'[w] = "record" /\ OthersSame(w)
  BY DEF ActionFails, Move, IInv, TypeOK, locals, OthersSame, SameLocals
<1> QED BY <1>1 DEF ActionFails, rows, locals, Progress, Stays

LEMMA RunProgress ==
  ASSUME IInv, NEW w \in Workers, RunAction(w)
  PROVE  Progress
<1>1. KeyOf(w) \in Keys /\ pc[w] = "act"
  BY AtActionKnown DEF RunAction, AtAction
<1> DEFINE k == KeyOf(w)
<1>2. /\ attempts'[k].state = "SUCCEEDED"
      /\ \A j \in Keys \ {k} : attempts'[j] = attempts[j]
  BY <1>1 DEF RunAction, IInv, TypeOK
<1>3. \A j \in Keys \ {k} : applied'[j] = applied[j]
  BY <1>1 DEF RunAction, ChangeStatusEffect, ChangeStatusNoop, AssignEffect, NotificationEffect,
              IInv, TypeOK
<1>4. GoesOn(w, "ok")
  BY DEF RunAction, GoesOn
<1>5. Writes(w, "ok")
  BY <1>1, <1>2, <1>3, <1>4 DEF Writes
<1> QED BY <1>5 DEF Progress

LEMMA RecordProgress ==
  ASSUME IInv, NEW w \in Workers, RecordAttemptFailure(w)
  PROVE  Progress
<1>1. KeyOf(w) \in Keys /\ pc[w] = "record"
  BY AtActionKnown DEF RecordAttemptFailure, AtAction
<1>2. /\ attempts'[KeyOf(w)].state \in {"FAILED", "DEAD_LETTERED"}
      /\ \A j \in Keys \ {KeyOf(w)} : attempts'[j] = attempts[j]
  BY <1>1 DEF RecordAttemptFailure, IInv, TypeOK
<1>3. GoesOn(w, "bad") /\ UNCHANGED applied
  BY DEF RecordAttemptFailure, GoesOn
<1>4. Writes(w, "bad")
  BY <1>1, <1>2, <1>3 DEF Writes
<1> QED BY <1>4 DEF Progress

\* Steps of a worker that has nothing to do with an execution.
LEMMA PollProgress ==
  ASSUME IInv, NEW w \in Workers,
         \/ ClaimBatch(w) \/ TakeEvent(w) \/ EndBatch(w) \/ CountFailures(w) \/ AutoPause(w)
         \/ EndWorkflows(w) \/ MarkProcessed(w) \/ ReadDelivery(w) \/ RecordDeliveryFailure(w)
         \/ Crash(w) \/ CreateFails(w) \/ DispatchError(w)
  PROVE  Progress
<1>1. UNCHANGED <<exec, attempts, applied>>
  BY DEF ClaimBatch, TakeEvent, EndBatch, CountFailures, AutoPause, EndWorkflows, MarkProcessed,
         ReadDelivery, RecordDeliveryFailure, Crash, CreateFails, DispatchError, rows
<1>2. pc'[w] \notin Busy /\ OthersSame(w)
  <2>1. ASSUME NEW p \in {"idle", "batch", "workflow", "mark", "fail_read", "fail_write", "pause"},
               Move(w, p), NEW e, NEW r,
               cur' = cur \/ cur' = [cur EXCEPT ![w] = e],
               run' = run \/ run' = [run EXCEPT ![w] = r]
        PROVE  pc'[w] \notin Busy /\ OthersSame(w)
    BY <2>1 DEF Move, IInv, TypeOK, Busy, InLoop, OthersSame, SameLocals
  <2>2. CASE ClaimBatch(w) \/ EndBatch(w) \/ TakeEvent(w) \/ EndWorkflows(w)
    BY <2>1, <2>2 DEF ClaimBatch, EndBatch, TakeEvent, EndWorkflows, locals
  <2>3. CASE CountFailures(w) \/ AutoPause(w) \/ CreateFails(w)
    BY <2>1, <2>3 DEF CountFailures, AutoPause, CreateFails, NextWorkflow
  <2>4. CASE MarkProcessed(w) \/ RecordDeliveryFailure(w) \/ ReadDelivery(w)
    BY <2>1, <2>4 DEF MarkProcessed, RecordDeliveryFailure, ReadDelivery, Release
  <2>5. CASE Crash(w) \/ DispatchError(w)
    BY <2>1, <2>5 DEF Crash, DispatchError
  <2> QED BY <2>2, <2>3, <2>4, <2>5
<1> QED BY <1>1, <1>2 DEF Progress, Elsewhere, OthersSame

LEMMA NextProgress ==
  ASSUME IInv, [Next]_vars
  PROVE  Progress
<1>1. ASSUME UNCHANGED <<exec, attempts, applied, pc, cur, run>> PROVE Progress
  BY <1>1 DEF Progress, Elsewhere, SameLocals
<1>2. CASE \E t \in Tickets, s \in Statuses : AgentChange(t, s)
  BY <1>1, <1>2 DEF AgentChange, locals
<1>3. CASE \E e \in Events : Replay(e) \/ ExpireLease(e)
  BY <1>1, <1>3 DEF Replay, ExpireLease, locals
<1>4. CASE \E v \in Workflows, b \in BOOLEAN : SetEnabled(v, b)
  BY <1>1, <1>4 DEF SetEnabled, locals
<1>5. CASE UNCHANGED vars
  BY <1>1, <1>5 DEF vars
<1>6. ASSUME NEW w \in Workers, Step(w) PROVE Progress
  BY <1>6, FindProgress, CreateProgress, SkipProgress, FinalizeProgress, ReadProgress, FailProgress,
     RunProgress, RecordProgress, PollProgress DEF Step
<1>7. ASSUME NEW w \in Workers, Crash(w) \/ CreateFails(w) \/ DispatchError(w) PROVE Progress
  BY <1>7, PollProgress
<1> QED BY <1>2, <1>3, <1>4, <1>5, <1>6, <1>7 DEF Next, Environment

-----------------------------------------------------------------------------
(* Order and conditions, whatever the leases do                            *)

\* What a worker's place says about its row.
PlaceOf(w) ==
  /\ pc[w] = "skip" => ~ConditionsPass(cur[w], run[w].wf)
  /\ pc[w] \in AtAction =>
       /\ ConditionsPass(cur[w], run[w].wf)
       /\ \A i \in 1..(run[w].ord - 1) : attempts[<<cur[w], run[w].wf, i>>] # NoAttempt

\* Attempts and effects belong to rows that pass the conditions.
Conditioned ==
  \A k \in Keys : attempts[k] # NoAttempt \/ applied[k] # 0 =>
    outbox[k[1]].state # "ABSENT" /\ ConditionsPass(k[1], k[2])

\* Executions that are skipped belong to rows that do not.
SkipsJustified ==
  \A e \in Events, v \in Workflows : exec[<<e, v>>] = "SKIPPED_CONDITIONS" =>
    outbox[e].state # "ABSENT" /\ ~ConditionsPass(e, v)

OrderInv ==
  /\ \A w \in Workers : PlaceOf(w)
  /\ Conditioned
  /\ SkipsJustified
  /\ OrderedActions

LEMMA InitOrder == Init => OrderInv
BY DEF Init, OrderInv, PlaceOf, Conditioned, SkipsJustified, OrderedActions, AtAction

\* The payload of a row stays as it is.
LEMMA ConditionsKept ==
  ASSUME RowsPersist, NEW e \in Events, outbox[e].state # "ABSENT", NEW v
  PROVE  ConditionsPass(e, v)' <=> ConditionsPass(e, v)
BY DEF RowsPersist, ConditionsPass

\* A busy worker has a row and a workflow.
LEMMA BusyKnown ==
  ASSUME IInv, NEW w \in Workers, pc[w] \in Busy
  PROVE  /\ cur[w] \in Events /\ outbox[cur[w]].state # "ABSENT" /\ run[w].wf \in Workflows
         /\ run[w] \in Run /\ ExecOf(w) \in Events \X Workflows
BY LocalsKnown DEF MemoryOf, Busy, InLoop, Resting, AtWorkflow, Walking, ExecOf

\* The actions before the one a worker is at have keys.
LEMMA EarlierKey ==
  ASSUME IInv, NEW w \in Workers, pc[w] \in AtAction, NEW i \in 1..(run[w].ord - 1)
  PROVE  <<cur[w], run[w].wf, i>> \in Keys
<1>1. /\ run[w].ord \in 1..Len(Actions[run[w].wf]) /\ run[w].wf \in Workflows
      /\ cur[w] \in Events /\ Len(Actions[run[w].wf]) \in Nat /\ MaxOrdinal \in Nat
      /\ Len(Actions[run[w].wf]) <= MaxOrdinal
  BY AtActionKnown, RuntimeConstants
<1>2. i \in Ordinals
  BY <1>1 DEF Ordinals
<1> QED BY <1>1, <1>2 DEF Keys

\* Attempts that exist go on existing, and a worker that stays where it is keeps
\* what its place says.
LEMMA PlaceKept ==
  ASSUME IInv, RowsPersist, NEW x \in Workers, PlaceOf(x), SameLocals(x),
         \A k \in Keys : attempts[k] # NoAttempt => attempts'[k] # NoAttempt
  PROVE  PlaceOf(x)'
<1>1. pc[x] \in Busy => (ConditionsPass(cur[x], run[x].wf)' <=> ConditionsPass(cur[x], run[x].wf))
  BY BusyKnown, ConditionsKept DEF SameLocals, ConditionsPass, RowsPersist
<1>2. ASSUME pc[x] \in AtAction, NEW i \in 1..(run[x].ord - 1)
      PROVE  <<cur[x], run[x].wf, i>> \in Keys
  BY <1>2, EarlierKey
<1> QED BY <1>1, <1>2 DEF PlaceOf, SameLocals, Busy, InLoop, AtAction

\* The parts of the invariant that only look at tables.
LEMMA TablesKept ==
  ASSUME OrderInv, RowsPersist,
         UNCHANGED <<attempts, applied>>,
         \A e \in Events, v \in Workflows :
           exec'[<<e, v>>] = "SKIPPED_CONDITIONS" =>
             \/ exec[<<e, v>>] = "SKIPPED_CONDITIONS"
             \/ outbox[e].state # "ABSENT" /\ ~ConditionsPass(e, v)
  PROVE  Conditioned' /\ SkipsJustified' /\ OrderedActions'
<1>1. Conditioned'
  <2> SUFFICES ASSUME NEW k \in Keys, attempts[k] # NoAttempt \/ applied[k] # 0
               PROVE  outbox'[k[1]].state # "ABSENT" /\ ConditionsPass(k[1], k[2])'
    BY DEF Conditioned
  <2>1. k[1] \in Events /\ outbox[k[1]].state # "ABSENT" /\ ConditionsPass(k[1], k[2])
    BY DEF OrderInv, Conditioned, Keys
  <2> QED BY <2>1, ConditionsKept DEF RowsPersist
<1>2. SkipsJustified'
  BY ConditionsKept DEF OrderInv, SkipsJustified, RowsPersist
<1> QED BY <1>1, <1>2 DEF OrderInv, OrderedActions

\* An attempt is written by a worker that is at its action, after the attempts
\* of all earlier ones.
LEMMA WriteKept ==
  ASSUME IInv, OrderInv, RowsPersist, NEW w \in Workers, NEW o \in {"ok", "bad"}, Writes(w, o)
  PROVE  OrderInv'
<1> DEFINE k == KeyOf(w)
           n == run[w].ord
<1>1. /\ pc[w] \in AtAction /\ k \in Keys /\ cur[w] \in Events /\ run[w].wf \in Workflows
      /\ k = <<cur[w], run[w].wf, n>> /\ n \in 1..Len(Actions[run[w].wf])
      /\ outbox[cur[w]].state # "ABSENT"
  BY AtActionKnown DEF Writes, AtAction, KeyOf
<1>2. /\ attempts'[k] # NoAttempt
      /\ \A j \in Keys \ {k} : attempts'[j] = attempts[j] /\ applied'[j] = applied[j]
      /\ UNCHANGED <<exec, cur>> /\ NextOrdinal(w, o)
  BY DEF Writes, NoAttempt, GoesOn
<1>3. \A j \in Keys : attempts[j] # NoAttempt => attempts'[j] # NoAttempt
  BY <1>2
<1>4. /\ ConditionsPass(cur[w], run[w].wf)
      /\ \A i \in 1..(n - 1) : attempts[<<cur[w], run[w].wf, i>>] # NoAttempt
  BY <1>1 DEF OrderInv, PlaceOf
<1>5. \A i \in 1..(n - 1) : <<cur[w], run[w].wf, i>> \in Keys
  BY <1>1, EarlierKey
<1> HIDE DEF k
<1>6. PlaceOf(w)'
  <2>1. /\ pc'[w] = ActionAt(run[w].wf, n + 1) /\ cur'[w] = cur[w]
        /\ run'[w].wf = run[w].wf /\ run'[w].ord = n + 1
    BY <1>2 DEF NextOrdinal, Move, IInv, TypeOK, Run
  <2>2. pc'[w] \in {"finalize", "attempt"}
    BY <2>1 DEF ActionAt
  <2>3. ConditionsPass(cur[w], run[w].wf)'
    BY <1>1, <1>4, <2>1, ConditionsKept DEF ConditionsPass, RowsPersist
  <2>4. ASSUME NEW i \in 1..n PROVE attempts'[<<cur[w], run[w].wf, i>>] # NoAttempt
    <3>1. CASE i = n
      BY <1>1, <1>2, <3>1
    <3>2. CASE i # n
      <4>1. i \in 1..(n - 1)
        BY <1>1, <3>2
      <4> QED BY <1>3, <1>4, <1>5, <4>1
    <3> QED BY <3>1, <3>2
  <2>5. (n + 1) - 1 = n
    BY <1>1
  <2> QED BY <2>1, <2>2, <2>3, <2>4, <2>5 DEF PlaceOf, AtAction
<1>7. ASSUME NEW x \in Workers PROVE PlaceOf(x)'
  <2>1. CASE x # w
    <3>1. SameLocals(x)
      BY <1>2, <2>1 DEF NextOrdinal, Move, IInv, TypeOK, SameLocals
    <3> QED BY <1>3, <3>1, PlaceKept DEF OrderInv
  <2> QED BY <1>6, <2>1
<1>8. Conditioned'
  <2> SUFFICES ASSUME NEW j \in Keys, attempts'[j] # NoAttempt \/ applied'[j] # 0
               PROVE  outbox'[j[1]].state # "ABSENT" /\ ConditionsPass(j[1], j[2])'
    BY DEF Conditioned
  <2>1. j[1] \in Events /\ outbox[j[1]].state # "ABSENT" /\ ConditionsPass(j[1], j[2])
    <3>1. CASE j = k
      BY <1>1, <1>4, <3>1
    <3>2. CASE j # k
      BY <1>2, <3>2 DEF OrderInv, Conditioned, Keys
    <3> QED BY <3>1, <3>2
  <2> QED BY <2>1, ConditionsKept DEF RowsPersist
<1>9. SkipsJustified'
  BY <1>2, ConditionsKept DEF OrderInv, SkipsJustified, RowsPersist
<1>10. OrderedActions'
  <2> SUFFICES ASSUME NEW j \in Keys, attempts'[j] # NoAttempt, NEW i \in 1..(j[3] - 1)
               PROVE  attempts'[<<j[1], j[2], i>>] # NoAttempt
    BY DEF OrderedActions
  <2>1. <<j[1], j[2], i>> \in Keys
    BY RuntimeConstants DEF Keys, Ordinals
  <2>2. CASE j = k
    BY <1>1, <1>3, <1>4, <2>1, <2>2
  <2>3. CASE j # k
    BY <1>2, <1>3, <2>1, <2>3 DEF OrderInv, OrderedActions
  <2> QED BY <2>2, <2>3
<1> QED BY <1>7, <1>8, <1>9, <1>10 DEF OrderInv

LEMMA OrderStep ==
  ASSUME IInv, OrderInv, RowsPersist, Progress
  PROVE  OrderInv'
<1>1. ASSUME UNCHANGED <<attempts, applied>>, NEW w \in Workers, OthersSame(w), PlaceOf(w)'
      PROVE  \A x \in Workers : PlaceOf(x)'
  BY <1>1, PlaceKept DEF OthersSame, OrderInv
<1>2. CASE Elsewhere
  <2>1. ASSUME NEW x \in Workers PROVE PlaceOf(x)'
    <3>1. CASE SameLocals(x)
      BY <1>2, <3>1, PlaceKept DEF OrderInv, Elsewhere
    <3>2. CASE pc'[x] \notin Busy
      BY <3>2 DEF PlaceOf, Busy, InLoop, AtAction
    <3> QED BY <1>2, <3>1, <3>2 DEF Elsewhere
  <2>2. Conditioned' /\ SkipsJustified' /\ OrderedActions'
    BY <1>2, TablesKept DEF Elsewhere
  <2> QED BY <2>1, <2>2 DEF OrderInv
<1>3. ASSUME NEW w \in Workers, NEW v \in Workflows, Enters(w, v) PROVE OrderInv'
  <2>1. PlaceOf(w)'
    <3>1. run'[w].wf = v /\ run'[w].ord = 1 /\ cur'[w] = cur[w]
      BY <1>3 DEF Enters, NoRun
    <3>2. ConditionsPass(cur[w], v)' <=> ConditionsPass(cur[w], v)
      BY <1>3 DEF Enters, ConditionsPass
    <3>3. pc'[w] = IF ConditionsPass(cur[w], v) THEN ActionAt(v, 1) ELSE "skip"
      BY <1>3 DEF Enters
    <3>4. ActionAt(v, 1) \in {"finalize", "attempt"}
      BY DEF ActionAt
    <3>5. 1 .. (1 - 1) = {}
      OBVIOUS
    <3>6. ConditionsPass(cur[w], run[w].wf)' <=> ConditionsPass(cur[w], v)
      BY <3>1, <3>2 DEF ConditionsPass
    <3> QED BY <3>1, <3>3, <3>4, <3>5, <3>6 DEF PlaceOf, AtAction
  <2>2. Conditioned' /\ SkipsJustified' /\ OrderedActions'
    <3>1. \A e \in Events, u \in Workflows :
            exec'[<<e, u>>] = "SKIPPED_CONDITIONS" => exec[<<e, u>>] = "SKIPPED_CONDITIONS"
      BY <1>3 DEF Enters
    <3> QED BY <1>3, <3>1, TablesKept DEF Enters
  <2> QED BY <1>1, <1>3, <2>1, <2>2 DEF OrderInv, Enters
<1>4. ASSUME NEW w \in Workers, NEW o \in ExecutionDone, Leaves(w, o) PROVE OrderInv'
  <2>1. PlaceOf(w)'
    BY <1>4 DEF Leaves, PlaceOf, Busy, InLoop, AtAction
  <2>2. cur[w] \in Events /\ run[w].wf \in Workflows /\ outbox[cur[w]].state # "ABSENT"
    BY <1>4, BusyKnown DEF Leaves, Busy, InLoop
  <2>3. o = "SKIPPED_CONDITIONS" => ~ConditionsPass(cur[w], run[w].wf)
    BY <1>4 DEF Leaves, Outcome, OrderInv, PlaceOf
  <2>4. \A e \in Events, u \in Workflows :
          exec'[<<e, u>>] = IF e = cur[w] /\ u = run[w].wf THEN o ELSE exec[<<e, u>>]
    BY <1>4 DEF Leaves, ExecOf, IInv, TypeOK
  <2>5. Conditioned' /\ SkipsJustified' /\ OrderedActions'
    BY <1>4, <2>2, <2>3, <2>4, TablesKept DEF Leaves
  <2> QED BY <1>1, <1>4, <2>1, <2>5 DEF OrderInv, Leaves
<1>5. ASSUME NEW w \in Workers, Stays(w) PROVE OrderInv'
  <2>1. PlaceOf(w)'
    BY <1>5 DEF Stays, OrderInv, PlaceOf, AtAction, ConditionsPass
  <2>2. Conditioned' /\ SkipsJustified' /\ OrderedActions'
    BY <1>5, TablesKept DEF Stays
  <2> QED BY <1>1, <1>5, <2>1, <2>2 DEF OrderInv, Stays
<1>6. ASSUME NEW w \in Workers, Passes(w) PROVE OrderInv'
  <2> DEFINE n == run[w].ord
  <2>1. /\ pc[w] \in AtAction /\ NextOrdinal(w, "ok") /\ UNCHANGED <<outbox, attempts, applied, exec, cur>>
        /\ attempts[KeyOf(w)] # NoAttempt /\ KeyOf(w) = <<cur[w], run[w].wf, n>>
    BY <1>6 DEF Passes, GoesOn, AtAction, AlreadyDone, NoAttempt, KeyOf
  <2>2. /\ pc'[w] \in {"finalize", "attempt"} /\ run'[w].wf = run[w].wf /\ run'[w].ord = n + 1
        /\ OthersSame(w)
    BY <2>1 DEF NextOrdinal, ActionAt, Move, IInv, TypeOK, Run, OthersSame, SameLocals
  <2>3. n \in Nat /\ (n + 1) - 1 = n /\ \A i \in 1..n : i = n \/ i \in 1..(n - 1)
    BY <2>1, AtActionKnown
  <2>4. /\ ConditionsPass(cur[w], run[w].wf)
        /\ \A i \in 1..(n - 1) : attempts[<<cur[w], run[w].wf, i>>] # NoAttempt
    BY <2>1 DEF OrderInv, PlaceOf
  <2>5. \A i \in 1..n : attempts'[<<cur'[w], run'[w].wf, i>>] # NoAttempt
    BY <2>1, <2>2, <2>3, <2>4
  <2>6. ConditionsPass(cur[w], run[w].wf)'
    BY <2>1, <2>2, <2>4 DEF ConditionsPass
  <2>7. PlaceOf(w)'
    BY <2>2, <2>3, <2>5, <2>6 DEF PlaceOf, AtAction
  <2>8. Conditioned' /\ SkipsJustified' /\ OrderedActions'
    BY <2>1, TablesKept
  <2> QED BY <1>1, <2>1, <2>2, <2>7, <2>8 DEF OrderInv
<1> QED BY <1>2, <1>3, <1>4, <1>5, <1>6, WriteKept DEF Progress

\* Attempts are made in order and only where the conditions pass, also when
\* leases run out under two workers at the same row.
THEOREM OrderHolds == Spec => [](IInv /\ OrderInv)
<1>1. Init => IInv /\ OrderInv
  BY InitTyped, InitOrder
<1>2. IInv /\ OrderInv /\ [Next]_vars => (IInv /\ OrderInv)'
  <2> SUFFICES ASSUME IInv, OrderInv, [Next]_vars PROVE (IInv /\ OrderInv)'
    OBVIOUS
  <2>1. IInv' /\ RowsPersist
    BY NextTyped, StutterTyped, RowsUnchanged DEF vars
  <2> QED BY <2>1, NextProgress, OrderStep
<1> QED BY <1>1, <1>2, PTL DEF Spec

\* An attempt exists only where every earlier action was attempted.
THEOREM ActionsInOrder == Spec => []OrderedActions
<1>1. IInv /\ OrderInv => OrderedActions
  BY DEF OrderInv
<1> QED BY <1>1, OrderHolds, PTL

\* An execution that was skipped for its conditions never acted.
THEOREM SkippedNeverActed == Spec => []SkippedNeverActs
<1>1. IInv /\ OrderInv => SkippedNeverActs
  <2> SUFFICES ASSUME OrderInv, NEW k \in Keys, exec[<<k[1], k[2]>>] = "SKIPPED_CONDITIONS"
               PROVE  applied[k] = 0 /\ attempts[k] = NoAttempt
    BY DEF SkippedNeverActs
  <2>1. k[1] \in Events /\ k[2] \in Workflows
    BY DEF Keys
  <2> QED BY <2>1 DEF OrderInv, Conditioned, SkipsJustified
<1> QED BY <1>1, OrderHolds, PTL

-----------------------------------------------------------------------------
(* Leases                                                                  *)

\* Batches finish within the lease of their rows, and administrators replay no
\* row that is leased.
LeasesKept == ~StallBeyondLease /\ "CLAIMED" \notin ReplayStates

\* A row in memory is leased, and in one place of the memory.
HoldingOf(w) ==
  /\ pc[w] = "idle" => batch[w] = {}
  /\ pc[w] \in Resting => cur[w] = NoEvent
  /\ cur[w] \notin batch[w]
  /\ \A e \in Events : Holds(w, e) => outbox[e].state = "CLAIMED" /\ outbox[e].lease

HoldingInv == (\A w \in Workers : HoldingOf(w)) /\ LeaseExclusive

LEMMA InitHolding == Init => HoldingInv
<1> SUFFICES ASSUME Init PROVE HoldingInv
  OBVIOUS
<1>1. \A w \in Workers, e \in Events : ~Holds(w, e)
  BY RuntimeConstants DEF Init, Holds
<1> QED BY <1>1 DEF Init, HoldingInv, HoldingOf, LeaseExclusive

\* A step that takes no row, writes no row that is held and keeps resting
\* workers apart from dispatching ones.
LEMMA NothingTaken ==
  ASSUME TypeOK, HoldingInv, UNCHANGED <<batch, cur>>,
         \A x \in Workers : pc'[x] = pc[x] \/ pc'[x] \notin Resting,
         \A e \in Events : (\E x \in Workers : Holds(x, e)) => outbox'[e] = outbox[e]
  PROVE  HoldingInv'
<1>1. \A x \in Workers, e \in Events : Holds(x, e)' <=> Holds(x, e)
  BY DEF Holds
<1> QED BY <1>1 DEF HoldingInv, HoldingOf, LeaseExclusive, Resting

\* A step in which only w lets rows go, and at most those rows are written.
LEMMA RowsLetGo ==
  ASSUME TypeOK, HoldingInv, NEW w \in Workers,
         \A x \in Workers \ {w} : pc'[x] = pc[x] /\ batch'[x] = batch[x] /\ cur'[x] = cur[x],
         batch'[w] \subseteq batch[w], cur'[w] = NoEvent, pc'[w] = "idle" => batch'[w] = {},
         \A e \in Events : (\E x \in Workers : Holds(x, e)') => outbox'[e] = outbox[e]
  PROVE  HoldingInv'
<1>1. NoEvent \notin Events /\ batch[w] \subseteq Events
  BY RuntimeConstants DEF TypeOK
<1>2. \A x \in Workers, e \in Events : Holds(x, e)' => Holds(x, e)
  BY <1>1 DEF Holds
<1>3. ASSUME NEW x \in Workers PROVE HoldingOf(x)'
  BY <1>1, <1>2 DEF HoldingInv, HoldingOf
<1> QED BY <1>2, <1>3 DEF HoldingInv, LeaseExclusive

LEMMA ClaimHolding ==
  ASSUME IInv, HoldingInv, NEW w \in Workers, ClaimBatch(w)
  PROVE  HoldingInv'
<1>1. PICK S \in SUBSET {e \in Events : Claimable(e)} :
        /\ outbox' = [e \in Events |->
                        IF e \in S THEN [outbox[e] EXCEPT !.state = "CLAIMED", !.lease = TRUE]
                                   ELSE outbox[e]]
        /\ batch' = [batch EXCEPT ![w] = S]
  BY DEF ClaimBatch
<1>2. /\ pc[w] = "idle" /\ batch[w] = {} /\ cur[w] = NoEvent /\ NoEvent \notin Events /\ cur' = cur
      /\ batch'[w] = S /\ pc'[w] = "batch"
      /\ \A x \in Workers \ {w} : pc'[x] = pc[x] /\ batch'[x] = batch[x]
  BY <1>1, RuntimeConstants DEF ClaimBatch, HoldingInv, HoldingOf, Resting, IInv, TypeOK, Move
<1>3. \A x \in Workers, e \in S : ~Holds(x, e)
  BY DEF HoldingInv, HoldingOf, Claimable
<1>4. \A e \in Events : Holds(w, e)' <=> e \in S
  BY <1>2 DEF Holds
<1>5. \A x \in Workers \ {w}, e \in Events : Holds(x, e)' <=> Holds(x, e)
  BY <1>2 DEF Holds
<1>6. HoldingOf(w)'
  <2>1. ASSUME NEW e \in S PROVE outbox'[e].state = "CLAIMED" /\ outbox'[e].lease = TRUE
    <3>1. outbox'[e] = [outbox[e] EXCEPT !.state = "CLAIMED", !.lease = TRUE] /\ outbox[e] \in Row
      BY <1>1 DEF IInv, TypeOK
    <3> QED BY <3>1 DEF Row
  <2> QED BY <1>2, <1>4, <2>1 DEF HoldingOf, Resting
<1>7. ASSUME NEW x \in Workers \ {w} PROVE HoldingOf(x)'
  <2>1. \A e \in Events : Holds(x, e) => outbox'[e] = outbox[e]
    BY <1>1, <1>3
  <2> QED BY <1>2, <1>5, <2>1 DEF HoldingInv, HoldingOf
<1>8. LeaseExclusive'
  BY <1>3, <1>4, <1>5 DEF HoldingInv, LeaseExclusive
<1> QED BY <1>6, <1>7, <1>8 DEF HoldingInv

LEMMA TakeHolding ==
  ASSUME IInv, HoldingInv, NEW w \in Workers, TakeEvent(w)
  PROVE  HoldingInv'
<1>1. PICK e \in batch[w] :
        batch' = [batch EXCEPT ![w] = @ \ {e}] /\ cur' = [cur EXCEPT ![w] = e]
  BY DEF TakeEvent
<1>2. e \in Events /\ outbox' = outbox /\ cur[w] = NoEvent
  BY DEF TakeEvent, rows, IInv, TypeOK, HoldingInv, HoldingOf, Resting
<1>3. /\ batch'[w] = batch[w] \ {e} /\ cur'[w] = e /\ pc'[w] \notin Resting
      /\ \A x \in Workers \ {w} : pc'[x] = pc[x] /\ batch'[x] = batch[x] /\ cur'[x] = cur[x]
  BY <1>1 DEF IInv, TypeOK, TakeEvent, Move, Resting
<1>4. \A x \in Workers, d \in Events : Holds(x, d)' <=> Holds(x, d)
  BY <1>2, <1>3, RuntimeConstants DEF Holds
<1> QED BY <1>2, <1>3, <1>4 DEF HoldingInv, HoldingOf, LeaseExclusive, Resting

\* The row a worker finishes is no other worker's, and not in its batch.
LEMMA ReleaseHolding ==
  ASSUME IInv, HoldingInv, NEW w \in Workers, MarkProcessed(w) \/ RecordDeliveryFailure(w)
  PROVE  HoldingInv'
<1>1. /\ pc'[w] = "batch" /\ cur'[w] = NoEvent /\ batch' = batch
      /\ \A x \in Workers \ {w} : pc'[x] = pc[x] /\ cur'[x] = cur[x]
  BY DEF MarkProcessed, RecordDeliveryFailure, Release, Move, IInv, TypeOK
<1>2. cur[w] \in Events /\ cur[w] \notin batch[w] /\ NoEvent \notin Events
  BY LocalsKnown, RuntimeConstants DEF MarkProcessed, RecordDeliveryFailure, MemoryOf, Resting,
     HoldingInv, HoldingOf
<1> PICK d \in Events : d = cur[w]
  BY <1>2
<1>3. \A e \in Events \ {d} : outbox'[e] = outbox[e]
  BY DEF MarkProcessed, RecordDeliveryFailure, IInv, TypeOK
<1>4. ASSUME NEW x \in Workers PROVE ~Holds(x, d)'
  <2>1. CASE x = w
    BY <1>1, <1>2, <2>1 DEF Holds
  <2>2. CASE x # w
    <3>1. Holds(w, d) /\ (Holds(x, d)' => Holds(x, d))
      BY <1>1, <2>2 DEF Holds
    <3> QED BY <1>2, <2>2, <3>1 DEF HoldingInv, LeaseExclusive
  <2> QED BY <2>1, <2>2
<1>5. \A e \in Events : (\E x \in Workers : Holds(x, e)') => outbox'[e] = outbox[e]
  BY <1>3, <1>4
<1>6. batch'[w] \subseteq batch[w] /\ (pc'[w] = "idle" => batch'[w] = {})
  BY <1>1
<1> QED BY <1>1, <1>5, <1>6, RowsLetGo DEF IInv

LEMMA CrashHolding ==
  ASSUME IInv, HoldingInv, NEW w \in Workers, Crash(w)
  PROVE  HoldingInv'
<1>1. /\ pc'[w] = "idle" /\ cur'[w] = NoEvent /\ batch'[w] = {} /\ outbox' = outbox
      /\ \A x \in Workers \ {w} : pc'[x] = pc[x] /\ batch'[x] = batch[x] /\ cur'[x] = cur[x]
  BY DEF Crash, rows, Move, IInv, TypeOK
<1> QED BY <1>1, RowsLetGo DEF IInv

LEMMA EndHolding ==
  ASSUME IInv, HoldingInv, NEW w \in Workers, EndBatch(w)
  PROVE  HoldingInv'
<1>1. /\ pc'[w] = "idle" /\ cur[w] = NoEvent /\ batch[w] = {} /\ UNCHANGED <<outbox, batch, cur>>
      /\ \A x \in Workers \ {w} : pc'[x] = pc[x]
  BY DEF EndBatch, rows, locals, Move, IInv, TypeOK, HoldingInv, HoldingOf, Resting
<1> QED BY <1>1, RowsLetGo DEF IInv

\* The steps inside a dispatch take no row; a new row is held by nobody.
LEMMA DispatchHolding ==
  ASSUME IInv, HoldingInv, NEW w \in Workers,
         \/ FindExecution(w) \/ CreateExecution(w) \/ SkipConditions(w) \/ ReadAttempt(w)
         \/ RunAction(w) \/ ActionFails(w) \/ RecordAttemptFailure(w) \/ FinalizeExecution(w)
         \/ CountFailures(w) \/ AutoPause(w) \/ EndWorkflows(w) \/ ReadDelivery(w)
         \/ CreateFails(w) \/ DispatchError(w)
  PROVE  HoldingInv'
<1>1. UNCHANGED <<batch, cur>>
  BY DEF FindExecution, CreateExecution, SkipConditions, ReadAttempt, RunAction, ActionFails,
         RecordAttemptFailure, FinalizeExecution, CountFailures, AutoPause, EndWorkflows,
         ReadDelivery, CreateFails, DispatchError, rows, locals
<1>2. \A x \in Workers : pc'[x] = pc[x] \/ pc'[x] \notin Resting
  <2>1. ASSUME NEW p, p \notin Resting, Move(w, p)
        PROVE  \A x \in Workers : pc'[x] = pc[x] \/ pc'[x] \notin Resting
    BY <2>1 DEF Move, IInv, TypeOK
  <2>2. \A v, n : ActionAt(v, n) \notin Resting
    BY DEF ActionAt, Resting
  <2>3. \A v : EnterExecution(w, v) =>
                 \A x \in Workers : pc'[x] = pc[x] \/ pc'[x] \notin Resting
    BY <2>1, <2>2 DEF EnterExecution, Resting
  <2>4. NextWorkflow(w) => \A x \in Workers : pc'[x] = pc[x] \/ pc'[x] \notin Resting
    BY <2>1 DEF NextWorkflow, Resting
  <2>5. \A o : NextOrdinal(w, o) => \A x \in Workers : pc'[x] = pc[x] \/ pc'[x] \notin Resting
    BY <2>1, <2>2 DEF NextOrdinal
  <2>6. CASE FindExecution(w) \/ CreateExecution(w)
    BY <2>1, <2>3, <2>4, <2>6 DEF FindExecution, CreateExecution, Resting
  <2>7. CASE SkipConditions(w) \/ FinalizeExecution(w) \/ CountFailures(w) \/ AutoPause(w) \/ CreateFails(w)
    BY <2>1, <2>4, <2>7 DEF SkipConditions, FinalizeExecution, CountFailures, AutoPause, CreateFails,
                            Resting
  <2>8. CASE ReadAttempt(w) \/ RunAction(w) \/ RecordAttemptFailure(w)
    BY <2>1, <2>5, <2>8 DEF ReadAttempt, RunAction, RecordAttemptFailure, Resting
  <2>9. CASE ActionFails(w) \/ EndWorkflows(w) \/ ReadDelivery(w) \/ DispatchError(w)
    BY <2>1, <2>9 DEF ActionFails, EndWorkflows, ReadDelivery, DispatchError, Resting
  <2> QED BY <2>6, <2>7, <2>8, <2>9
<1>3. \A e \in Events : outbox[e].state # "ABSENT" => outbox'[e] = outbox[e]
  <2>1. CASE RunAction(w)
    BY <2>1 DEF RunAction, ChangeStatusEffect, ChangeStatusNoop, AssignEffect, NotificationEffect,
                Append1, IInv, TypeOK
  <2>2. CASE ~RunAction(w)
    BY <2>2 DEF FindExecution, CreateExecution, SkipConditions, ReadAttempt, ActionFails,
         RecordAttemptFailure, FinalizeExecution, CountFailures, AutoPause, EndWorkflows,
         ReadDelivery, CreateFails, DispatchError, rows
  <2> QED BY <2>1, <2>2
<1>4. \A e \in Events : (\E x \in Workers : Holds(x, e)) => outbox'[e] = outbox[e]
  BY <1>3 DEF HoldingInv, HoldingOf
<1> QED BY <1>1, <1>2, <1>4, NothingTaken DEF IInv

\* People and time write no row that is held.
LEMMA OutsideHolding ==
  ASSUME LeasesKept, IInv, HoldingInv,
         \/ \E t \in Tickets, s \in Statuses : AgentChange(t, s)
         \/ \E e \in Events : Replay(e) \/ ExpireLease(e)
         \/ \E v \in Workflows, b \in BOOLEAN : SetEnabled(v, b)
         \/ UNCHANGED vars
  PROVE  HoldingInv'
<1>1. UNCHANGED <<pc, batch, cur>>
  BY DEF AgentChange, Replay, ExpireLease, SetEnabled, locals, vars
<1>2. \A e \in Events : outbox'[e] = outbox[e] \/ \A x \in Workers : ~Holds(x, e)
  <2>1. \A e \in Events : outbox[e].state # "CLAIMED" => \A x \in Workers : ~Holds(x, e)
    BY DEF HoldingInv, HoldingOf
  <2>2. CASE \E t \in Tickets, s \in Statuses : AgentChange(t, s)
    BY <2>1, <2>2 DEF AgentChange, Append1, IInv, TypeOK
  <2>3. CASE \E e \in Events : Replay(e)
    BY <2>1, <2>3 DEF Replay, LeasesKept, IInv, TypeOK
  <2>4. CASE \E e \in Events : ExpireLease(e)
    BY <2>4 DEF ExpireLease, LeasesKept, IInv, TypeOK
  <2>5. CASE (\E v \in Workflows, b \in BOOLEAN : SetEnabled(v, b)) \/ UNCHANGED vars
    BY <2>5 DEF SetEnabled, vars
  <2> QED BY <2>2, <2>3, <2>4, <2>5
<1> QED BY <1>1, <1>2, NothingTaken DEF IInv

LEMMA NextHolding ==
  ASSUME LeasesKept, IInv, HoldingInv, [Next]_vars
  PROVE  HoldingInv'
<1>1. ASSUME NEW w \in Workers, Step(w) PROVE HoldingInv'
  BY <1>1, ClaimHolding, TakeHolding, EndHolding, DispatchHolding, ReleaseHolding DEF Step
<1> QED BY <1>1, OutsideHolding, CrashHolding, DispatchHolding DEF Next, Environment

-----------------------------------------------------------------------------
(* Outcomes, while leases exclude                                          *)

Done(e, v, i) == attempts[<<e, v, i>>].state = "SUCCEEDED"

\* What a worker inside a workflow knows of its execution and of the actions it
\* has passed.
KnowledgeOf(w) ==
  /\ pc[w] \in Busy => exec[ExecOf(w)] = "RUNNING"
  /\ pc[w] \in {"act", "record"} => ~Done(cur[w], run[w].wf, run[w].ord)
  /\ pc[w] \in InLoop =>
       /\ run[w].ok  <=> \E i \in 1..(run[w].ord - 1) : Done(cur[w], run[w].wf, i)
       /\ run[w].bad <=> \E i \in 1..(run[w].ord - 1) : ~Done(cur[w], run[w].wf, i)
  /\ pc[w] = "finalize" => run[w].ord = Len(Actions[run[w].wf]) + 1

\* The outcome of v's execution for e is that of its actions.
Tells(e, v) ==
  /\ exec[<<e, v>>] = "SUCCEEDED" => \A i \in 1..Len(Actions[v]) : Done(e, v, i)
  /\ exec[<<e, v>>] = "PARTIAL_FAILED" =>
       /\ \E i \in 1..Len(Actions[v]) : Done(e, v, i)
       /\ \E i \in 1..Len(Actions[v]) : ~Done(e, v, i)
  /\ exec[<<e, v>>] = "FAILED" => \A i \in 1..Len(Actions[v]) : ~Done(e, v, i)

OutcomeInv ==
  /\ \A w \in Workers : KnowledgeOf(w)
  /\ \A e \in Events, v \in Workflows : Tells(e, v)

LEMMA InitOutcome == Init => OutcomeInv
BY DEF Init, OutcomeInv, KnowledgeOf, Tells, Busy, InLoop

LEMMA ActionCount ==
  ASSUME NEW v \in Workflows
  PROVE  /\ Len(Actions[v]) \in Nat
         /\ \A i \in 1..Len(Actions[v]), e \in Events : <<e, v, i>> \in Keys
<1>1. Len(Actions[v]) \in Nat /\ MaxOrdinal \in Nat /\ Len(Actions[v]) <= MaxOrdinal
  BY RuntimeConstants
<1> QED BY <1>1 DEF Keys, Ordinals

\* The actions a worker has passed have keys.
LEMMA PassedKeys ==
  ASSUME IInv, NEW w \in Workers, KnowledgeOf(w), pc[w] \in InLoop, NEW i \in 1..(run[w].ord - 1)
  PROVE  i \in 1..Len(Actions[run[w].wf]) /\ <<cur[w], run[w].wf, i>> \in Keys
<1>1. run[w].wf \in Workflows /\ cur[w] \in Events /\ run[w].ord \in Nat
  BY BusyKnown DEF Busy, Run
<1>2. Len(Actions[run[w].wf]) \in Nat
  BY <1>1, ActionCount
<1>3. run[w].ord <= Len(Actions[run[w].wf]) + 1
  <2>1. CASE pc[w] = "finalize"
    BY <1>1, <1>2, <2>1 DEF KnowledgeOf
  <2>2. CASE pc[w] \in AtAction
    BY <1>1, <1>2, <2>2, AtActionKnown
  <2> QED BY <2>1, <2>2 DEF InLoop, AtAction
<1>4. i \in 1..Len(Actions[run[w].wf])
  BY <1>1, <1>2, <1>3
<1> QED BY <1>1, <1>4, ActionCount

\* A worker whose row nobody else writes knows what it knew.
LEMMA KnowledgeKept ==
  ASSUME IInv, NEW x \in Workers, KnowledgeOf(x), SameLocals(x),
         pc[x] \in Busy => /\ exec'[ExecOf(x)] = exec[ExecOf(x)]
                           /\ \A k \in Keys : k[1] = cur[x] => attempts'[k] = attempts[k]
  PROVE  KnowledgeOf(x)'
<1>1. /\ pc'[x] = pc[x] /\ ExecOf(x)' = ExecOf(x) /\ cur'[x] = cur[x]
      /\ run'[x].wf = run[x].wf /\ run'[x].ord = run[x].ord
      /\ run'[x].ok = run[x].ok /\ run'[x].bad = run[x].bad
  BY DEF SameLocals, ExecOf
<1>2. pc'[x] \in Busy => exec'[ExecOf(x)'] = "RUNNING"
  BY <1>1 DEF KnowledgeOf
<1>3. pc[x] \in {"act", "record"} =>
        (Done(cur[x], run[x].wf, run[x].ord)' <=> Done(cur[x], run[x].wf, run[x].ord))
  <2>1. ASSUME pc[x] \in {"act", "record"}
        PROVE  <<cur[x], run[x].wf, run[x].ord>> \in Keys
    BY <2>1, AtActionKnown DEF AtAction, KeyOf
  <2> QED BY <1>1, <2>1 DEF Done, Busy, InLoop
<1>4. ASSUME pc[x] \in InLoop, NEW i \in 1..(run[x].ord - 1)
      PROVE  Done(cur[x], run[x].wf, i)' <=> Done(cur[x], run[x].wf, i)
  BY <1>1, <1>4, PassedKeys DEF Done, Busy
<1>5. ASSUME pc'[x] \in InLoop
      PROVE  /\ run'[x].ok  <=> \E i \in 1..(run'[x].ord - 1) : Done(cur[x], run[x].wf, i)'
             /\ run'[x].bad <=> \E i \in 1..(run'[x].ord - 1) : ~Done(cur[x], run[x].wf, i)'
  BY <1>1, <1>4, <1>5 DEF KnowledgeOf
<1> QED BY <1>1, <1>2, <1>3, <1>5 DEF KnowledgeOf

\* The rows of two workers differ.
LEMMA RowsDiffer ==
  ASSUME IInv, HoldingInv, NEW w \in Workers, NEW x \in Workers \ {w}, pc[x] \in Busy,
         cur[w] \in Events
  PROVE  cur[x] # cur[w]
BY BusyKnown DEF HoldingInv, LeaseExclusive, Holds

LEMMA OthersKnow ==
  ASSUME IInv, HoldingInv, OutcomeInv, NEW w \in Workers, OthersSame(w), cur[w] \in Events,
         \A e \in Events, v \in Workflows : e # cur[w] => exec'[<<e, v>>] = exec[<<e, v>>],
         \A k \in Keys : k[1] # cur[w] => attempts'[k] = attempts[k]
  PROVE  \A x \in Workers \ {w} : KnowledgeOf(x)'
<1> SUFFICES ASSUME NEW x \in Workers \ {w} PROVE KnowledgeOf(x)'
  OBVIOUS
<1>1. SameLocals(x) /\ KnowledgeOf(x)
  BY DEF OthersSame, OutcomeInv
<1>2. ASSUME pc[x] \in Busy
      PROVE  /\ exec'[ExecOf(x)] = exec[ExecOf(x)]
             /\ \A k \in Keys : k[1] = cur[x] => attempts'[k] = attempts[k]
  BY <1>2, RowsDiffer, BusyKnown DEF ExecOf
<1> QED BY <1>1, <1>2, KnowledgeKept

\* An outcome stays right if the attempts it tells of stay as they are.
LEMMA TellsKept ==
  ASSUME NEW e \in Events, NEW v \in Workflows, Tells(e, v),
         exec'[<<e, v>>] = exec[<<e, v>>],
         \A i \in 1..Len(Actions[v]) : attempts'[<<e, v, i>>] = attempts[<<e, v, i>>]
  PROVE  Tells(e, v)'
BY DEF Tells, Done

\* A worker that goes on knows one action more.
LEMMA AdvanceKnows ==
  ASSUME IInv, NEW w \in Workers, KnowledgeOf(w), pc[w] \in AtAction,
         NEW o \in {"ok", "bad"}, NextOrdinal(w, o), UNCHANGED <<exec, cur>>,
         attempts'[KeyOf(w)].state = "SUCCEEDED" <=> o = "ok",
         \A k \in Keys \ {KeyOf(w)} : attempts'[k] = attempts[k]
  PROVE  KnowledgeOf(w)'
<1> DEFINE n == run[w].ord
           v == run[w].wf
           e == cur[w]
           D(i) == attempts'[<<e, v, i>>].state = "SUCCEEDED"
<1>1. /\ KeyOf(w) = <<e, v, n>> /\ KeyOf(w) \in Keys /\ n \in 1..Len(Actions[v]) /\ v \in Workflows
      /\ Len(Actions[v]) \in Nat /\ pc[w] \in InLoop
  BY AtActionKnown, ActionCount DEF KeyOf, AtAction, InLoop
<1>2. /\ pc'[w] = ActionAt(v, n + 1) /\ cur'[w] = e
      /\ run'[w].wf = v /\ run'[w].ord = n + 1
      /\ run'[w].ok = (run[w].ok \/ o = "ok") /\ run'[w].bad = (run[w].bad \/ o = "bad")
  BY DEF NextOrdinal, Move, IInv, TypeOK, Run
<1>3. \A i \in 1..(n - 1) : D(i) <=> Done(e, v, i)
  <2> SUFFICES ASSUME NEW i \in 1..(n - 1) PROVE D(i) <=> Done(e, v, i)
    OBVIOUS
  <2>1. <<e, v, i>> \in Keys /\ <<e, v, i>> # KeyOf(w)
    BY <1>1, PassedKeys
  <2> QED BY <2>1 DEF Done
<1>4. D(n) <=> o = "ok"
  BY <1>1
<1>5. /\ run[w].ok <=> \E i \in 1..(n - 1) : Done(e, v, i)
      /\ run[w].bad <=> \E i \in 1..(n - 1) : ~Done(e, v, i)
  BY <1>1 DEF KnowledgeOf
<1>6. (n + 1) - 1 = n /\ n \in 1..n /\ \A i \in 1..n : i = n \/ i \in 1..(n - 1)
  BY <1>1
<1>7. \A i \in 1..(n - 1) : i \in 1..n
  BY <1>1
<1> HIDE DEF D, n, e, v
<1>8. (run[w].ok \/ o = "ok") <=> \E i \in 1..n : D(i)
  BY <1>3, <1>4, <1>5, <1>6, <1>7
<1>9. (run[w].bad \/ o = "bad") <=> \E i \in 1..n : ~D(i)
  BY <1>3, <1>4, <1>5, <1>6, <1>7
<1>10. pc'[w] \in {"finalize", "attempt"} /\ (pc'[w] = "finalize" => n + 1 = Len(Actions[v]) + 1)
  BY <1>1, <1>2 DEF ActionAt
<1>11. pc'[w] \in Busy => exec'[ExecOf(w)'] = "RUNNING"
  <2>1. ExecOf(w)' = ExecOf(w)
    BY <1>2 DEF ExecOf, e, v
  <2> QED BY <1>1, <2>1 DEF KnowledgeOf, Busy
<1>12. /\ run'[w].ok  <=> \E i \in 1..(run'[w].ord - 1) : D(i)
       /\ run'[w].bad <=> \E i \in 1..(run'[w].ord - 1) : ~D(i)
  BY <1>2, <1>6, <1>8, <1>9
<1> USE DEF D, e, v
<1> QED BY <1>2, <1>10, <1>11, <1>12 DEF KnowledgeOf, Done, InLoop

\* What a step leaves of attempts and outcomes.
Finality ==
  /\ \A k \in Keys : attempts[k].state = "SUCCEEDED" => attempts'[k] = attempts[k]
  /\ \A x \in Events \X Workflows : exec[x] \in ExecutionDone => exec'[x] = exec[x]

LEMMA OutcomeStep ==
  ASSUME IInv, HoldingInv, OutcomeInv, Progress
  PROVE  OutcomeInv' /\ Finality
<1>1. CASE Elsewhere
  <2>1. ASSUME NEW x \in Workers PROVE KnowledgeOf(x)'
    <3>1. CASE SameLocals(x)
      BY <1>1, <3>1, KnowledgeKept DEF Elsewhere, OutcomeInv
    <3>2. CASE pc'[x] \notin Busy
      BY <3>2 DEF KnowledgeOf, Busy, InLoop
    <3> QED BY <1>1, <3>1, <3>2 DEF Elsewhere
  <2>2. \A e \in Events, v \in Workflows : Tells(e, v)'
    BY <1>1, TellsKept DEF Elsewhere, OutcomeInv
  <2> QED BY <1>1, <2>1, <2>2 DEF Elsewhere, OutcomeInv, Finality
<1>2. ASSUME NEW w \in Workers, NEW v \in Workflows, Enters(w, v) PROVE OutcomeInv' /\ Finality
  <2>1. cur[w] \in Events /\ OthersSame(w) /\ attempts' = attempts
        /\ exec[<<cur[w], v>>] \in {"NONE", "RUNNING"}
        /\ \A x \in Events \X Workflows :
             exec'[x] = IF x = <<cur[w], v>> THEN "RUNNING" ELSE exec[x]
    BY <1>2 DEF Enters
  <2>2. \A x \in Workers \ {w} : KnowledgeOf(x)'
    BY <2>1, OthersKnow
  <2>3. KnowledgeOf(w)'
    <3>1. /\ run'[w].wf = v /\ run'[w].ord = 1 /\ run'[w].ok = FALSE /\ run'[w].bad = FALSE
          /\ cur'[w] = cur[w]
      BY <1>2 DEF Enters, NoRun
    <3>2. exec'[ExecOf(w)'] = "RUNNING"
      BY <2>1, <3>1 DEF ExecOf
    <3>3. pc'[w] \in {"skip", ActionAt(v, 1)} /\ Len(Actions[v]) \in Nat
      BY <1>2, ActionCount DEF Enters
    <3>4. pc'[w] \notin {"act", "record"} /\ (pc'[w] = "finalize" => 1 = Len(Actions[v]) + 1)
      BY <3>3 DEF ActionAt
    <3>5. 1 .. (1 - 1) = {}
      OBVIOUS
    <3> QED BY <3>1, <3>2, <3>4, <3>5 DEF KnowledgeOf
  <2>4. ASSUME NEW e \in Events, NEW u \in Workflows PROVE Tells(e, u)'
    <3>1. CASE e = cur[w] /\ u = v
      <4>1. exec'[<<e, u>>] = "RUNNING"
        BY <2>1, <3>1
      <4> QED BY <4>1 DEF Tells
    <3>2. CASE ~(e = cur[w] /\ u = v)
      BY <2>1, <3>2, TellsKept DEF OutcomeInv
    <3> QED BY <3>1, <3>2
  <2>5. Finality
    BY <2>1 DEF Finality, ExecutionDone
  <2> QED BY <2>2, <2>3, <2>4, <2>5 DEF OutcomeInv
<1>3. ASSUME NEW w \in Workers, NEW o \in ExecutionDone, Leaves(w, o) PROVE OutcomeInv' /\ Finality
  <2> DEFINE v == run[w].wf
  <2>1. cur[w] \in Events /\ v \in Workflows /\ run[w] \in Run /\ KnowledgeOf(w) /\ pc[w] \in Busy
    BY <1>3, BusyKnown DEF Leaves, Busy, InLoop, OutcomeInv
  <2>2. \A e \in Events, u \in Workflows :
          exec'[<<e, u>>] = IF e = cur[w] /\ u = v THEN o ELSE exec[<<e, u>>]
    BY <1>3 DEF Leaves, ExecOf, IInv, TypeOK
  <2>3. OthersSame(w) /\ pc'[w] \notin Busy /\ attempts' = attempts
    BY <1>3 DEF Leaves
  <2>4. \A x \in Workers : KnowledgeOf(x)'
    <3>1. KnowledgeOf(w)'
      BY <2>3 DEF KnowledgeOf, Busy, InLoop
    <3> QED BY <2>1, <2>2, <2>3, <3>1, OthersKnow
  <2>5. Tells(cur[w], v)
    BY <2>1 DEF OutcomeInv
  <2>6. exec[<<cur[w], v>>] = "RUNNING"
    BY <2>1 DEF KnowledgeOf, ExecOf
  <2>7. ASSUME pc[w] = "finalize", o = Outcome(w)
        PROVE  /\ o = "SUCCEEDED" => \A i \in 1..Len(Actions[v]) : Done(cur[w], v, i)
               /\ o = "PARTIAL_FAILED" => /\ \E i \in 1..Len(Actions[v]) : Done(cur[w], v, i)
                                          /\ \E i \in 1..Len(Actions[v]) : ~Done(cur[w], v, i)
               /\ o = "FAILED" => \A i \in 1..Len(Actions[v]) : ~Done(cur[w], v, i)
    <3>1. Len(Actions[v]) \in Nat /\ run[w].ord - 1 = Len(Actions[v])
      BY <2>1, <2>7, ActionCount DEF KnowledgeOf
    <3>2. /\ run[w].ok  <=> \E i \in 1..Len(Actions[v]) : Done(cur[w], v, i)
          /\ run[w].bad <=> \E i \in 1..Len(Actions[v]) : ~Done(cur[w], v, i)
      BY <2>1, <2>7, <3>1 DEF KnowledgeOf, InLoop
    <3>3. o = IF Len(Actions[v]) = 0 \/ (run[w].ok /\ ~run[w].bad) THEN "SUCCEEDED"
              ELSE IF run[w].ok THEN "PARTIAL_FAILED" ELSE "FAILED"
      BY <2>7 DEF Outcome
    <3>4. Len(Actions[v]) = 0 => 1..Len(Actions[v]) = {}
      BY <3>1
    <3> HIDE DEF v
    <3>5. o = "SUCCEEDED" => \A i \in 1..Len(Actions[v]) : Done(cur[w], v, i)
      BY <3>2, <3>3, <3>4
    <3>6. o = "PARTIAL_FAILED" => run[w].ok /\ run[w].bad
      BY <3>3
    <3>7. o = "FAILED" => ~run[w].ok
      BY <3>3
    <3> QED BY <3>2, <3>5, <3>6, <3>7
  <2>8. ASSUME NEW e \in Events, NEW u \in Workflows PROVE Tells(e, u)'
    <3>1. CASE ~(e = cur[w] /\ u = v)
      BY <2>2, <2>3, <3>1, TellsKept DEF OutcomeInv
    <3>2. CASE e = cur[w] /\ u = v
      <4>1. exec'[<<e, u>>] = o
        BY <2>2, <3>2
      <4>2. \A i : Done(e, u, i)' <=> Done(e, u, i)
        BY <2>3 DEF Done
      <4>3. CASE o = "SKIPPED_CONDITIONS"
        BY <4>1, <4>3 DEF Tells
      <4>4. CASE pc[w] = "finalize" /\ o = Outcome(w)
        BY <2>7, <3>2, <4>1, <4>2, <4>4 DEF Tells
      <4> QED BY <1>3, <4>3, <4>4 DEF Leaves
    <3> QED BY <3>1, <3>2
  <2>9. Finality
    BY <2>2, <2>3, <2>6 DEF Finality, ExecutionDone
  <2> QED BY <2>4, <2>8, <2>9 DEF OutcomeInv
<1>4. ASSUME NEW w \in Workers, Stays(w) PROVE OutcomeInv' /\ Finality
  <2>1. /\ pc[w] \in {"attempt", "act"} /\ OthersSame(w) /\ UNCHANGED <<exec, attempts>>
        /\ cur'[w] = cur[w] /\ run'[w].wf = run[w].wf /\ run'[w].ord = run[w].ord
        /\ run'[w].ok = run[w].ok /\ run'[w].bad = run[w].bad /\ pc'[w] \in {"act", "record"}
    BY <1>4 DEF Stays
  <2>2. KnowledgeOf(w) /\ cur[w] \in Events
    BY <2>1, BusyKnown DEF OutcomeInv, Busy, InLoop
  <2>3. ~Done(cur[w], run[w].wf, run[w].ord)
    BY <1>4, <2>2 DEF Stays, KnowledgeOf, AlreadyDone, KeyOf, Done
  <2>4. exec[ExecOf(w)] = "RUNNING" /\ ExecOf(w)' = ExecOf(w)
    BY <2>1, <2>2 DEF KnowledgeOf, Busy, InLoop, ExecOf
  <2>5. KnowledgeOf(w)'
    BY <2>1, <2>2, <2>3, <2>4 DEF KnowledgeOf, Busy, InLoop, Done
  <2>6. \A x \in Workers \ {w} : KnowledgeOf(x)'
    BY <2>1, <2>2, OthersKnow
  <2>7. \A e \in Events, v \in Workflows : Tells(e, v)'
    BY <2>1, TellsKept DEF OutcomeInv
  <2> QED BY <2>1, <2>5, <2>6, <2>7 DEF OutcomeInv, Finality
<1>5. ASSUME NEW w \in Workers, NEW o \in {"ok", "bad"}, pc[w] \in AtAction, GoesOn(w, o),
             ~AlreadyDone(KeyOf(w)) \/ attempts' = attempts,
             attempts'[KeyOf(w)].state = "SUCCEEDED" <=> o = "ok",
             \A k \in Keys \ {KeyOf(w)} : attempts'[k] = attempts[k]
      PROVE  OutcomeInv' /\ Finality
  <2>1. /\ NextOrdinal(w, o) /\ UNCHANGED <<exec, cur>> /\ KnowledgeOf(w) /\ OthersSame(w)
        /\ cur[w] \in Events /\ run[w].wf \in Workflows /\ KeyOf(w)[1] = cur[w]
        /\ KeyOf(w) = <<cur[w], run[w].wf, run[w].ord>>
    BY <1>5, AtActionKnown DEF GoesOn, OutcomeInv, OthersSame, SameLocals, NextOrdinal, Move,
                               IInv, TypeOK, KeyOf
  <2>2. KnowledgeOf(w)'
    BY <1>5, <2>1, AdvanceKnows
  <2>3. \A x \in Workers \ {w} : KnowledgeOf(x)'
    BY <1>5, <2>1, OthersKnow
  <2>4. exec[<<cur[w], run[w].wf>>] = "RUNNING"
    BY <1>5, <2>1 DEF KnowledgeOf, ExecOf, Busy, InLoop, AtAction
  <2>5. ASSUME NEW e \in Events, NEW v \in Workflows PROVE Tells(e, v)'
    <3>1. CASE e = cur[w] /\ v = run[w].wf
      BY <2>1, <2>4, <3>1 DEF Tells
    <3>2. CASE ~(e = cur[w] /\ v = run[w].wf)
      <4>1. \A i \in 1..Len(Actions[v]) : <<e, v, i>> \in Keys /\ <<e, v, i>> # KeyOf(w)
        BY <2>1, <3>2, ActionCount
      <4> QED BY <1>5, <2>1, <4>1, TellsKept DEF OutcomeInv
    <3> QED BY <3>1, <3>2
  <2>6. Finality
    BY <1>5, <2>1 DEF Finality, AlreadyDone
  <2> QED BY <2>2, <2>3, <2>5, <2>6 DEF OutcomeInv
<1>6. ASSUME NEW w \in Workers, Passes(w) PROVE OutcomeInv' /\ Finality
  <2>1. pc[w] \in AtAction /\ GoesOn(w, "ok") /\ attempts' = attempts
        /\ attempts'[KeyOf(w)].state = "SUCCEEDED"
    BY <1>6 DEF Passes, AtAction, AlreadyDone
  <2> QED BY <1>5, <2>1
<1>7. ASSUME NEW w \in Workers, NEW o \in {"ok", "bad"}, Writes(w, o) PROVE OutcomeInv' /\ Finality
  <2>1. pc[w] \in {"act", "record"} /\ pc[w] \in AtAction /\ GoesOn(w, o)
        /\ (attempts'[KeyOf(w)].state = "SUCCEEDED" <=> o = "ok")
        /\ \A k \in Keys \ {KeyOf(w)} : attempts'[k] = attempts[k]
    BY <1>7 DEF Writes, AtAction
  <2>2. ~AlreadyDone(KeyOf(w))
    BY <2>1 DEF OutcomeInv, KnowledgeOf, AlreadyDone, Done, KeyOf
  <2> QED BY <1>5, <2>1, <2>2
<1> QED BY <1>1, <1>2, <1>3, <1>4, <1>6, <1>7 DEF Progress

-----------------------------------------------------------------------------
\* While leases are kept, no row is with two workers, every worker knows the
\* outcome of the actions it has passed, and outcomes tell the truth.
THEOREM OutcomesHold == ASSUME LeasesKept PROVE Spec => [](IInv /\ HoldingInv /\ OutcomeInv)
<1>1. Init => IInv /\ HoldingInv /\ OutcomeInv
  BY InitTyped, InitHolding, InitOutcome
<1>2. IInv /\ HoldingInv /\ OutcomeInv /\ [Next]_vars => (IInv /\ HoldingInv /\ OutcomeInv)'
  <2> SUFFICES ASSUME IInv, HoldingInv, OutcomeInv, [Next]_vars
               PROVE  (IInv /\ HoldingInv /\ OutcomeInv)'
    OBVIOUS
  <2>1. IInv'
    BY NextTyped, StutterTyped
  <2> QED BY <2>1, NextHolding, NextProgress, OutcomeStep
<1> QED BY <1>1, <1>2, PTL DEF Spec

\* Mutual exclusion of the lease.
THEOREM LeasesExclude == ASSUME LeasesKept PROVE Spec => []LeaseExclusive
<1>1. HoldingInv => LeaseExclusive
  BY DEF HoldingInv
<1> QED BY <1>1, OutcomesHold, PTL

\* The state an execution ends in tells what happened to its actions.
THEOREM OutcomesTell == ASSUME LeasesKept PROVE Spec => []OutcomeMatchesAttempts
<1>1. OutcomeInv => OutcomeMatchesAttempts
  <2> SUFFICES ASSUME OutcomeInv, NEW e \in Events, NEW v \in Workflows
      PROVE  LET done == {i \in 1..Len(Actions[v]) : attempts[<<e, v, i>>].state = "SUCCEEDED"}
             IN  /\ exec[<<e, v>>] = "SUCCEEDED" => done = 1..Len(Actions[v])
                 /\ exec[<<e, v>>] = "PARTIAL_FAILED" => done # {} /\ done # 1..Len(Actions[v])
                 /\ exec[<<e, v>>] = "FAILED" => done = {}
    BY DEF OutcomeMatchesAttempts
  <2> DEFINE all  == 1..Len(Actions[v])
             done == {i \in all : attempts[<<e, v, i>>].state = "SUCCEEDED"}
  <2>1. Tells(e, v)
    BY DEF OutcomeInv
  <2>2. exec[<<e, v>>] = "SUCCEEDED" => done = all
    BY <2>1 DEF Tells, Done
  <2>3. exec[<<e, v>>] = "PARTIAL_FAILED" => done # {} /\ done # all
    BY <2>1 DEF Tells, Done
  <2>4. exec[<<e, v>>] = "FAILED" => done = {}
    BY <2>1 DEF Tells, Done
  <2> QED BY <2>2, <2>3, <2>4
<1> QED BY <1>1, OutcomesHold, PTL

LEMMA FinalityHolds == ASSUME LeasesKept PROVE Spec => [][Finality]_vars
<1>1. IInv /\ HoldingInv /\ OutcomeInv /\ [Next]_vars => [Finality]_vars
  BY NextProgress, OutcomeStep
<1> QED BY <1>1, OutcomesHold, PTL DEF Spec

\* An attempt that succeeded is never written again.
THEOREM SuccessIsFinal == ASSUME LeasesKept PROVE Spec => SucceededIsFinal
<1> DEFINE Kept == \A k \in Keys : attempts[k].state = "SUCCEEDED" => attempts'[k] = attempts[k]
<1>1. [Finality]_vars => [Kept]_vars
  BY DEF Finality
<1> HIDE DEF Kept
<1>2. Spec => [][Kept]_vars
  BY <1>1, FinalityHolds, PTL
<1> USE DEF Kept
<1> QED BY <1>2 DEF SucceededIsFinal

\* A finished execution is never reopened or given another outcome.
THEOREM OutcomesAreFinal == ASSUME LeasesKept PROVE Spec => OutcomeIsFinal
<1> DEFINE Kept == \A x \in Events \X Workflows : exec[x] \in ExecutionDone => exec'[x] = exec[x]
<1>1. [Finality]_vars => [Kept]_vars
  BY DEF Finality
<1> HIDE DEF Kept
<1>2. Spec => [][Kept]_vars
  BY <1>1, FinalityHolds, PTL
<1> USE DEF Kept
<1> QED BY <1>2 DEF OutcomeIsFinal

=============================================================================
