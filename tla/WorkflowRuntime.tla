--------------------------- MODULE WorkflowRuntime ---------------------------
(***************************************************************************)
(* The transactional outbox and the workflow automation runtime.           *)
(*                                                                         *)
(* Domain writes append a row to outbox_events in their own transaction.   *)
(* Every API process runs one poll loop (OutboxClaimerService) that leases *)
(* a batch of rows and dispatches them one after the other: for every      *)
(* enabled workflow the event triggers it finds or creates an execution    *)
(* row, evaluates the conditions, runs the actions in order, each in its   *)
(* own database transaction, finalises the execution and finally marks the *)
(* row PROCESSED.  Actions append further events one automation level      *)
(* deeper.  Between two awaits every other process may run, so each action *)
(* below is one database round trip.                                       *)
(*                                                                         *)
(* Abstractions: one tenant; a payload is the ticket and the status it     *)
(* carries; backoff times are left out because no query ever looks at the  *)
(* available_at of a FAILED row; attempt counters saturate at the limit    *)
(* they are compared with.                                                 *)
(***************************************************************************)
EXTENDS Naturals, FiniteSets, Sequences

CONSTANTS
  Workers,            \* API processes, each with one outbox poll loop
  Events,             \* identities of outbox rows (a bound: no new row when all are used)
  Tickets, Statuses,
  NumWorkflows,       \* workflows are 1..NumWorkflows, by ascending priority
  Triggers,           \* [workflow -> set of event types its active version lists]
  Conditions,         \* [workflow -> statuses of the payload that pass its conditions]
  Actions,            \* [workflow -> sequence of [kind, to] action definitions]
  MaxOrdinal,         \* bound: the length of the longest action list
  BatchSize,          \* rows leased by one claim (20 in the code)
  MaxDepth,           \* automation depth budget (3 in the code)
  MaxDeliveries,      \* outbox attempts before dead-lettering (8 in the code)
  MaxActionAttempts,  \* action attempts before dead-lettering (5 in the code)
  PauseThreshold,     \* failed executions that pause a workflow (10 in the code)
  StallBeyondLease,   \* may a batch outlast the 60 s lease of its rows?
  ReplayStates,       \* states of the rows administrators replay (the code checks none)
  MaxCommands,        \* bound: commands of people in a behaviour
  MaxDisturbances,    \* bound: crashes, errors, replays, pauses, resumes in a behaviour
  NoEvent, NoKey      \* "no row" and "no dedupe key of an action"

Workflows   == 1..NumWorkflows
Ordinals    == 1..MaxOrdinal
EventTypes  == {"ticket.status_changed", "ticket.assigned"}
ActionKinds == {"change_status", "assign", "create_notification", "unregistered"}

\* The identity of one workflow action run for one event: the unique key of an
\* attempt row, and what the dedupe keys "wf:<execution>:act:<ordinal>:..." and
\* "intent:<tenant>:<execution>:<ordinal>:..." are built from.
Keys == Events \X Workflows \X Ordinals

ASSUME RuntimeConstants ==
  /\ NumWorkflows \in Nat \ {0}
  /\ Triggers \in [Workflows -> SUBSET EventTypes]
  /\ Conditions \in [Workflows -> SUBSET Statuses]
  /\ Actions \in [Workflows -> Seq([kind : ActionKinds, to : Statuses])]
  /\ MaxOrdinal \in Nat
  /\ \A v \in Workflows : Len(Actions[v]) <= MaxOrdinal
  /\ BatchSize \in Nat \ {0}
  /\ MaxDepth \in Nat \ {0}
  /\ MaxDeliveries \in Nat \ {0}
  /\ MaxActionAttempts \in Nat \ {0}
  /\ PauseThreshold \in Nat \ {0}
  /\ StallBeyondLease \in BOOLEAN
  /\ MaxCommands \in Nat
  /\ MaxDisturbances \in Nat
  /\ Tickets # {} /\ Statuses # {}
  /\ NoEvent \notin Events
  /\ NoKey \notin Keys

OutboxStates  == {"PENDING", "CLAIMED", "PROCESSED", "FAILED", "DEAD_LETTERED"}
ASSUME ReplayConstants == ReplayStates \subseteq OutboxStates

ExecutionDone == {"SKIPPED_CONDITIONS", "SUCCEEDED", "PARTIAL_FAILED", "FAILED"}
AttemptStates == {"NONE", "SUCCEEDED", "FAILED", "DEAD_LETTERED"}

VARIABLES
  outbox,     \* outbox_events rows
  exec,       \* workflow_executions.state by <<event, workflow>>, "NONE": no row
  attempts,   \* workflow_action_attempts by key
  applied,    \* history: how often the effect of a key was committed
  status,     \* tickets.status
  enabled,    \* workflows.enabled
  pc,         \* where a worker stands between two awaits
  batch,      \* claimed rows the worker has not dispatched yet
  cur,        \* the row it is dispatching
  plan,       \* matching workflows it has not finished, read when it took the row
  run,        \* locals of the workflow it is at, NoRun between workflows
  budget      \* bound: disturbances left

rows   == <<outbox, exec, attempts, applied, status, enabled>>
locals == <<batch, cur, plan, run>>
vars   == <<outbox, exec, attempts, applied, status, enabled,
            pc, batch, cur, plan, run, budget>>

Row == [state : OutboxStates \cup {"ABSENT"},
        depth : 0..MaxDepth,
        type  : EventTypes,
        ticket : Tickets,
        status : Statuses,
        key   : Keys \cup {NoKey},
        tries : 0..MaxDeliveries,
        lease : BOOLEAN]            \* is lease_expires_at in the future?

Attempt == [state : AttemptStates, number : 0..MaxActionAttempts]
NoAttempt == [state |-> "NONE", number |-> 0]

\* No row is stored under the identity: only its state is ever read.
NoRow == [state |-> "ABSENT", depth |-> 0, type |-> "ticket.assigned",
          ticket |-> CHOOSE t \in Tickets : TRUE, status |-> CHOOSE s \in Statuses : TRUE,
          key |-> NoKey, tries |-> 0, lease |-> FALSE]

\* Locals of dispatchOutboxEvent's loop body and of executeActions.
Run == [wf   : Workflows \cup {0},     \* the workflow, 0: none
        ord  : Nat,                    \* ordinal of the current action
        seen : Nat,                    \* attempt number or attempt count last read
        ok   : BOOLEAN,                \* hasSuccess
        bad  : BOOLEAN]                \* hasFailure
NoRun == [wf |-> 0, ord |-> 1, seen |-> 0, ok |-> FALSE, bad |-> FALSE]

Positions == {"idle", "batch", "workflow", "create", "skip", "attempt", "act",
              "record", "finalize", "count", "pause", "mark", "fail_read", "fail_write"}

TypeOK ==
  /\ outbox \in [Events -> Row]
  /\ exec \in [Events \X Workflows -> ExecutionDone \cup {"NONE", "RUNNING"}]
  /\ attempts \in [Keys -> Attempt]
  /\ applied \in [Keys -> Nat]
  /\ status \in [Tickets -> Statuses]
  /\ enabled \in [Workflows -> BOOLEAN]
  /\ pc \in [Workers -> Positions]
  /\ batch \in [Workers -> SUBSET Events]
  /\ cur \in [Workers -> Events \cup {NoEvent}]
  /\ plan \in [Workers -> SUBSET Workflows]
  /\ run \in [Workers -> Run]
  /\ budget \in 0..MaxDisturbances

Init ==
  /\ outbox = [e \in Events |-> NoRow]
  /\ exec = [x \in Events \X Workflows |-> "NONE"]
  /\ attempts = [k \in Keys |-> NoAttempt]
  /\ applied = [k \in Keys |-> 0]
  /\ status \in [Tickets -> Statuses]
  /\ enabled = [v \in Workflows |-> TRUE]
  /\ pc = [w \in Workers |-> "idle"]
  /\ batch = [w \in Workers |-> {}]
  /\ cur = [w \in Workers |-> NoEvent]
  /\ plan = [w \in Workers |-> {}]
  /\ run = [w \in Workers |-> NoRun]
  /\ budget = MaxDisturbances

-----------------------------------------------------------------------------
(* Helpers                                                                 *)

Saturate(n, limit) == IF n < limit THEN n + 1 ELSE limit

\* Is the row in the worker's memory, waiting or being dispatched?
Holds(w, e) == e \in batch[w] \/ cur[w] = e

\* Mutants: no budget at all, and one level too many.
MutantUncapped(d) == FALSE
MutantOffByOne(d) == d > MaxDepth

\* evaluateRecursionBudget: the dispatcher passes no tenant limit.
Capped(d) == d >= MaxDepth

\* Mutant: a child event inherits the depth of its parent.
MutantSameDepth(d) == d

ChildDepth(d) == d + 1

ExecOf(w)   == <<cur[w], run[w].wf>>
KeyOf(w)    == <<cur[w], run[w].wf, run[w].ord>>
ActionOf(w) == Actions[run[w].wf][run[w].ord]

\* Mutants: leases are ignored, and expired leases are never taken over.
MutantIgnoreLease(e) == outbox[e].state \in {"PENDING", "CLAIMED"}
MutantNoTakeover(e) == outbox[e].state = "PENDING"

\* claimPendingBatch's WHERE clause.
Claimable(e) ==
  \/ outbox[e].state = "PENDING"
  \/ outbox[e].state = "CLAIMED" /\ ~outbox[e].lease

\* Mutant: no unique index.
MutantNoIndex(k) == FALSE

\* The unique index on (tenant_id, dedupe_key).
KeyTaken(k) == \E c \in Events : outbox[c].state # "ABSENT" /\ outbox[c].key = k

\* Something the code cannot rule out and no fairness forces happens.
Disturb == budget > 0 /\ budget' = budget - 1

Move(w, to) == pc' = [pc EXCEPT ![w] = to]

\* Where executeActions' loop stands at ordinal n of workflow v.
ActionAt(v, n) == IF n > Len(Actions[v]) THEN "finalize" ELSE "attempt"

\* Positions whose statement is in no try block but the one of the batch loop.
Dispatching == Positions \ {"idle", "batch", "create", "act", "fail_read", "fail_write"}

\* appendOutboxEvent: insert a PENDING row in the caller's transaction.
Append1(c, d, ty, t, s, k) ==
  [outbox EXCEPT ![c] = [state |-> "PENDING", depth |-> d, type |-> ty, ticket |-> t,
                         status |-> s, key |-> k, tries |-> 0, lease |-> FALSE]]

-----------------------------------------------------------------------------
(* Domain writes and administrators                                        *)

\* A ticket command commits the new status and its event in one transaction.
\* The event of a person's command has depth 0 and a random dedupe key.
AgentChange(t, s) ==
  /\ status[t] # s
  /\ Cardinality({c \in Events : outbox[c].state # "ABSENT" /\ outbox[c].key = NoKey}) < MaxCommands
  /\ \E c \in Events :
       /\ outbox[c].state = "ABSENT"
       /\ outbox' = Append1(c, 0, "ticket.status_changed", t, s, NoKey)
  /\ status' = [status EXCEPT ![t] = s]
  /\ UNCHANGED <<exec, attempts, applied, enabled, pc, locals, budget>>

\* replayOutboxEvent resets the row whatever its state.
Replay(e) ==
  /\ Disturb
  /\ outbox[e].state \in ReplayStates
  /\ outbox' = [outbox EXCEPT ![e].state = "PENDING", ![e].tries = 0, ![e].lease = FALSE]
  /\ UNCHANGED <<exec, attempts, applied, status, enabled, pc, locals>>

\* An administrator pauses or resumes a workflow.
SetEnabled(v, b) ==
  /\ Disturb
  /\ enabled[v] # b
  /\ enabled' = [enabled EXCEPT ![v] = b]
  /\ UNCHANGED <<outbox, exec, attempts, applied, status, pc, locals>>

-----------------------------------------------------------------------------
(* The poll loop: leases                                                   *)

\* 60 s pass without the row being finished.  A process that died never
\* finishes it; a slow one only if a batch may outlast its lease.
ExpireLease(e) ==
  /\ outbox[e].state = "CLAIMED"
  /\ outbox[e].lease
  /\ StallBeyondLease \/ \A w \in Workers : ~Holds(w, e)
  /\ outbox' = [outbox EXCEPT ![e].lease = FALSE]
  /\ UNCHANGED <<exec, attempts, applied, status, enabled, pc, locals, budget>>

\* poll / claimPendingBatch.  isProcessing keeps a process at one batch.  Rows
\* locked by another claim are skipped, so any claimable rows may be the ones.
ClaimBatch(w) ==
  /\ pc[w] = "idle"
  /\ \E S \in SUBSET {e \in Events : Claimable(e)} :
       /\ S # {}
       /\ Cardinality(S) <= BatchSize
       /\ outbox' = [e \in Events |->
                       IF e \in S THEN [outbox[e] EXCEPT !.state = "CLAIMED", !.lease = TRUE]
                                  ELSE outbox[e]]
       /\ batch' = [batch EXCEPT ![w] = S]
  /\ Move(w, "batch")
  /\ UNCHANGED <<exec, attempts, applied, status, enabled, cur, plan, run, budget>>

\* processOutboxBatch is done with its rows.
EndBatch(w) ==
  /\ pc[w] = "batch"
  /\ batch[w] = {}
  /\ Move(w, "idle")
  /\ UNCHANGED <<rows, locals, budget>>

\* A row is finished, one way or the other: the worker forgets it.
Release(w) ==
  /\ cur' = [cur EXCEPT ![w] = NoEvent]
  /\ plan' = [plan EXCEPT ![w] = {}]
  /\ run' = [run EXCEPT ![w] = NoRun]
  /\ Move(w, "batch")

-----------------------------------------------------------------------------
(* dispatchOutboxEvent                                                     *)

\* Workflows the row triggers, as the one findMany of the dispatcher sees them.
Matching(e) == {v \in Workflows : enabled[v] /\ outbox[e].type \in Triggers[v]}

\* Take a row of the batch.  A row whose budget is spent is audited and goes
\* straight to markProcessed; otherwise the matching workflows are loaded.
TakeEvent(w) ==
  /\ pc[w] = "batch"
  /\ \E e \in batch[w] :
       /\ batch' = [batch EXCEPT ![w] = @ \ {e}]
       /\ cur' = [cur EXCEPT ![w] = e]
       /\ IF Capped(outbox[e].depth)
          THEN Move(w, "mark") /\ UNCHANGED plan
          ELSE Move(w, "workflow") /\ plan' = [plan EXCEPT ![w] = Matching(e)]
  /\ UNCHANGED <<rows, run, budget>>

\* The workflow the worker was at is done.
NextWorkflow(w) ==
  /\ plan' = [plan EXCEPT ![w] = @ \ {run[w].wf}]
  /\ run' = [run EXCEPT ![w] = NoRun]
  /\ Move(w, "workflow")

\* Mutant: the conditions look at the ticket as it is now.
MutantLiveConditions(e, v) == status[outbox[e].ticket] \in Conditions[v]

\* Conditions are evaluated in memory on the payload of the row.
ConditionsPass(e, v) == outbox[e].status \in Conditions[v]

\* With a RUNNING execution of v at hand: start executeActions, or skip.
EnterExecution(w, v) ==
  /\ run' = [run EXCEPT ![w] = [NoRun EXCEPT !.wf = v]]
  /\ Move(w, IF ConditionsPass(cur[w], v) THEN ActionAt(v, 1) ELSE "skip")

\* Mutant: a failed execution is run again.
MutantRetryFailed(x) == exec[x] \in {"SUCCEEDED", "SKIPPED_CONDITIONS"}

Finished(x) == exec[x] \notin {"NONE", "RUNNING"}

\* Look for the execution of the row by the next workflow in priority order: a
\* finished one is left alone, a RUNNING one is resumed, whoever started it.
FindExecution(w) ==
  /\ pc[w] = "workflow"
  /\ \E v \in plan[w] :
       /\ \A u \in plan[w] : v <= u
       /\ \/ /\ Finished(<<cur[w], v>>)
             /\ plan' = [plan EXCEPT ![w] = @ \ {v}]
             /\ UNCHANGED <<run, pc>>
          \/ /\ exec[<<cur[w], v>>] # "NONE" /\ ~Finished(<<cur[w], v>>)
             /\ EnterExecution(w, v)
             /\ UNCHANGED plan
          \/ /\ exec[<<cur[w], v>>] = "NONE"
             /\ run' = [run EXCEPT ![w].wf = v]
             /\ Move(w, "create")
             /\ UNCHANGED plan
  /\ UNCHANGED <<rows, batch, cur, budget>>

\* Insert the execution; a conflict with another worker's row skips the workflow.
CreateExecution(w) ==
  /\ pc[w] = "create"
  /\ IF exec[ExecOf(w)] = "NONE"
     THEN /\ exec' = [exec EXCEPT ![ExecOf(w)] = "RUNNING"]
          /\ EnterExecution(w, run[w].wf)
          /\ UNCHANGED plan
     ELSE NextWorkflow(w) /\ UNCHANGED exec
  /\ UNCHANGED <<outbox, attempts, applied, status, enabled, batch, cur, budget>>

\* The insert fails for any other reason: the catch takes it for a conflict.
CreateFails(w) ==
  /\ Disturb
  /\ pc[w] = "create"
  /\ NextWorkflow(w)
  /\ UNCHANGED <<rows, batch, cur>>

SkipConditions(w) ==
  /\ pc[w] = "skip"
  /\ exec' = [exec EXCEPT ![ExecOf(w)] = "SKIPPED_CONDITIONS"]
  /\ NextWorkflow(w)
  /\ UNCHANGED <<outbox, attempts, applied, status, enabled, batch, cur, budget>>

-----------------------------------------------------------------------------
(* executeActions                                                          *)

\* Go on with the next action, noting how this one went.
NextOrdinal(w, outcome) ==
  /\ run' = [run EXCEPT ![w].ord = @ + 1,
                        ![w].ok  = @ \/ outcome = "ok",
                        ![w].bad = @ \/ outcome = "bad"]
  /\ Move(w, ActionAt(run[w].wf, run[w].ord + 1))

\* Mutant: resumption does not look at the attempts.
MutantNeverDone(k) == FALSE

AlreadyDone(k) == attempts[k].state = "SUCCEEDED"

\* Read the attempt of the action, outside any transaction.  One that succeeded
\* is not run again; a type no executor is registered for is a failure.
ReadAttempt(w) ==
  /\ pc[w] = "attempt"
  /\ IF AlreadyDone(KeyOf(w))
     THEN NextOrdinal(w, "ok")
     ELSE /\ run' = [run EXCEPT ![w].seen = attempts[KeyOf(w)].number]
          /\ Move(w, IF ActionOf(w).kind = "unregistered" THEN "record" ELSE "act")
  /\ UNCHANGED <<rows, batch, cur, plan, budget>>

\* change_status and its child event; the executor neither checks the
\* transition nor the version it read.
ChangeStatusEffect(k, d, t, s) ==
  /\ status[t] # s
  /\ ~KeyTaken(k)
  /\ \E c \in Events :
       /\ outbox[c].state = "ABSENT"
       /\ outbox' = Append1(c, ChildDepth(d), "ticket.status_changed", t, s, k)
  /\ status' = [status EXCEPT ![t] = s]
  /\ applied' = [applied EXCEPT ![k] = @ + 1]

\* The ticket is already there: success without an event.
ChangeStatusNoop(t, s) ==
  /\ status[t] = s
  /\ UNCHANGED <<outbox, status, applied>>

\* Mutant: the assignment is written without its event.
MutantNoEvent(k, d, t) ==
  /\ applied' = [applied EXCEPT ![k] = IF @ = 0 THEN 1 ELSE @]
  /\ UNCHANGED <<outbox, status>>

\* assign (and the comment executor alike): always writes, always an event.
AssignEffect(k, d, t) ==
  /\ ~KeyTaken(k)
  /\ \E c \in Events :
       /\ outbox[c].state = "ABSENT"
       /\ outbox' = Append1(c, ChildDepth(d), "ticket.assigned", t, status[t], k)
  /\ applied' = [applied EXCEPT ![k] = @ + 1]
  /\ UNCHANGED status

\* create_notification upserts the intent by its dedupe key, without an event.
NotificationEffect(k) ==
  /\ applied' = [applied EXCEPT ![k] = IF @ = 0 THEN 1 ELSE @]
  /\ UNCHANGED <<outbox, status>>

\* The transaction of one action: attempt row, effect, child event.
RunAction(w) ==
  LET e == cur[w]
      k == KeyOf(w)
      a == ActionOf(w)
  IN  /\ pc[w] = "act"
      /\ \/ a.kind = "change_status"
            /\ \/ ChangeStatusEffect(k, outbox[e].depth, outbox[e].ticket, a.to)
               \/ ChangeStatusNoop(outbox[e].ticket, a.to)
         \/ a.kind = "assign" /\ AssignEffect(k, outbox[e].depth, outbox[e].ticket)
         \/ a.kind = "create_notification" /\ NotificationEffect(k)
      /\ attempts' = [attempts EXCEPT ![k] =
                        [state |-> "SUCCEEDED",
                         number |-> Saturate(attempts[k].number, MaxActionAttempts)]]
      /\ NextOrdinal(w, "ok")
      /\ UNCHANGED <<exec, enabled, batch, cur, plan, budget>>

\* The action has an event to insert and cannot: the dedupe key is there already
\* (or the bound on rows is reached).
InsertFails(w) ==
  /\ KeyTaken(KeyOf(w)) \/ \A c \in Events : outbox[c].state # "ABSENT"
  /\ \/ ActionOf(w).kind = "assign"
     \/ ActionOf(w).kind = "change_status" /\ status[outbox[cur[w]].ticket] # ActionOf(w).to

\* The transaction rolls back, because its event cannot be inserted or for a
\* reason of the environment: a precondition of the executor, the database.
ActionFails(w) ==
  /\ pc[w] = "act"
  /\ Disturb \/ (InsertFails(w) /\ UNCHANGED budget)
  /\ Move(w, "record")
  /\ UNCHANGED <<rows, locals>>

\* Mutant: a failed attempt leaves no row.
MutantForgetAttempt(w) ==
  /\ pc[w] = "record"
  /\ NextOrdinal(w, "bad")
  /\ UNCHANGED <<rows, batch, cur, plan, budget>>

\* recordAttemptFailure: an unconditional upsert from the attempt number read
\* before the transaction.
RecordAttemptFailure(w) ==
  LET n == Saturate(run[w].seen, MaxActionAttempts)
  IN  /\ pc[w] = "record"
      /\ attempts' = [attempts EXCEPT ![KeyOf(w)] =
                        [state |-> IF n >= MaxActionAttempts THEN "DEAD_LETTERED" ELSE "FAILED",
                         number |-> n]]
      /\ NextOrdinal(w, "bad")
      /\ UNCHANGED <<outbox, exec, applied, status, enabled, batch, cur, plan, budget>>

-----------------------------------------------------------------------------
(* Finalising an execution, auto-pause, finishing the row                  *)

\* Mutant: any success makes the execution a success.
MutantAnySuccess(w) == IF run[w].ok THEN "SUCCEEDED" ELSE "FAILED"

\* An empty action list succeeds.
Outcome(w) ==
  IF Len(Actions[run[w].wf]) = 0 \/ (run[w].ok /\ ~run[w].bad) THEN "SUCCEEDED"
  ELSE IF run[w].ok THEN "PARTIAL_FAILED" ELSE "FAILED"

FinalizeExecution(w) ==
  /\ pc[w] = "finalize"
  /\ exec' = [exec EXCEPT ![ExecOf(w)] = Outcome(w)]
  /\ IF Outcome(w) = "SUCCEEDED"
     THEN NextWorkflow(w)
     ELSE Move(w, "count") /\ UNCHANGED <<plan, run>>
  /\ UNCHANGED <<outbox, attempts, applied, status, enabled, batch, cur, budget>>

\* Executions that failed within the window; a behaviour is shorter than it.
Failures(v) == Cardinality({e \in Events : exec[e, v] \in {"FAILED", "PARTIAL_FAILED"}})

\* evaluateAutoPauseThreshold counts first and updates the workflow afterwards.
CountFailures(w) ==
  /\ pc[w] = "count"
  /\ IF Failures(run[w].wf) >= PauseThreshold
     THEN Move(w, "pause") /\ UNCHANGED <<plan, run>>
     ELSE NextWorkflow(w)
  /\ UNCHANGED <<rows, batch, cur, budget>>

AutoPause(w) ==
  /\ pc[w] = "pause"
  /\ enabled' = [enabled EXCEPT ![run[w].wf] = FALSE]
  /\ NextWorkflow(w)
  /\ UNCHANGED <<outbox, exec, attempts, applied, status, batch, cur, budget>>

\* Every matching workflow has been walked.
EndWorkflows(w) ==
  /\ pc[w] = "workflow"
  /\ plan[w] = {}
  /\ Move(w, "mark")
  /\ UNCHANGED <<rows, locals, budget>>

\* markProcessed updates by id: it checks neither the state nor the lease.
MarkProcessed(w) ==
  /\ pc[w] = "mark"
  /\ outbox' = [outbox EXCEPT ![cur[w]].state = "PROCESSED", ![cur[w]].lease = FALSE]
  /\ Release(w)
  /\ UNCHANGED <<exec, attempts, applied, status, enabled, batch, budget>>

\* A statement outside the action transactions fails: dispatchOutboxEvent throws.
DispatchError(w) ==
  /\ Disturb
  /\ pc[w] \in Dispatching
  /\ Move(w, "fail_read")
  /\ plan' = [plan EXCEPT ![w] = {}]
  /\ run' = [run EXCEPT ![w] = NoRun]
  /\ UNCHANGED <<rows, batch, cur>>

\* OutboxRepository.recordAttemptFailure reads the attempt count ...
ReadDelivery(w) ==
  /\ pc[w] = "fail_read"
  /\ run' = [run EXCEPT ![w] = [NoRun EXCEPT !.seen = outbox[cur[w]].tries]]
  /\ Move(w, "fail_write")
  /\ UNCHANGED <<rows, batch, cur, plan, budget>>

\* ... and writes the row from what it read.
RecordDeliveryFailure(w) ==
  LET n == Saturate(run[w].seen, MaxDeliveries)
  IN  /\ pc[w] = "fail_write"
      /\ outbox' = [outbox EXCEPT
                      ![cur[w]].state = IF n >= MaxDeliveries THEN "DEAD_LETTERED" ELSE "FAILED",
                      ![cur[w]].tries = n,
                      ![cur[w]].lease = FALSE]
      /\ Release(w)
      /\ UNCHANGED <<exec, attempts, applied, status, enabled, batch, budget>>

\* The process dies, or an error escapes the batch loop: what it held in memory
\* is lost, its transactions are committed or rolled back, its leases remain.
Crash(w) ==
  /\ Disturb
  /\ pc[w] # "idle"
  /\ Move(w, "idle")
  /\ batch' = [batch EXCEPT ![w] = {}]
  /\ cur' = [cur EXCEPT ![w] = NoEvent]
  /\ plan' = [plan EXCEPT ![w] = {}]
  /\ run' = [run EXCEPT ![w] = NoRun]
  /\ UNCHANGED rows

-----------------------------------------------------------------------------

\* One await of the poll loop.
Step(w) ==
  \/ ClaimBatch(w) \/ TakeEvent(w) \/ EndBatch(w)
  \/ FindExecution(w) \/ CreateExecution(w) \/ SkipConditions(w)
  \/ ReadAttempt(w) \/ RunAction(w) \/ ActionFails(w) \/ RecordAttemptFailure(w)
  \/ FinalizeExecution(w) \/ CountFailures(w) \/ AutoPause(w)
  \/ EndWorkflows(w) \/ MarkProcessed(w)
  \/ ReadDelivery(w) \/ RecordDeliveryFailure(w)

Environment ==
  \/ \E t \in Tickets, s \in Statuses : AgentChange(t, s)
  \/ \E e \in Events : Replay(e)
  \/ \E v \in Workflows, b \in BOOLEAN : SetEnabled(v, b)
  \/ \E w \in Workers : Crash(w) \/ CreateFails(w) \/ DispatchError(w)

Next ==
  \/ \E w \in Workers : Step(w)
  \/ \E e \in Events : ExpireLease(e)
  \/ Environment

Spec == Init /\ [][Next]_vars

\* The poll timer fires every 500 ms and no statement blocks for ever; time
\* passes, so the lease of a row nobody holds runs out.
Fairness ==
  /\ \A w \in Workers : WF_vars(Step(w))
  /\ \A e \in Events : WF_vars(ExpireLease(e) /\ \A w \in Workers : ~Holds(w, e))

FairSpec == Spec /\ Fairness

-----------------------------------------------------------------------------
(* Properties                                                              *)

\* Exactly-once effects over at-least-once delivery: however often a row is
\* claimed, replayed, crashed on or dispatched by two workers at a time, the
\* effect of one action for one event commits at most once (dedupe keys of
\* the executors, one transaction per action).
EffectAtMostOnce == \A k \in Keys : applied[k] <= 1

\* Transactional outbox: a status or assignee change made by an action and its
\* event exist together or not at all, and the event is alone with its key.
EffectIffEvent ==
  /\ \A k \in Keys :
       /\ k[3] <= Len(Actions[k[2]])
       /\ Actions[k[2]][k[3]].kind \in {"change_status", "assign"}
       => (applied[k] > 0 <=> KeyTaken(k))
  /\ \A c, d \in Events :
       /\ outbox[c].state # "ABSENT" /\ outbox[d].state # "ABSENT"
       /\ outbox[c].key \in Keys /\ outbox[d].key = outbox[c].key
       => c = d

\* Recursion budget: automation goes exactly one level deeper with every event
\* it causes, and a row at the limit never gets as far as an execution.
AutomationBounded ==
  \A e \in Events : outbox[e].state # "ABSENT" =>
    /\ outbox[e].depth = MaxDepth => \A v \in Workflows : exec[<<e, v>>] = "NONE"
    /\ outbox[e].key # NoKey => outbox[e].depth = outbox[outbox[e].key[1]].depth + 1

\* Actions run in order: whatever mix of crashes and resumptions built the
\* history, an attempt exists only where every earlier action was attempted.
OrderedActions ==
  \A k \in Keys : attempts[k] # NoAttempt =>
    \A i \in 1..(k[3] - 1) : attempts[<<k[1], k[2], i>>] # NoAttempt

\* An execution whose conditions failed never acted, for no worker.
SkippedNeverActs ==
  \A k \in Keys : exec[k[1], k[2]] = "SKIPPED_CONDITIONS" =>
                    applied[k] = 0 /\ attempts[k] = NoAttempt

\* Mutual exclusion of the lease: no row is in the memory of two workers.
LeaseExclusive ==
  \A e \in Events : \A w, x \in Workers : Holds(w, e) /\ Holds(x, e) => w = x

\* The design's "never re-apply SUCCEEDED": an attempt that succeeded is left
\* alone for ever.
SucceededIsFinal ==
  [][\A k \in Keys : attempts[k].state = "SUCCEEDED" => attempts'[k] = attempts[k]]_vars

\* The state an execution ends in tells what happened to its actions.
OutcomeMatchesAttempts ==
  \A e \in Events, v \in Workflows :
    LET done == {i \in 1..Len(Actions[v]) : attempts[<<e, v, i>>].state = "SUCCEEDED"}
    IN  /\ exec[e, v] = "SUCCEEDED" => done = 1..Len(Actions[v])
        /\ exec[e, v] = "PARTIAL_FAILED" => done # {} /\ done # 1..Len(Actions[v])
        /\ exec[e, v] = "FAILED" => done = {}

\* A finished execution is never reopened or given another outcome.
OutcomeIsFinal ==
  [][\A x \in Events \X Workflows : exec[x] \in ExecutionDone => exec'[x] = exec[x]]_vars

\* Delivery: whatever crashes, a row that is waiting or leased is eventually
\* processed, or recorded as failed.
EventuallyDelivered ==
  \A e \in Events : outbox[e].state \in {"PENDING", "CLAIMED"} ~>
                      outbox[e].state \in {"PROCESSED", "FAILED", "DEAD_LETTERED"}

\* The design's "backoff on retryable handler failure; max attempts ->
\* DEAD_LETTERED": a row that failed is tried again or dead-lettered.
FailedIsRetried ==
  \A e \in Events : outbox[e].state = "FAILED" ~> outbox[e].state # "FAILED"

\* The design's "mid-workflow crash: resume": once a row is PROCESSED and out of
\* every worker's memory, none of its executions is left RUNNING.
CrashedIsResumed ==
  \A e \in Events : outbox[e].state = "PROCESSED" /\ (\A w \in Workers : ~Holds(w, e))
                      => \A v \in Workflows : exec[e, v] # "RUNNING"

\* The runtime keeps the promise of AutomationPromise.
Promise == INSTANCE AutomationPromise WITH
  recorded <- {e \in Events : outbox[e].state # "ABSENT"},
  depth    <- [e \in Events |-> outbox[e].depth],
  cause    <- [e \in Events |-> outbox[e].key],
  effects  <- applied

KeepsPromise == Promise!PromiseSpec
=============================================================================
