------------------------------ MODULE SlaEngine ------------------------------
(***************************************************************************)
(* The SLA targets of one ticket.  SlaEngineService is called after the    *)
(* commit that changed the ticket, with a copy of what was committed, and  *)
(* by reads of SLA status: there is no background worker.  A call reads    *)
(* the active targets and then updates them one by one, by id, each in a   *)
(* transaction of its own; between two of its awaits other calls, the sla  *)
(* executors of workflows and the ticket itself go on.                     *)
(*                                                                         *)
(* Abstractions: no statement of the engine concerns two tickets; the      *)
(* schedule is open all the time, so business time is time; the policy and *)
(* schedule versions are the ones the first target captured, on which all  *)
(* others stay; audit rows, evaluations, events and notifications of a     *)
(* write go with it and are read by no statement of the engine.            *)
(***************************************************************************)
EXTENDS Naturals, Sequences, TicketStatuses

CONSTANTS
  Requests,          \* API requests in progress that call the engine
  Executors,         \* transactions of workflow actions in progress
  Minutes,           \* [type -> responseMinutes, resolutionMinutes]
  WarnAt,            \* [type -> time that remains when the warning threshold is reached]
  PauseOn,           \* statuses the policy pauses on
  RestartOnReopen,   \* restartResolutionOnReopen
  AutomationTargets, \* statuses the published workflows change tickets to
  MaxTargets,        \* bound: targets of one type
  MaxTime,           \* bound: the clock stops
  MaxWork,           \* bound: calls and workflow transactions that begin in a behaviour
  MaxFailures,       \* bound: calls that stop half-way in a behaviour
  Null               \* paused_at, completed_at IS NULL

Types == {"RESPONSE", "RESOLUTION"}

\* The n-th target of a type.
TargetIds == Types \X (1..MaxTargets)

ASSUME SlaConstants ==
  /\ MaxTargets \in Nat \ {0}
  /\ Minutes \in [Types -> Nat]
  /\ WarnAt \in [Types -> Nat]
  /\ PauseOn \subseteq {"PENDING", "ON_HOLD"}
  /\ RestartOnReopen \in BOOLEAN
  /\ AutomationTargets \subseteq TicketStatus
  /\ MaxTime \in Nat
  /\ MaxWork \in Nat
  /\ MaxFailures \in Nat
  /\ Null \notin Nat

VARIABLES
  clock,      \* now
  status,     \* tickets.status
  target,     \* sla_targets rows
  request,    \* calls of the engine
  job,        \* sla_start and sla_stop transactions
  work,       \* bound: work left
  failures    \* bound: failures left

vars == <<clock, status, target, request, job, work, failures>>

Target == [state     : {"ABSENT", "RUNNING", "PAUSED", "MET", "BREACHED"},
           due       : Nat,
           paused    : Nat \cup {Null},
           completed : Nat \cup {Null},
           warned    : BOOLEAN]

NoTarget == [state |-> "ABSENT", due |-> 0, paused |-> Null, completed |-> Null, warned |-> FALSE]

\* What a call still has to do: its stages, in order, and the updates it decided
\* on when it read the targets for the present one.
Stages == ({"clock", "evaluate", "reopen", "sync"} \X {"all"})
            \cup ({"start", "complete", "meet"} \X Types)

Update == [kind : {"warn", "breach", "pause", "resume", "meet"}, id : TargetIds, due : Nat]

Request == [call    : {"none", "created", "status", "comment", "read"},
            stages  : Seq(Stages),
            updates : SUBSET Update,
            now     : Nat,              \* new Date() at the start of the call
            status  : TicketStatus,     \* of the ticket the call was given
            lone    : BOOLEAN]          \* history: nobody else wrote since the call began

NoRequest == [call |-> "none", stages |-> <<>>, updates |-> {}, now |-> 0,
              status |-> "NEW", lone |-> TRUE]

Job == [pc : {"idle", "start", "stop"}, id : TargetIds]

NoJob == [pc |-> "idle", id |-> <<"RESPONSE", 1>>]

TypeOK ==
  /\ clock \in Nat
  /\ status \in TicketStatus
  /\ target \in [TargetIds -> Target]
  /\ request \in [Requests -> Request]
  /\ job \in [Executors -> Job]
  /\ work \in 0..MaxWork
  /\ failures \in 0..MaxFailures

\* The request that created the ticket has committed it and is about to call
\* onTicketCreated.
Init ==
  /\ clock = 0
  /\ status = "NEW"
  /\ target = [x \in TargetIds |-> NoTarget]
  /\ \E r \in Requests :
       request = [q \in Requests |->
                    IF q # r THEN NoRequest
                    ELSE [NoRequest EXCEPT
                            !.call = "created",
                            !.stages = << <<"start", "RESPONSE">>, <<"start", "RESOLUTION">>,
                                          <<"sync", "all">> >>]]
  /\ job = [j \in Executors |-> NoJob]
  /\ work = MaxWork
  /\ failures = MaxFailures

-----------------------------------------------------------------------------
(* Helpers                                                                 *)

ActiveStates == {"RUNNING", "PAUSED"}

Active(x) == target[x].state \in ActiveStates

\* remainingBusinessMs and addBusinessMs under a schedule without closures.
Remaining(from, until) == IF until > from THEN until - from ELSE 0

\* uq_sla_targets__active_per_ticket_type, a partial unique index: at most one
\* target of a type is running or paused.
IndexAllows(x, s) ==
  s \in ActiveStates => \A y \in TargetIds : y # x /\ y[1] = x[1] => ~Active(y)

\* Somebody other than r writes the ticket or a target.
Interfere(r) ==
  [q \in Requests |-> IF q # r /\ request[q].call # "none"
                      THEN [request[q] EXCEPT !.lone = FALSE] ELSE request[q]]

\* Everybody hears of a write that is not a request's.
InterfereAll ==
  [q \in Requests |-> IF request[q].call # "none"
                      THEN [request[q] EXCEPT !.lone = FALSE] ELSE request[q]]

\* The call is at the beginning of a stage of this name.
At(r, name) ==
  /\ request[r].updates = {}
  /\ request[r].stages # <<>>
  /\ Head(request[r].stages)[1] = name

StageType(r) == Head(request[r].stages)[2]

\* The read of the stage is done: these updates follow, then these stages.
Plan(r, updates, stages) ==
  /\ request' = [request EXCEPT ![r].updates = updates, ![r].stages = stages]
  /\ UNCHANGED <<clock, status, target, job, work, failures>>

-----------------------------------------------------------------------------
(* Calls                                                                   *)

Begin(call, stages) ==
  [NoRequest EXCEPT !.call = call, !.stages = stages, !.now = clock]

\* Mutant: the handler no longer synchronises pauses.
MutantNoSync(from, to) ==
  << <<"clock", "all">>, <<"evaluate", "all">> >>
    \o (IF to = "SOLVED" THEN << <<"complete", "RESOLUTION">> >> ELSE <<>>)
    \o (IF from = "SOLVED" /\ to = "OPEN" THEN << <<"reopen", "all">> >> ELSE <<>>)

\* onTicketStatusChanged.
StatusStages(from, to) ==
  << <<"clock", "all">>, <<"evaluate", "all">> >>
    \o (IF to = "SOLVED" THEN << <<"complete", "RESOLUTION">> >> ELSE <<>>)
    \o (IF from = "SOLVED" /\ to = "OPEN" THEN << <<"reopen", "all">> >> ELSE <<>>)
    \o << <<"sync", "all">>, <<"evaluate", "all">> >>

\* A person's transition commits; the handler is called with what was committed.
ChangeStatus(r, to) ==
  /\ request[r].call = "none"
  /\ AllowedTransition(status, to)
  /\ work > 0 /\ work' = work - 1
  /\ status' = to
  /\ request' = [Interfere(r) EXCEPT ![r] =
                   [Begin("status", StatusStages(status, to)) EXCEPT !.status = to]]
  /\ UNCHANGED <<clock, target, job, failures>>

\* onPublicAgentComment, for an author who is not the requester.
Comment(r) ==
  /\ request[r].call = "none"
  /\ work > 0 /\ work' = work - 1
  /\ request' = [request EXCEPT ![r] =
       Begin("comment", << <<"complete", "RESPONSE">>, <<"evaluate", "all">> >>)]
  /\ UNCHANGED <<clock, status, target, job, failures>>

\* getTicketSlaStatus, or listActiveTimers where its page has the ticket's targets.
ReadSla(r) ==
  /\ request[r].call = "none"
  /\ work > 0 /\ work' = work - 1
  /\ request' = [request EXCEPT ![r] = Begin("read", << <<"evaluate", "all">> >>)]
  /\ UNCHANGED <<clock, status, target, job, failures>>

\* The handler of a status change looks at the clock.
ReadClock(r) ==
  /\ At(r, "clock")
  /\ request' = [request EXCEPT ![r].now = clock, ![r].stages = Tail(@)]
  /\ UNCHANGED <<clock, status, target, job, work, failures>>

-----------------------------------------------------------------------------
(* Stages: one read of the targets, and what follows from it               *)

\* Is the row due for a warning, or overdue, at time n?
Overdue(t, n) == n >= t.due
DueForWarning(t, n, type) == ~t.warned /\ ~Overdue(t, n) /\ Remaining(n, t.due) <= WarnAt[type]

\* evaluateTargetsForTicket: a warning and a breach exclude each other.
Evaluate(r) ==
  LET n == request[r].now
  IN  /\ At(r, "evaluate")
      /\ Plan(r, {[kind |-> IF Overdue(target[x], n) THEN "breach" ELSE "warn",
                   id |-> x, due |-> target[x].due] :
                    x \in {y \in TargetIds :
                             /\ target[y].state = "RUNNING"
                             /\ \/ Overdue(target[y], n)
                                \/ DueForWarning(target[y], n, y[1])}},
                 Tail(request[r].stages))

\* The due date that keeps the time that remained when the target was paused.
ResumedDue(t, n) == n + Remaining(t.paused, t.due)

\* What synchronising with status s at time n takes.
SyncUpdates(s, n) ==
  {[kind |-> "pause", id |-> x, due |-> target[x].due] :
     x \in {y \in TargetIds : target[y].state = "RUNNING" /\ s \in PauseOn}}
  \cup
  {[kind |-> "resume", id |-> x, due |-> ResumedDue(target[x], n)] :
     x \in {y \in TargetIds : /\ target[y].state = "PAUSED" /\ s \notin PauseOn
                              /\ target[y].paused # Null}}

\* syncPauseState, with the status the call was given.
SyncPauseState(r) ==
  /\ At(r, "sync")
  /\ Plan(r, SyncUpdates(request[r].status, request[r].now), Tail(request[r].stages))

\* completeTarget: a paused target is resumed first; then it is read again.
CompleteTarget(r) ==
  LET type == StageType(r)
      rest == Tail(request[r].stages)
  IN  /\ At(r, "complete")
      /\ \/ /\ \A x \in TargetIds : x[1] = type => ~Active(x)
            /\ Plan(r, {}, rest)
         \/ \E x \in TargetIds :
              /\ x[1] = type /\ Active(x)
              /\ Plan(r, IF target[x].state = "PAUSED" /\ target[x].paused # Null
                         THEN {[kind |-> "resume", id |-> x,
                                due |-> ResumedDue(target[x], request[r].now)]}
                         ELSE {},
                      << <<"meet", type>> >> \o rest)

\* ... and the target that is active now is met.
ReadCurrent(r) ==
  LET rest == Tail(request[r].stages)
  IN  /\ At(r, "meet")
      /\ \/ /\ \A x \in TargetIds : x[1] = StageType(r) => ~Active(x)
            /\ Plan(r, {}, rest)
         \/ \E x \in TargetIds :
              /\ x[1] = StageType(r) /\ Active(x)
              /\ Plan(r, {[kind |-> "meet", id |-> x, due |-> target[x].due]}, rest)

\* handleReopen: if there was a resolution target, its policy may start another.
HandleReopen(r) ==
  LET rest == Tail(request[r].stages)
      known == \E x \in TargetIds : x[1] = "RESOLUTION" /\ target[x].state # "ABSENT"
  IN  /\ At(r, "reopen")
      /\ Plan(r, {}, IF known /\ RestartOnReopen THEN << <<"start", "RESOLUTION">> >> \o rest
                                                 ELSE rest)

-----------------------------------------------------------------------------
(* Writes: one transaction each, by id and without a look at the state     *)

\* A call treats the targets of the ticket in the order of their types; the list
\* of timers that ReadSla also stands for has them by due date.
NextUpdate(r, u) ==
  /\ u \in request[r].updates
  /\ \/ request[r].call = "read"
     \/ u.id[1] = "RESPONSE"
     \/ \A v \in request[r].updates : v.id[1] # "RESPONSE"

\* The row becomes t, if the index lets it.
Write(r, u, t) ==
  /\ NextUpdate(r, u)
  /\ IndexAllows(u.id, t.state)
  /\ target' = [target EXCEPT ![u.id] = t]
  /\ request' = [Interfere(r) EXCEPT ![r].updates = @ \ {u}]
  /\ UNCHANGED <<clock, status, job, work, failures>>

WarnTarget(r, u) ==
  u.kind = "warn" /\ Write(r, u, [target[u.id] EXCEPT !.warned = TRUE])

BreachTarget(r, u) ==
  u.kind = "breach" /\ Write(r, u, [target[u.id] EXCEPT !.state = "BREACHED"])

PauseTarget(r, u) ==
  /\ u.kind = "pause"
  /\ Write(r, u, [target[u.id] EXCEPT !.state = "PAUSED", !.paused = request[r].now])

\* Mutant: the pause is charged.
MutantKeepDue(t, due) == [t EXCEPT !.state = "RUNNING", !.paused = Null]

Resumed(t, due) == [t EXCEPT !.state = "RUNNING", !.paused = Null, !.due = due]

ResumeTarget(r, u) ==
  u.kind = "resume" /\ Write(r, u, Resumed(target[u.id], u.due))

\* Mutant: a state the enumeration does not have.
MutantCompleted(t, n) == [t EXCEPT !.state = "COMPLETED", !.completed = n]

Met(t, n) == [t EXCEPT !.state = "MET", !.completed = n]

MeetTarget(r, u) ==
  u.kind = "meet" /\ Write(r, u, Met(target[u.id], request[r].now))

\* createTarget: a new row, due the whole time of its type after the start.
StartTarget(r) ==
  /\ At(r, "start")
  /\ \E x \in TargetIds :
       /\ x[1] = StageType(r)
       /\ target[x].state = "ABSENT"
       /\ \A y \in TargetIds : y[1] = x[1] /\ y[2] < x[2] => target[y].state # "ABSENT"
       /\ IndexAllows(x, "RUNNING")
       /\ target' = [target EXCEPT ![x] = [NoTarget EXCEPT
                                             !.state = "RUNNING",
                                             !.due = request[r].now + Minutes[x[1]]]]
  /\ request' = [Interfere(r) EXCEPT ![r].stages = Tail(@)]
  /\ UNCHANGED <<clock, status, job, work, failures>>

\* Every stage is done.
Done(r) == request[r].call # "none" /\ request[r].stages = <<>> /\ request[r].updates = {}

Return(r) ==
  /\ Done(r)
  /\ request' = [request EXCEPT ![r] = NoRequest]
  /\ UNCHANGED <<clock, status, target, job, work, failures>>

\* The index refuses the next write: the error is caught and logged, and what
\* was left of the call is not done.
Refused(r) ==
  /\ \/ \E u \in request[r].updates :
          /\ NextUpdate(r, u)
          /\ u.kind \in {"pause", "resume"} /\ ~IndexAllows(u.id, "RUNNING")
     \/ At(r, "start") /\ \E x \in TargetIds : x[1] = StageType(r) /\ Active(x)
  /\ request' = [request EXCEPT ![r] = NoRequest]
  /\ UNCHANGED <<clock, status, target, job, work, failures>>

\* A statement fails for another reason, or the process dies.
Fail(r) ==
  /\ request[r].call # "none"
  /\ failures > 0 /\ failures' = failures - 1
  /\ request' = [request EXCEPT ![r] = NoRequest]
  /\ UNCHANGED <<clock, status, target, job, work>>

-----------------------------------------------------------------------------
(* Workflow executors and time                                             *)

\* SlaActionExecutor finds the active target of its type ...
JobRead(j, act) ==
  /\ job[j].pc = "idle"
  /\ work > 0 /\ work' = work - 1
  /\ \E x \in TargetIds :
       /\ Active(x)
       /\ job' = [job EXCEPT ![j] = [pc |-> act, id |-> x]]
  /\ UNCHANGED <<clock, status, target, request, failures>>

\* Mutant: the time of the pause stays behind.
MutantKeepPause(t) == [t EXCEPT !.state = "RUNNING"]

\* sla_start: running again, with the due date it had.
Restarted(t) == [t EXCEPT !.state = "RUNNING", !.paused = Null]

\* ... and updates it by id.
JobWrite(j) ==
  LET x == job[j].id
      t == IF job[j].pc = "stop" THEN Met(target[x], clock) ELSE Restarted(target[x])
  IN  /\ job[j].pc # "idle"
      /\ IndexAllows(x, t.state)
      /\ target' = [target EXCEPT ![x] = t]
      /\ job' = [job EXCEPT ![j] = NoJob]
      /\ request' = InterfereAll
      /\ UNCHANGED <<clock, status, work, failures>>

\* The transaction of the action rolls back.
JobAbort(j) ==
  /\ job[j].pc # "idle"
  /\ job' = [job EXCEPT ![j] = NoJob]
  /\ UNCHANGED <<clock, status, target, request, work, failures>>

\* The change_status executor writes the ticket and does not call the engine.
JobChangeStatus(to) ==
  /\ status # to
  /\ work > 0 /\ work' = work - 1
  /\ status' = to
  /\ request' = InterfereAll
  /\ UNCHANGED <<clock, target, job, failures>>

Tick ==
  /\ clock < MaxTime
  /\ clock' = clock + 1
  /\ UNCHANGED <<status, target, request, job, work, failures>>

-----------------------------------------------------------------------------

Call(r) ==
  \/ \E to \in TicketStatus : ChangeStatus(r, to)
  \/ Comment(r) \/ ReadSla(r)
  \/ ReadClock(r) \/ Evaluate(r) \/ SyncPauseState(r)
  \/ CompleteTarget(r) \/ ReadCurrent(r) \/ HandleReopen(r) \/ StartTarget(r)
  \/ \E u \in request[r].updates :
       WarnTarget(r, u) \/ BreachTarget(r, u) \/ PauseTarget(r, u)
         \/ ResumeTarget(r, u) \/ MeetTarget(r, u)
  \/ Return(r) \/ Refused(r) \/ Fail(r)

Workflow(j) == JobRead(j, "start") \/ JobRead(j, "stop") \/ JobWrite(j) \/ JobAbort(j)

Next ==
  \/ \E r \in Requests : Call(r)
  \/ \E j \in Executors : Workflow(j)
  \/ \E to \in AutomationTargets : JobChangeStatus(to)
  \/ Tick

Spec == Init /\ [][Next]_vars

-----------------------------------------------------------------------------
(* Properties                                                              *)

\* A pause is free: a call that resumes a target while nobody else writes leaves
\* it the time that remained when it was paused, though it read the row at one
\* await and writes the due date it computed then at another.  (With others
\* writing in between it may give a target more time, or less, than it had.)
PauseIsFree ==
  [][\A r \in Requests : request'[r] # request[r] /\ request'[r].lone =>
       \A x \in TargetIds : target[x].state = "PAUSED" /\ target'[x].state = "RUNNING" =>
         Remaining(request[r].now, target'[x].due) = Remaining(target[x].paused, target[x].due)]_vars

\* A target is paused iff it knows since when: resumeTarget silently skips a
\* paused target without paused_at, which would then never run again, and a
\* running target with one would have its due date moved by a pause that is over.
PausedKnowsSince ==
  \A x \in TargetIds : Active(x) => (target[x].state = "PAUSED" <=> target[x].paused # Null)

NoneActive(type) == \A x \in TargetIds : x[1] = type => ~Active(x)

\* Repair: whatever races, failures and executors left behind, a call that
\* completes without anybody writing in between leaves the targets as the ticket
\* and the clock demand: none overdue or due for a warning, and after a change
\* of status paused iff the status pauses, after an answer no response target.
LoneCallSettles ==
  \A r \in Requests : Done(r) /\ request[r].lone =>
    LET n == request[r].now
    IN  /\ request[r].call # "created" =>
             \A x \in TargetIds : target[x].state = "RUNNING" =>
               ~Overdue(target[x], n) /\ ~DueForWarning(target[x], n, x[1])
        /\ request[r].call = "status" =>
             /\ \A x \in TargetIds : Active(x) => (target[x].state = "PAUSED" <=> status \in PauseOn)
             /\ status = "SOLVED" => NoneActive("RESOLUTION")
        /\ request[r].call = "comment" => NoneActive("RESPONSE")

\* docs/10-sla.md: "Breach occurs at now >= due_at while incomplete and
\* unpaused": what was completed late is not recorded as met.
LateIsBreached ==
  \A x \in TargetIds : target[x].state = "MET" => target[x].completed < target[x].due

\* docs/10-sla.md: "A resolution Target starts at creation and completes when
\* first solved": once every call has returned, a solved ticket has none open.
SolvedIsComplete ==
  (\A r \in Requests : request[r].call = "none") /\ status = "SOLVED" => NoneActive("RESOLUTION")
=============================================================================
