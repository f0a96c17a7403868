--------------------------- MODULE ServiceRequests ---------------------------
(***************************************************************************)
(* A service request: submission, approval steps, answers, fulfilment and  *)
(* the ticket it generates (CatalogRequestsService and its repository).    *)
(*                                                                         *)
(* Every operation loads the request, then the service, then writes, each  *)
(* in a statement or transaction of its own.  A status change names the    *)
(* status it starts from; answers, and the reset of the approval steps that *)
(* follows them, write the status by id.  A decision commits the step first *)
(* and moves the request in a second transaction, whose outcome nobody     *)
(* looks at.  The process may die between any two of these.  The service's *)
(* approval mode and steps can be edited at any time, and every operation  *)
(* goes by what they are when it reads them.                               *)
(*                                                                         *)
(* Abstractions: one request, of a service that stays published; forms,    *)
(* permissions, notifications, audit and history rows are left out.        *)
(***************************************************************************)
EXTENDS Naturals, Sequences

CONSTANTS
  Requesters,      \* API requests in progress
  Modes,           \* approval modes administrators use
  MaxSteps,        \* bound: approval steps of the service
  MaxEdits,        \* bound: edits of the service
  MaxCycles        \* bound: approval cycles of the request

ApprovalMode == {"NONE", "SINGLE", "ALL", "ANY"}

ASSUME RequestConstants ==
  /\ Modes \subseteq ApprovalMode
  /\ MaxSteps \in Nat /\ MaxEdits \in Nat /\ MaxCycles \in Nat

VARIABLES
  service,      \* approvalMode and the number of approvalSteps
  request,      \* the request's row
  approvals,    \* the status of its approval steps, in order
  tickets,      \* history: tickets generated for it
  call,         \* API requests in progress
  edits,        \* number of edits of the service
  history       \* what has interfered: see NotedWrite and the actions that set it

requestVars == <<service, request, approvals, tickets, call, edits, history>>

RequestTransitions ==
  [SUBMITTED         |-> {"AWAITING_APPROVAL", "IN_FULFILLMENT", "CANCELLED", "CHANGES_REQUESTED"},
   AWAITING_APPROVAL |-> {"APPROVED", "REJECTED", "CHANGES_REQUESTED", "CANCELLED"},
   APPROVED          |-> {"IN_FULFILLMENT", "CANCELLED"},
   REJECTED          |-> {},
   CHANGES_REQUESTED |-> {"SUBMITTED", "CANCELLED"},
   IN_FULFILLMENT    |-> {"COMPLETED"},
   COMPLETED         |-> {},
   CANCELLED         |-> {}]

RequestStatus == DOMAIN RequestTransitions

Decision == {"APPROVED", "REJECTED", "CHANGES_REQUESTED"}

StepStatus == Decision \cup {"PENDING"}

Service == [mode : ApprovalMode, steps : Nat]

Call == [op       : {"none", "submit", "answers", "cancel", "decide", "fulfil", "ticket", "complete"},
         pc       : {"idle", "loaded", "planned", "updated", "committed"},
         saw      : RequestStatus \cup {"NONE"},
         service  : Service,
         cycle    : Nat,
         step     : Nat,
         decision : Decision,
         seen     : Seq(StepStatus),
         alone    : BOOLEAN]       \* history: nobody wrote since it loaded the request

RequestTypeOK ==
  /\ service \in Service
  /\ request \in [status : RequestStatus \cup {"NONE"}, cycle : Nat, ticket : BOOLEAN]
  /\ approvals \in Seq(StepStatus)
  /\ tickets \in Nat
  /\ call \in [Requesters -> Call]
  /\ edits \in Nat
  /\ history \in [edited : BOOLEAN, overlapped : BOOLEAN, died : BOOLEAN]

NoCall == [op |-> "none", pc |-> "idle", saw |-> "NONE", service |-> [mode |-> "NONE", steps |-> 0],
           cycle |-> 0, step |-> 0, decision |-> "APPROVED", seen |-> <<>>, alone |-> TRUE]

RequestInit ==
  /\ service \in [mode : Modes, steps : 0..MaxSteps]
  /\ request = [status |-> "NONE", cycle |-> 0, ticket |-> FALSE]
  /\ approvals = <<>>
  /\ tickets = 0
  /\ call = [c \in Requesters |-> NoCall]
  /\ edits = 0
  /\ history = [edited |-> FALSE, overlapped |-> FALSE, died |-> FALSE]

-----------------------------------------------------------------------------
(* approval-gate.ts                                                        *)

First(ss, P(_)) == ss[CHOOSE i \in DOMAIN ss : P(ss[i]) /\ \A j \in 1..(i - 1) : ~P(ss[j])]

Has(ss, st) == \E i \in DOMAIN ss : ss[i] = st

Decided(st) == st # "PENDING"

\* SINGLE and ANY go by the first decided step, ALL needs every step.
EvaluateApprovalGate(mode, ss) ==
  CASE mode = "NONE" -> "PASSED"
    [] mode \in {"SINGLE", "ANY"} ->
         IF \A i \in DOMAIN ss : ~Decided(ss[i]) THEN "PENDING"
         ELSE IF First(ss, Decided) = "APPROVED" THEN "PASSED" ELSE First(ss, Decided)
    [] mode = "ALL" ->
         IF Has(ss, "REJECTED") THEN "REJECTED"
         ELSE IF Has(ss, "CHANGES_REQUESTED") THEN "CHANGES_REQUESTED"
         ELSE IF \A i \in DOMAIN ss : ss[i] = "APPROVED" THEN "PASSED"
         ELSE "PENDING"

\* The status a decision leads to.
StepDecisionOutcome(mode, ss, decision) ==
  IF decision # "APPROVED" THEN decision
  ELSE IF EvaluateApprovalGate(mode, ss) = "PASSED" THEN "APPROVED"
  ELSE "AWAITING_APPROVAL"

IsTerminalStatus(st) == st \in {"COMPLETED", "REJECTED", "CANCELLED"}

NeedsApproval(s) == s.mode # "NONE" /\ s.steps > 0

Pending(n) == [i \in 1..n |-> "PENDING"]

-----------------------------------------------------------------------------
\* The statuses in which an operation goes on after it has loaded the request;
\* in any other it is refused and changes nothing.
Accepts(op) ==
  CASE op = "answers"  -> {"SUBMITTED", "CHANGES_REQUESTED"}
    [] op = "cancel"   -> {"SUBMITTED", "AWAITING_APPROVAL", "APPROVED", "CHANGES_REQUESTED"}
    [] op = "decide"   -> {"AWAITING_APPROVAL"}
    [] op = "fulfil"   -> {"APPROVED", "SUBMITTED"}
    [] op = "ticket"   -> {st \in RequestStatus : ~IsTerminalStatus(st)}
    [] op = "complete" -> {"IN_FULFILLMENT"}

Load(c, op) ==
  /\ call[c].pc = "idle"
  /\ request.status \in Accepts(op)
  /\ call' = [call EXCEPT ![c] = [NoCall EXCEPT !.op = op, !.pc = "loaded", !.saw = request.status]]
  /\ UNCHANGED <<service, request, approvals, tickets, edits, history>>

On(c, op, pc) == call[c].op = op /\ call[c].pc = pc

\* c has committed and goes on as next; nobody else is alone any more (which
\* is of interest until calls have overlapped).
NotedWrite(c, next) ==
  LET overlapped == history.overlapped \/ ~call[c].alone IN
  /\ call' = [d \in Requesters |->
                [(IF d = c THEN next ELSE call[d]) EXCEPT
                   !.alone = overlapped \/ (@ /\ (d = c \/ call[d].pc = "idle"))]]
  /\ history' = [history EXCEPT !.overlapped = overlapped]

\* transitionStatus: nothing happens unless the status is the expected one.
TransitionStatus(from, to) ==
  request' = IF request.status = from THEN [request EXCEPT !.status = to] ELSE request

\* An administrator edits the service (CatalogServicesService.updateService).
EditService(s) ==
  /\ edits < MaxEdits
  /\ s # service
  /\ service' = s
  /\ edits' = edits + 1
  /\ history' = [history EXCEPT !.edited = TRUE]
  /\ UNCHANGED <<request, approvals, tickets, call>>

-----------------------------------------------------------------------------
\* submit reads the service ...
SubmitRead(c) ==
  /\ call[c].pc = "idle"
  /\ request.status = "NONE"
  /\ call' = [call EXCEPT ![c] = [NoCall EXCEPT !.op = "submit", !.pc = "planned",
                                                !.service = service]]
  /\ UNCHANGED <<service, request, approvals, tickets, edits, history>>

\* ... and creates the request with its steps in one transaction.
SubmitWrite(c) ==
  LET s == call[c].service IN
  /\ On(c, "submit", "planned")
  /\ request.status = "NONE"
  /\ request' = [request EXCEPT !.status = IF NeedsApproval(s) THEN "AWAITING_APPROVAL"
                                           ELSE "SUBMITTED"]
  /\ approvals' = IF NeedsApproval(s) THEN Pending(s.steps) ELSE <<>>
  /\ NotedWrite(c, NoCall)
  /\ UNCHANGED <<service, tickets, edits>>

-----------------------------------------------------------------------------
\* updateAnswers: the service is read ...
AnswersRead(c) ==
  /\ On(c, "answers", "loaded")
  /\ call' = [call EXCEPT ![c].pc = "planned", ![c].service = service]
  /\ UNCHANGED <<service, request, approvals, tickets, edits, history>>

\* ... the answers are written together with the status that was read; a request
\* that had changes requested goes on to a new approval cycle, if it needs one.
AnswersWrite(c) ==
  LET resubmits == call[c].saw = "CHANGES_REQUESTED" /\ NeedsApproval(call[c].service) IN
  /\ On(c, "answers", "planned")
  /\ request' = [request EXCEPT !.status = call[c].saw]
  /\ NotedWrite(c, IF resubmits THEN [call[c] EXCEPT !.pc = "updated", !.saw = "NONE"] ELSE NoCall)
  /\ UNCHANGED <<service, approvals, tickets, edits>>

\* A decision being written keeps the deletion of its step waiting.
StepLocked == \E d \in Requesters : On(d, "decide", "updated") /\ call[d].cycle = request.cycle

\* resetApprovalCycle: new steps, and the request awaits approval.
ResetApprovalCycle(c) ==
  /\ On(c, "answers", "updated")
  /\ ~StepLocked
  /\ request.cycle < MaxCycles
  /\ approvals' = Pending(call[c].service.steps)
  /\ request' = [request EXCEPT !.status = "AWAITING_APPROVAL", !.cycle = @ + 1]
  /\ NotedWrite(c, NoCall)
  /\ UNCHANGED <<service, tickets, edits>>

-----------------------------------------------------------------------------
CancelWrite(c) ==
  /\ On(c, "cancel", "loaded")
  /\ TransitionStatus(call[c].saw, "CANCELLED")
  /\ NotedWrite(c, NoCall)
  /\ UNCHANGED <<service, approvals, tickets, edits>>

-----------------------------------------------------------------------------
\* decideApproval: the request awaits approval, the step is pending.
DecideRead(c, i, d) ==
  /\ On(c, "decide", "loaded")
  /\ i \in DOMAIN approvals
  /\ approvals[i] = "PENDING"
  /\ call' = [call EXCEPT ![c] = [NoCall EXCEPT !.op = "decide", !.pc = "planned", !.step = i,
                                     !.cycle = request.cycle, !.decision = d, !.alone = call[c].alone]]
  /\ UNCHANGED <<service, request, approvals, tickets, edits, history>>

\* The transaction of a decision, up to its commit: the step, read PENDING
\* before, is written by id, and all steps are listed, this one decided and the
\* others as committed.  A step deleted meanwhile is an error.
DecideUpdate(c) ==
  LET w == call[c] IN
  /\ On(c, "decide", "planned")
  /\ \A d \in Requesters : On(d, "decide", "updated") => call[d].step # w.step
  /\ request.cycle = w.cycle
  /\ call' = [call EXCEPT ![c].pc = "updated",
                          ![c].seen = [approvals EXCEPT ![w.step] = w.decision]]
  /\ UNCHANGED <<service, request, approvals, tickets, edits, history>>

DecideCommit(c) ==
  LET w == call[c] IN
  /\ On(c, "decide", "updated")
  /\ approvals' = [approvals EXCEPT ![w.step] = w.decision]
  /\ NotedWrite(c, [w EXCEPT !.pc = "committed", !.step = 0, !.cycle = 0])
  /\ UNCHANGED <<service, request, tickets, edits>>

\* Mutant: the request is moved whatever its status is by now.
MutantDecideTransition(c) ==
  /\ On(c, "decide", "committed")
  /\ request' = [request EXCEPT !.status = StepDecisionOutcome(service.mode, call[c].seen, call[c].decision)]
  /\ NotedWrite(c, NoCall)
  /\ UNCHANGED <<service, approvals, tickets, edits>>

\* The mode is read and the request moved, if it still awaits approval.
DecideTransition(c) ==
  LET to == StepDecisionOutcome(service.mode, call[c].seen, call[c].decision) IN
  /\ On(c, "decide", "committed")
  /\ TransitionStatus("AWAITING_APPROVAL", to)
  /\ NotedWrite(c, NoCall)
  /\ UNCHANGED <<service, approvals, tickets, edits>>

-----------------------------------------------------------------------------
GatePasses == EvaluateApprovalGate(service.mode, approvals) = "PASSED"

\* startFulfillment: "approvals must be satisfied before fulfillment begins".
FulfilGate(c) ==
  /\ On(c, "fulfil", "loaded")
  /\ GatePasses
  /\ call' = [call EXCEPT ![c].pc = "planned"]
  /\ UNCHANGED <<service, request, approvals, tickets, edits, history>>

\* The request starts; some services then generate a ticket at once.
FulfilWrite(c) ==
  LET w == call[c] IN
  /\ On(c, "fulfil", "planned")
  /\ TransitionStatus(w.saw, "IN_FULFILLMENT")
  /\ \E generates \in BOOLEAN :
       NotedWrite(c, IF generates /\ request.status = w.saw /\ ~request.ticket
                     THEN [NoCall EXCEPT !.op = "ticket", !.pc = "loaded", !.saw = "IN_FULFILLMENT"]
                     ELSE NoCall)
  /\ UNCHANGED <<service, approvals, tickets, edits>>

TicketGate(c) ==
  /\ On(c, "ticket", "loaded")
  /\ GatePasses
  /\ call' = [call EXCEPT ![c].pc = "planned", ![c].saw = "NONE"]
  /\ UNCHANGED <<service, request, approvals, tickets, edits, history>>

\* Mutant: whether there is a ticket is not asked again under the lock.
MutantTicketWrite(c) ==
  /\ On(c, "ticket", "planned")
  /\ tickets' = tickets + 1
  /\ request' = [request EXCEPT !.ticket = TRUE]
  /\ NotedWrite(c, NoCall)
  /\ UNCHANGED <<service, approvals, edits>>

\* generateTicket: serializable and under the row lock; a request that has its
\* ticket keeps it.
TicketWrite(c) ==
  /\ On(c, "ticket", "planned")
  /\ tickets' = IF request.ticket THEN tickets ELSE tickets + 1
  /\ request' = [request EXCEPT !.ticket = TRUE]
  /\ NotedWrite(c, NoCall)
  /\ UNCHANGED <<service, approvals, edits>>

CompleteWrite(c) ==
  /\ On(c, "complete", "loaded")
  /\ TransitionStatus("IN_FULFILLMENT", "COMPLETED")
  /\ NotedWrite(c, NoCall)
  /\ UNCHANGED <<service, approvals, tickets, edits>>

-----------------------------------------------------------------------------
\* A call is refused by a check, or gets an error from the database.
Refuse(c) ==
  /\ \/ call[c].pc = "loaded" /\ call[c].op \in {"decide", "fulfil", "ticket"}
     \/ call[c].op \in {"decide", "submit"} /\ call[c].pc = "planned"
  /\ call' = [call EXCEPT ![c] = NoCall]
  /\ UNCHANGED <<service, request, approvals, tickets, edits, history>>

\* The process dies before a call has done all it writes.
Die(c) ==
  /\ call[c].pc \in {"updated", "committed"}
  /\ call' = [call EXCEPT ![c] = NoCall]
  /\ history' = [history EXCEPT !.died = TRUE]
  /\ UNCHANGED <<service, request, approvals, tickets, edits>>

RequestNext ==
  \/ \E c \in Requesters :
       \/ \E op \in {"answers", "cancel", "decide", "fulfil", "ticket", "complete"} : Load(c, op)
       \/ \E i \in 1..MaxSteps, d \in Decision : DecideRead(c, i, d)
       \/ SubmitRead(c) \/ SubmitWrite(c)
       \/ AnswersRead(c) \/ AnswersWrite(c) \/ ResetApprovalCycle(c)
       \/ CancelWrite(c)
       \/ DecideUpdate(c) \/ DecideCommit(c) \/ DecideTransition(c)
       \/ FulfilGate(c) \/ FulfilWrite(c)
       \/ TicketGate(c) \/ TicketWrite(c)
       \/ CompleteWrite(c)
       \/ Refuse(c) \/ Die(c)
  \/ \E s \in [mode : Modes, steps : 0..MaxSteps] : EditService(s)

RequestSpec == RequestInit /\ [][RequestNext]_requestVars

-----------------------------------------------------------------------------
\* "Concurrent calls produce exactly one ticket" (generateTicket): however often
\* and by whomever it is called, at once or as a retry after a crash.
OneTicketPerRequest == tickets = IF request.ticket THEN 1 ELSE 0

\* A request is fulfilled only if its approval gate is satisfied, and stays so,
\* as long as calls have not overlapped and the service has not been edited.
FulfilmentIsApproved ==
  \/ history.overlapped
  \/ history.edited
  \/ request.status \in {"IN_FULFILLMENT", "COMPLETED"} => GatePasses

\* A request that awaits approval has a step somebody can still decide, unless
\* decisions overlapped (each saw the other pending) or a process died between
\* the decision and the request's move: nothing picks those up again.
RequestNeverStuck ==
  \/ history.overlapped
  \/ history.died
  \/ \E c \in Requesters : call[c].pc # "idle"
  \/ request.status = "AWAITING_APPROVAL" => Has(approvals, "PENDING")

\* One ticket at most, and the approvals decide about fulfilment.
RequestsSound == OneTicketPerRequest /\ FulfilmentIsApproved /\ RequestNeverStuck

\* The status moves along SERVICE_REQUEST_TRANSITIONS.  What the table does not
\* list: the resubmission straight into a new approval cycle, and answers
\* whose author saw another status, which can undo a cancellation or worse.
RequestFollowsTable ==
  [][LET old == request.status
         new == request'.status IN
     old # new /\ old # "NONE" =>
       \/ new \in RequestTransitions[old]
       \/ old = "CHANGES_REQUESTED" /\ request'.cycle = request.cycle + 1
       \/ \E c \in Requesters :
            call[c].op = "answers" /\ call[c].saw # old /\ call'[c] # call[c]]_requestVars
=============================================================================
