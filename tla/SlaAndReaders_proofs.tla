------------------------ MODULE SlaAndReaders_proofs ------------------------
(***************************************************************************)
(* The targets of a ticket, the notifications of a person, and the         *)
(* articles of the knowledge base, for any number of calls and rows.       *)
(*                                                                         *)
(* Targets: every write is by id and blind to the state of the row, so two *)
(* facts carry the first proofs.  A write leaves the state and the time of *)
(* the pause consistent whatever the row was (PausedKnowsSince), and what  *)
(* a call nobody interfered with has planned still fits the rows it read   *)
(* (FitsRows).  That such a call settles the targets needs more: what its  *)
(* next stages and updates still owe, at each point of the call            *)
(* (Settling), and the unique index (OneActive).                           *)
(*                                                                         *)
(* Notifications: what a device shows is not ahead of the row, and is the  *)
(* row if the versions are the same (InboxInv).                            *)
(*                                                                         *)
(* Articles: the number a publication has read is next or taken, it read   *)
(* what the article says unless it was told of an edit (PublicationFits),  *)
(* and every number given out is announced once, about to be, or known to  *)
(* be lost (AnnouncementFits).                                             *)
(***************************************************************************)
EXTENDS MCSlaAndReaders, SequenceTheorems, TLAPS

-----------------------------------------------------------------------------
(* The invariant                                                           *)

\* Updates planned at time n, one at most for each target, that resume targets
\* which are paused with the due date that follows from the row.
FitsRows(updates, n) ==
  \A u \in updates :
    /\ u.kind = "resume" => /\ target[u.id].paused # Null
                            /\ u.due = ResumedDue(target[u.id], n)
    /\ \A v \in updates : v.id = u.id => v = u

\* A request between calls has nothing to do.
Idle(c) == c.call = "none" => c.stages = <<>> /\ c.updates = {}

\* A call that nobody interfered with has a plan that fits.
PlanFits(r) ==
  /\ Idle(request[r])
  /\ request[r].lone => FitsRows(request[r].updates, request[r].now)

IInv ==
  /\ TypeOK
  /\ PausedKnowsSince
  /\ \A r \in Requests : PlanFits(r)

\* What a step does to a paused target.
PauseIsFreeStep ==
  \A r \in Requests : request'[r] # request[r] /\ request'[r].lone =>
    \A x \in TargetIds : target[x].state = "PAUSED" /\ target'[x].state = "RUNNING" =>
      Remaining(request[r].now, target'[x].due) = Remaining(target[x].paused, target[x].due)

-----------------------------------------------------------------------------
(* Sequences of stages                                                     *)

LEMMA StageTyped ==
  ASSUME NEW s \in Seq(Stages), s # <<>>
  PROVE  /\ Head(s) \in Stages
         /\ Tail(s) \in Seq(Stages)
BY HeadTailProperties

LEMMA OneStage ==
  ASSUME NEW a \in Stages
  PROVE  << a >> \in Seq(Stages)
OBVIOUS

LEMMA TwoStages ==
  ASSUME NEW a \in Stages, NEW b \in Stages
  PROVE  << a, b >> \in Seq(Stages)
OBVIOUS

LEMMA Joined ==
  ASSUME NEW s \in Seq(Stages), NEW t \in Seq(Stages)
  PROVE  s \o t \in Seq(Stages)
BY ConcatProperties

LEMMA NamedStages ==
  /\ \A n \in {"clock", "evaluate", "reopen", "sync"} : <<n, "all">> \in Stages
  /\ \A n \in {"start", "complete", "meet"}, type \in Types : <<n, type>> \in Stages
BY DEF Stages

LEMMA TypesAre == "RESPONSE" \in Types /\ "RESOLUTION" \in Types
BY DEF Types

LEMMA StatusStagesTyped ==
  ASSUME NEW from, NEW to
  PROVE  StatusStages(from, to) \in Seq(Stages)
<1> DEFINE a == << <<"clock", "all">>, <<"evaluate", "all">> >>
           b == IF to = "SOLVED" THEN << <<"complete", "RESOLUTION">> >> ELSE <<>>
           c == IF from = "SOLVED" /\ to = "OPEN" THEN << <<"reopen", "all">> >> ELSE <<>>
           d == << <<"sync", "all">>, <<"evaluate", "all">> >>
<1>1. a \in Seq(Stages) /\ d \in Seq(Stages)
  BY NamedStages, TwoStages
<1>2. b \in Seq(Stages) /\ c \in Seq(Stages)
  BY NamedStages, TypesAre, OneStage, EmptySeq
<1> HIDE DEF a, b, c, d
<1>3. ((a \o b) \o c) \o d \in Seq(Stages)
  BY <1>1, <1>2, Joined
<1> QED BY <1>3 DEF StatusStages, a, b, c, d

\* The type of a start, complete or meet stage.
LEMMA StageTypeTyped ==
  ASSUME TypeOK, NEW r \in Requests, NEW n \in {"start", "complete", "meet"}, At(r, n)
  PROVE  StageType(r) \in Types
<1>1. request[r].stages \in Seq(Stages) /\ request[r].stages # <<>>
  BY DEF TypeOK, Request, At
<1>2. Head(request[r].stages) \in Stages
  BY <1>1, StageTyped
<1> QED BY <1>2 DEF At, StageType, Stages

LEMMA RestTyped ==
  ASSUME TypeOK, NEW r \in Requests, request[r].stages # <<>>
  PROVE  Tail(request[r].stages) \in Seq(Stages)
<1>1. request[r].stages \in Seq(Stages)
  BY DEF TypeOK, Request
<1> QED BY <1>1, StageTyped

-----------------------------------------------------------------------------
(* Rows and calls                                                          *)

LEMMA RemainingTyped ==
  ASSUME NEW a \in Nat, NEW b \in Nat
  PROVE  Remaining(a, b) \in Nat
BY DEF Remaining

LEMMA ResumedDueTyped ==
  ASSUME NEW t \in Target, t.paused # Null, NEW n \in Nat
  PROVE  ResumedDue(t, n) \in Nat
<1>1. t.paused \in Nat /\ t.due \in Nat
  BY DEF Target
<1>2. Remaining(t.paused, t.due) \in Nat
  BY <1>1, RemainingTyped
<1> QED BY <1>2 DEF ResumedDue

\* The due date that keeps the time that remained keeps the time that remained.
LEMMA ResumedKeepsTime ==
  ASSUME NEW n \in Nat, NEW m \in Nat
  PROVE  Remaining(n, n + m) = m
BY DEF Remaining

LEMMA NoRequestTyped == NoRequest \in Request
<1>1. <<>> \in Seq(Stages)
  BY EmptySeq
<1> QED BY <1>1 DEF NoRequest, Request, TicketStatus

LEMMA NoTargetTyped == NoTarget \in Target
BY DEF NoTarget, Target

LEMMA NoJobTyped == NoJob \in Job
BY SlaConstants DEF NoJob, Job, TargetIds, Types

LEMMA FewerUpdates ==
  ASSUME NEW c \in Request, NEW u
  PROVE  [c EXCEPT !.updates = @ \ {u}] \in Request
<1>1. c.updates \ {u} \in SUBSET Update
  BY DEF Request
<1> QED BY <1>1 DEF Request

\* A call that begins plans nothing yet.
LEMMA BeginTyped ==
  ASSUME TypeOK, NEW call \in {"created", "status", "comment", "read"}, NEW stages \in Seq(Stages)
  PROVE  /\ Begin(call, stages) \in Request
         /\ Begin(call, stages).updates = {}
         /\ Begin(call, stages).call = call
BY NoRequestTyped DEF Begin, NoRequest, Request, TypeOK

\* The request of q as it was, or after somebody else's write.
Heard(q) == {request[q], [request[q] EXCEPT !.lone = FALSE]}

\* Interference touches nothing but the history, and spares only r and requests
\* between calls.
LEMMA Interfered ==
  ASSUME TypeOK, NEW r
  PROVE  /\ Interfere(r) \in [Requests -> Request]
         /\ \A q \in Requests :
              /\ Interfere(r)[q] \in Heard(q)
              /\ q = r => Interfere(r)[q] = request[q]
              /\ q # r /\ Interfere(r)[q].lone => request[q].call = "none"
BY DEF TypeOK, Interfere, Request, Heard

LEMMA AllInterfered ==
  ASSUME TypeOK
  PROVE  /\ InterfereAll \in [Requests -> Request]
         /\ \A q \in Requests :
              /\ InterfereAll[q] \in Heard(q)
              /\ InterfereAll[q].lone => request[q].call = "none"
BY DEF TypeOK, InterfereAll, Request, Heard

\* No updates fit any rows.
LEMMA BlankFits ==
  ASSUME NEW n
  PROVE  FitsRows({}, n)
BY DEF FitsRows

-----------------------------------------------------------------------------
(* Steps                                                                   *)

\* The variables no proof below is about.
OthersTyped ==
  /\ clock \in Nat
  /\ status \in TicketStatus
  /\ job \in [Executors -> Job]
  /\ work \in 0..MaxWork
  /\ failures \in 0..MaxFailures

\* The rows stay, and each request is as before, has heard of a write, or has
\* another plan that fits.
LEMMA QuietStep ==
  ASSUME IInv, UNCHANGED target, OthersTyped',
         request' \in [Requests -> Request],
         \A q \in Requests : request'[q] \in Heard(q) \/ PlanFits(q)'
  PROVE  IInv' /\ PauseIsFreeStep
<1>1. TypeOK'
  BY DEF IInv, TypeOK, OthersTyped
<1>2. PausedKnowsSince'
  BY DEF IInv, PausedKnowsSince, Active
<1>3. ASSUME NEW q \in Requests
      PROVE  PlanFits(q)'
  <2>1. CASE request'[q] = request[q]
    BY <2>1 DEF IInv, PlanFits, FitsRows, Idle, ResumedDue
  <2>2. CASE request'[q] = [request[q] EXCEPT !.lone = FALSE]
    <3>1. Idle(request[q]) /\ request[q] \in Request
      BY DEF IInv, PlanFits, TypeOK
    <3>2. Idle(request'[q]) /\ ~request'[q].lone
      BY <2>2, <3>1 DEF Idle, Request
    <3> QED BY <3>2 DEF PlanFits, Idle
  <2> QED BY <2>1, <2>2 DEF Heard
<1>4. PauseIsFreeStep
  BY DEF PauseIsFreeStep
<1> QED BY <1>1, <1>2, <1>3, <1>4 DEF IInv

\* The rows stay and one call goes on.
LEMMA CallStep ==
  ASSUME IInv, UNCHANGED target, OthersTyped',
         NEW r \in Requests, NEW base \in [Requests -> Request],
         \A q \in Requests : base[q] \in Heard(q),
         NEW new \in Request, FitsRows(new.updates, new.now), Idle(new),
         request' = [base EXCEPT ![r] = new]
  PROVE  IInv' /\ PauseIsFreeStep
<1>1. request' \in [Requests -> Request]
  OBVIOUS
<1>2. ASSUME NEW q \in Requests
      PROVE  request'[q] \in Heard(q) \/ PlanFits(q)'
  <2>1. CASE q = r
    <3>1. request'[q] = new
      BY <2>1
    <3> QED BY <3>1 DEF PlanFits, FitsRows, Idle, ResumedDue
  <2>2. CASE q # r
    <3>1. request'[q] = base[q]
      BY <2>2
    <3> QED BY <3>1
  <2> QED BY <2>1, <2>2
<1> QED BY <1>1, <1>2, QuietStep

LEMMA AsBefore ==
  ASSUME TypeOK
  PROVE  /\ request \in [Requests -> Request]
         /\ \A q \in Requests : request[q] \in Heard(q)
BY DEF TypeOK, Heard

\* A read of the targets from which updates follow.
LEMMA PlanStep ==
  ASSUME IInv, NEW r \in Requests, NEW U \in SUBSET Update, NEW S \in Seq(Stages),
         request[r].stages # <<>>, FitsRows(U, request[r].now), Plan(r, U, S)
  PROVE  IInv' /\ PauseIsFreeStep
<1> DEFINE new == [request[r] EXCEPT !.updates = U, !.stages = S]
<1>1. new \in Request /\ new.updates = U /\ new.now = request[r].now
  BY DEF IInv, TypeOK, Request
<1>2. request' = [request EXCEPT ![r] = new]
  BY DEF Plan, IInv, TypeOK, Request
<1>3. OthersTyped' /\ UNCHANGED target
  BY DEF IInv, TypeOK, OthersTyped, Plan
<1>4. Idle(new)
  BY DEF IInv, PlanFits, Idle, TypeOK, Request
<1>5. /\ request \in [Requests -> Request]
      /\ \A q \in Requests : request[q] \in Heard(q)
  BY AsBefore DEF IInv
<1> HIDE DEF new
<1>6. FitsRows(new.updates, new.now)
  BY <1>1
<1> QED BY <1>1, <1>2, <1>3, <1>4, <1>5, <1>6, CallStep

\* A write of a row: consistent whatever the row was, and fair if it resumes it.
LEMMA WriteStep ==
  ASSUME IInv, NEW r \in Requests, NEW u \in request[r].updates, NEW t \in Target,
         t.state \in ActiveStates => (t.state = "PAUSED" <=> t.paused # Null),
         request[r].lone /\ target[u.id].state = "PAUSED" /\ t.state = "RUNNING" =>
           Remaining(request[r].now, t.due) = Remaining(target[u.id].paused, target[u.id].due),
         Write(r, u, t)
  PROVE  IInv' /\ PauseIsFreeStep
<1>1. PICK base \in [Requests -> Request] :
        /\ base = Interfere(r)
        /\ \A q \in Requests : /\ base[q] \in Heard(q)
                               /\ q = r => base[q] = request[q]
                               /\ q # r /\ base[q].lone => request[q].call = "none"
  BY Interfered DEF IInv
<1>2. request' = [base EXCEPT ![r].updates = @ \ {u}]
  BY <1>1 DEF Write
<1>3. u \in Update /\ u.id \in TargetIds
  BY DEF IInv, TypeOK, Request, Update
<1>4. target' = [target EXCEPT ![u.id] = t]
  BY DEF Write
<1>5. /\ request'[r] = [request[r] EXCEPT !.updates = request[r].updates \ {u}]
      /\ \A q \in Requests : q # r => request'[q] = base[q]
  BY <1>1, <1>2
<1>6. /\ request'[r].updates = request[r].updates \ {u}
      /\ request'[r].now = request[r].now
      /\ request'[r].lone = request[r].lone
      /\ request'[r].call = request[r].call
  BY <1>5 DEF IInv, TypeOK, Request
<1>7. TypeOK'
  <2>1. request' \in [Requests -> Request]
    <3>1. [base[r] EXCEPT !.updates = @ \ {u}] \in Request
      BY <1>1, FewerUpdates
    <3> QED BY <1>2, <3>1
  <2>2. target' \in [TargetIds -> Target]
    BY <1>3, <1>4 DEF IInv, TypeOK
  <2> QED BY <2>1, <2>2 DEF IInv, TypeOK, Write
<1>8. PausedKnowsSince'
  BY <1>3, <1>4 DEF IInv, TypeOK, PausedKnowsSince, Active
<1>9. ASSUME NEW q \in Requests
      PROVE  PlanFits(q)'
  <2>1. CASE q = r
    <3>1. Idle(request'[r])
      BY <1>6 DEF IInv, PlanFits, Idle
    <3>2. ASSUME request[r].lone
          PROVE  FitsRows(request[r].updates \ {u}, request[r].now)'
      <4>1. FitsRows(request[r].updates, request[r].now)
        BY <3>2 DEF IInv, PlanFits
      <4>2. ASSUME NEW v \in request[r].updates \ {u}
            PROVE  target'[v.id] = target[v.id]
        <5>1. v \in request[r].updates /\ v # u
          BY <4>2
        <5>2. v.id # u.id
          BY <4>1, <5>1 DEF FitsRows
        <5>3. v.id \in TargetIds
          BY <5>1 DEF IInv, TypeOK, Request, Update
        <5> QED BY <1>4, <5>2, <5>3 DEF IInv, TypeOK
      <4> QED BY <1>6, <4>1, <4>2 DEF FitsRows, ResumedDue
    <3> QED BY <1>6, <2>1, <3>1, <3>2 DEF PlanFits, FitsRows, Idle, ResumedDue
  <2>2. CASE q # r
    <3>0. request'[q] = base[q]
      BY <1>5, <2>2
    <3>1. request'[q] \in Heard(q) /\ (request'[q].lone => request[q].call = "none")
      BY <1>1, <2>2, <3>0
    <3>2. Idle(request[q]) /\ request[q] \in Request
      BY DEF IInv, PlanFits, TypeOK
    <3>3. Idle(request'[q]) /\ (request'[q].lone => request'[q].updates = {})
      BY <3>1, <3>2 DEF Idle, Heard, Request
    <3> QED BY <3>3 DEF PlanFits, Idle, FitsRows
  <2> QED BY <2>1, <2>2
<1>10. PauseIsFreeStep
  <2>1. SUFFICES ASSUME NEW q \in Requests, request'[q] # request[q], request'[q].lone,
                        NEW x \in TargetIds,
                        target[x].state = "PAUSED", target'[x].state = "RUNNING"
                 PROVE  Remaining(request[q].now, target'[x].due)
                          = Remaining(target[x].paused, target[x].due)
    BY DEF PauseIsFreeStep
  <2>2. q = r
    <3>1. SUFFICES ASSUME q # r
                   PROVE  FALSE
      OBVIOUS
    <3>2. request'[q] = base[q] /\ base[q] \in Heard(q)
      BY <1>1, <1>5, <3>1
    <3>3. request'[q] = [request[q] EXCEPT !.lone = FALSE]
      BY <2>1, <3>2 DEF Heard
    <3> QED BY <2>1, <3>3 DEF IInv, TypeOK, Request
  <2>3. x = u.id /\ target'[x] = t
    BY <1>3, <1>4, <2>1 DEF IInv, TypeOK
  <2> QED BY <1>6, <2>1, <2>2, <2>3
<1> QED BY <1>7, <1>8, <1>9, <1>10 DEF IInv

-----------------------------------------------------------------------------
(* Actions                                                                 *)

\* A call begins, or ends: it plans nothing.
LEMMA BlankStep ==
  ASSUME IInv, UNCHANGED target, OthersTyped',
         NEW r \in Requests, NEW base \in [Requests -> Request],
         \A q \in Requests : base[q] \in Heard(q),
         NEW new \in Request, new.updates = {}, Idle(new),
         request' = [base EXCEPT ![r] = new]
  PROVE  IInv' /\ PauseIsFreeStep
<1>1. FitsRows(new.updates, new.now)
  BY BlankFits
<1> QED BY <1>1, CallStep

LEMMA BeginStep ==
  ASSUME IInv, NEW r \in Requests,
         \/ \E to \in TicketStatus : ChangeStatus(r, to)
         \/ Comment(r)
         \/ ReadSla(r)
  PROVE  IInv' /\ PauseIsFreeStep
<1>0. TypeOK
  BY DEF IInv
<1>1. CASE \E to \in TicketStatus : ChangeStatus(r, to)
  <2>1. PICK to \in TicketStatus : ChangeStatus(r, to)
    BY <1>1
  <2> DEFINE b == Begin("status", StatusStages(status, to))
             new == [b EXCEPT !.status = to]
  <2>2. b \in Request /\ b.updates = {} /\ b.call = "status"
    BY <1>0, StatusStagesTyped, BeginTyped
  <2>3. request' = [Interfere(r) EXCEPT ![r] = new]
    BY <2>1 DEF ChangeStatus
  <2>4. OthersTyped' /\ UNCHANGED target
    BY <2>1, SlaConstants DEF ChangeStatus, IInv, TypeOK, OthersTyped
  <2> HIDE DEF b
  <2>5. new \in Request /\ new.updates = {} /\ Idle(new)
    BY <2>2 DEF Request, Idle
  <2> HIDE DEF new
  <2> QED BY <1>0, <2>3, <2>4, <2>5, Interfered, BlankStep
<1>2. CASE Comment(r)
  <2> DEFINE stages == << <<"complete", "RESPONSE">>, <<"evaluate", "all">> >>
             new == Begin("comment", stages)
  <2>1. stages \in Seq(Stages)
    BY NamedStages, TypesAre, TwoStages
  <2>2. new \in Request /\ new.updates = {} /\ Idle(new)
    BY <1>0, <2>1, BeginTyped DEF Begin, NoRequest, Idle
  <2>3. request' = [request EXCEPT ![r] = new]
    BY <1>2 DEF Comment
  <2>4. OthersTyped' /\ UNCHANGED target
    BY <1>2, SlaConstants DEF Comment, IInv, TypeOK, OthersTyped
  <2> HIDE DEF new
  <2> QED BY <1>0, <2>2, <2>3, <2>4, AsBefore, BlankStep
<1>3. CASE ReadSla(r)
  <2> DEFINE stages == << <<"evaluate", "all">> >>
             new == Begin("read", stages)
  <2>1. stages \in Seq(Stages)
    BY NamedStages, OneStage
  <2>2. new \in Request /\ new.updates = {} /\ Idle(new)
    BY <1>0, <2>1, BeginTyped DEF Begin, NoRequest, Idle
  <2>3. request' = [request EXCEPT ![r] = new]
    BY <1>3 DEF ReadSla
  <2>4. OthersTyped' /\ UNCHANGED target
    BY <1>3, SlaConstants DEF ReadSla, IInv, TypeOK, OthersTyped
  <2> HIDE DEF new
  <2> QED BY <1>0, <2>2, <2>3, <2>4, AsBefore, BlankStep
<1> QED BY <1>1, <1>2, <1>3

LEMMA EndStep ==
  ASSUME IInv, NEW r \in Requests, Return(r) \/ Refused(r) \/ Fail(r)
  PROVE  IInv' /\ PauseIsFreeStep
<1>1. request' = [request EXCEPT ![r] = NoRequest]
  BY DEF Return, Refused, Fail
<1>2. OthersTyped' /\ UNCHANGED target
  BY SlaConstants DEF Return, Refused, Fail, IInv, TypeOK, OthersTyped
<1>3. NoRequest.updates = {} /\ Idle(NoRequest)
  BY DEF NoRequest, Idle
<1>4. TypeOK
  BY DEF IInv
<1> QED BY <1>1, <1>2, <1>3, <1>4, NoRequestTyped, AsBefore, BlankStep

LEMMA ReadClockStep ==
  ASSUME IInv, NEW r \in Requests, ReadClock(r)
  PROVE  IInv' /\ PauseIsFreeStep
<1> DEFINE new == [request[r] EXCEPT !.now = clock, !.stages = Tail(request[r].stages)]
<1>0. TypeOK
  BY DEF IInv
<1>1. Tail(request[r].stages) \in Seq(Stages)
  BY <1>0, RestTyped DEF ReadClock, At
<1>2. new \in Request /\ new.updates = {} /\ Idle(new)
  <2>1. request[r] \in Request /\ Idle(request[r]) /\ clock \in Nat
    BY DEF IInv, PlanFits, TypeOK
  <2>2. request[r].call # "none" /\ request[r].updates = {}
    BY <2>1 DEF Idle, ReadClock, At
  <2>3. new \in Request /\ new.updates = {} /\ new.call # "none"
    BY <1>1, <2>1, <2>2 DEF Request
  <2> QED BY <2>3 DEF Idle
<1>3. request' = [request EXCEPT ![r] = new]
  BY DEF ReadClock, IInv, TypeOK, Request
<1>4. OthersTyped' /\ UNCHANGED target
  BY DEF ReadClock, IInv, TypeOK, OthersTyped
<1> HIDE DEF new
<1> QED BY <1>0, <1>2, <1>3, <1>4, AsBefore, BlankStep

LEMMA EvaluateStep ==
  ASSUME IInv, NEW r \in Requests, Evaluate(r)
  PROVE  IInv' /\ PauseIsFreeStep
<1> DEFINE n == request[r].now
           D == {y \in TargetIds : /\ target[y].state = "RUNNING"
                                   /\ \/ Overdue(target[y], n)
                                      \/ DueForWarning(target[y], n, y[1])}
           U == {[kind |-> IF Overdue(target[x], n) THEN "breach" ELSE "warn",
                  id |-> x, due |-> target[x].due] : x \in D}
<1>1. U \in SUBSET Update
  <2>1. \A x \in D : x \in TargetIds /\ target[x].due \in Nat
    BY DEF IInv, TypeOK, Target
  <2> QED BY <2>1 DEF Update
<1>2. FitsRows(U, n)
  BY DEF FitsRows
<1>3. request[r].stages # <<>> /\ Tail(request[r].stages) \in Seq(Stages)
  BY RestTyped DEF Evaluate, At, IInv
<1>4. Plan(r, U, Tail(request[r].stages))
  BY DEF Evaluate
<1> HIDE DEF U, D
<1> QED BY <1>1, <1>2, <1>3, <1>4, PlanStep

LEMMA SyncStep ==
  ASSUME IInv, NEW r \in Requests, SyncPauseState(r)
  PROVE  IInv' /\ PauseIsFreeStep
<1> DEFINE s == request[r].status
           n == request[r].now
           U == SyncUpdates(s, n)
<1>0. n \in Nat
  BY DEF IInv, TypeOK, Request
<1>1. U \in SUBSET Update
  <2>1. \A x \in TargetIds : target[x] \in Target /\ target[x].due \in Nat
    BY DEF IInv, TypeOK, Target
  <2>2. \A x \in TargetIds : target[x].paused # Null => ResumedDue(target[x], n) \in Nat
    BY <1>0, <2>1, ResumedDueTyped
  <2> HIDE DEF n
  <2> QED BY <2>1, <2>2 DEF SyncUpdates, Update
<1>2. FitsRows(U, n)
  BY DEF FitsRows, SyncUpdates
<1>3. request[r].stages # <<>> /\ Tail(request[r].stages) \in Seq(Stages)
  BY RestTyped DEF SyncPauseState, At, IInv
<1>4. Plan(r, U, Tail(request[r].stages))
  BY DEF SyncPauseState
<1> HIDE DEF U
<1> QED BY <1>1, <1>2, <1>3, <1>4, PlanStep

LEMMA CompleteStep ==
  ASSUME IInv, NEW r \in Requests, CompleteTarget(r)
  PROVE  IInv' /\ PauseIsFreeStep
<1> DEFINE type == StageType(r)
           n == request[r].now
           rest == Tail(request[r].stages)
           go == << <<"meet", type>> >> \o rest
<1>1. request[r].stages # <<>> /\ rest \in Seq(Stages) /\ n \in Nat
  BY RestTyped DEF CompleteTarget, At, IInv, TypeOK, Request
<1>2. type \in Types
  BY StageTypeTyped DEF CompleteTarget, IInv
<1>3. go \in Seq(Stages)
  BY <1>1, <1>2, NamedStages, OneStage, Joined
<1>4. CASE Plan(r, {}, rest)
  BY <1>1, <1>4, BlankFits, PlanStep
<1>5. ASSUME NEW x \in TargetIds, Plan(r, {}, go)
      PROVE  IInv' /\ PauseIsFreeStep
  BY <1>1, <1>3, <1>5, BlankFits, PlanStep
<1>6. ASSUME NEW x \in TargetIds, target[x].state = "PAUSED", target[x].paused # Null,
             Plan(r, {[kind |-> "resume", id |-> x, due |-> ResumedDue(target[x], n)]}, go)
      PROVE  IInv' /\ PauseIsFreeStep
  <2> DEFINE u == [kind |-> "resume", id |-> x, due |-> ResumedDue(target[x], n)]
  <2>1. ResumedDue(target[x], n) \in Nat
    BY <1>1, <1>6, ResumedDueTyped DEF IInv, TypeOK
  <2>2. {u} \in SUBSET Update
    BY <2>1 DEF Update
  <2>3. FitsRows({u}, n)
    BY <1>6 DEF FitsRows
  <2> HIDE DEF u
  <2>4. Plan(r, {u}, go)
    BY <1>6 DEF u
  <2> HIDE DEF go
  <2> QED BY <1>1, <1>3, <2>2, <2>3, <2>4, PlanStep
<1>7. \/ Plan(r, {}, rest)
      \/ \E x \in TargetIds : Plan(r, {}, go)
      \/ \E x \in TargetIds :
           /\ target[x].state = "PAUSED" /\ target[x].paused # Null
           /\ Plan(r, {[kind |-> "resume", id |-> x, due |-> ResumedDue(target[x], n)]}, go)
  <2> HIDE DEF go, n
  <2> QED BY DEF CompleteTarget, go, n
<1> HIDE DEF go, rest, n
<1> QED BY <1>4, <1>5, <1>6, <1>7

LEMMA ReadCurrentStep ==
  ASSUME IInv, NEW r \in Requests, ReadCurrent(r)
  PROVE  IInv' /\ PauseIsFreeStep
<1> DEFINE n == request[r].now
           rest == Tail(request[r].stages)
<1>1. request[r].stages # <<>> /\ rest \in Seq(Stages)
  BY RestTyped DEF ReadCurrent, At, IInv
<1>2. CASE Plan(r, {}, rest)
  BY <1>1, <1>2, BlankFits, PlanStep
<1>3. ASSUME NEW x \in TargetIds,
             Plan(r, {[kind |-> "meet", id |-> x, due |-> target[x].due]}, rest)
      PROVE  IInv' /\ PauseIsFreeStep
  <2> DEFINE u == [kind |-> "meet", id |-> x, due |-> target[x].due]
  <2>1. target[x].due \in Nat
    BY DEF IInv, TypeOK, Target
  <2>2. {u} \in SUBSET Update
    BY <2>1 DEF Update
  <2>3. FitsRows({u}, n)
    BY DEF FitsRows
  <2> HIDE DEF u
  <2>4. Plan(r, {u}, rest)
    BY <1>3 DEF u
  <2> QED BY <1>1, <2>2, <2>3, <2>4, PlanStep
<1> QED BY <1>2, <1>3 DEF ReadCurrent

LEMMA ReopenStep ==
  ASSUME IInv, NEW r \in Requests, HandleReopen(r)
  PROVE  IInv' /\ PauseIsFreeStep
<1> DEFINE rest == Tail(request[r].stages)
           go == << <<"start", "RESOLUTION">> >> \o rest
<1>1. request[r].stages # <<>> /\ rest \in Seq(Stages)
  BY RestTyped DEF HandleReopen, At, IInv
<1>2. go \in Seq(Stages)
  BY <1>1, NamedStages, TypesAre, OneStage, Joined
<1>3. Plan(r, {}, rest) \/ Plan(r, {}, go)
  BY DEF HandleReopen
<1> HIDE DEF go, rest
<1> QED BY <1>1, <1>2, <1>3, BlankFits, PlanStep

\* A write leaves the row consistent, and only a resumption makes it run again.
LEMMA WritesStep ==
  ASSUME IInv, NEW r \in Requests, NEW u \in request[r].updates,
         \/ WarnTarget(r, u) \/ BreachTarget(r, u) \/ PauseTarget(r, u)
         \/ ResumeTarget(r, u) \/ MeetTarget(r, u)
  PROVE  IInv' /\ PauseIsFreeStep
<1> DEFINE t == target[u.id]
           n == request[r].now
<1>1. u.id \in TargetIds /\ u.due \in Nat /\ n \in Nat
  BY DEF IInv, TypeOK, Request, Update
<1>2. t \in Target /\ (t.state \in ActiveStates => (t.state = "PAUSED" <=> t.paused # Null))
  BY <1>1 DEF IInv, TypeOK, PausedKnowsSince, Active
<1> HIDE DEF t
<1>3. CASE WarnTarget(r, u)
  <2> DEFINE new == [t EXCEPT !.warned = TRUE]
  <2>1. new \in Target /\ new.state = t.state /\ new.paused = t.paused
    BY <1>2 DEF Target
  <2>2. Write(r, u, new)
    BY <1>3 DEF WarnTarget, t
  <2> HIDE DEF new
  <2> QED BY <1>2, <2>1, <2>2, WriteStep DEF t
<1>4. CASE BreachTarget(r, u)
  <2> DEFINE new == [t EXCEPT !.state = "BREACHED"]
  <2>1. new \in Target /\ new.state = "BREACHED"
    BY <1>2 DEF Target
  <2>2. Write(r, u, new)
    BY <1>4 DEF BreachTarget, t
  <2> HIDE DEF new
  <2> QED BY <2>1, <2>2, WriteStep DEF ActiveStates
<1>5. CASE PauseTarget(r, u)
  <2> DEFINE new == [t EXCEPT !.state = "PAUSED", !.paused = n]
  <2>1. new \in Target /\ new.state = "PAUSED" /\ new.paused # Null
    BY <1>1, <1>2, SlaConstants DEF Target
  <2>2. Write(r, u, new)
    BY <1>5 DEF PauseTarget, t
  <2> HIDE DEF new
  <2> QED BY <2>1, <2>2, WriteStep
<1>6. CASE ResumeTarget(r, u)
  <2> DEFINE new == Resumed(t, u.due)
  <2>1. /\ new \in Target /\ new.state = "RUNNING"
        /\ new.paused = Null /\ new.due = u.due
    BY <1>1, <1>2 DEF Resumed, Target
  <2>2. Write(r, u, new) /\ u.kind = "resume"
    BY <1>6 DEF ResumeTarget, t
  <2>3. ASSUME request[r].lone
        PROVE  Remaining(n, new.due) = Remaining(t.paused, t.due)
    <3>1. t.paused # Null /\ u.due = ResumedDue(t, n)
      BY <2>2, <2>3 DEF IInv, PlanFits, FitsRows, t
    <3>2. Remaining(t.paused, t.due) \in Nat
      BY <1>2, <3>1, RemainingTyped DEF Target
    <3> HIDE DEF new, n
    <3> QED BY <1>1, <2>1, <3>1, <3>2, ResumedKeepsTime DEF ResumedDue
  <2> HIDE DEF new
  <2> QED BY <2>1, <2>2, <2>3, WriteStep DEF t
<1>7. CASE MeetTarget(r, u)
  <2> DEFINE new == Met(t, n)
  <2>1. new \in Target /\ new.state = "MET"
    BY <1>1, <1>2 DEF Met, Target
  <2>2. Write(r, u, new)
    BY <1>7 DEF MeetTarget, t
  <2> HIDE DEF new
  <2> QED BY <2>1, <2>2, WriteStep DEF ActiveStates
<1> QED BY <1>3, <1>4, <1>5, <1>6, <1>7

\* A row of another kind of step is replaced: no paused target is resumed by a
\* call that stays without interference.
LEMMA RowStep ==
  ASSUME IInv, OthersTyped', NEW x \in TargetIds, NEW t \in Target,
         t.state \in ActiveStates => (t.state = "PAUSED" <=> t.paused # Null),
         target' = [target EXCEPT ![x] = t],
         request' \in [Requests -> Request],
         \A q \in Requests : PlanFits(q)',
         \/ target[x].state # "PAUSED"
         \/ \A q \in Requests : request'[q] # request[q] => ~request'[q].lone
  PROVE  IInv' /\ PauseIsFreeStep
<1>1. TypeOK'
  BY DEF IInv, TypeOK, OthersTyped
<1>2. PausedKnowsSince'
  BY DEF IInv, TypeOK, PausedKnowsSince, Active
<1>3. PauseIsFreeStep
  BY DEF PauseIsFreeStep, IInv, TypeOK
<1> QED BY <1>1, <1>2, <1>3 DEF IInv

\* After a write that is not its own, a request is between calls or is no longer
\* alone.
LEMMA HeardFits ==
  ASSUME IInv, NEW q \in Requests, request'[q] \in Heard(q),
         request'[q].lone => request[q].call = "none"
  PROVE  PlanFits(q)'
<1>1. Idle(request[q]) /\ request[q] \in Request
  BY DEF IInv, PlanFits, TypeOK
<1>2. Idle(request'[q]) /\ (request'[q].lone => request'[q].updates = {})
  BY <1>1 DEF Idle, Heard, Request
<1> QED BY <1>2 DEF PlanFits, Idle, FitsRows

LEMMA StartStep ==
  ASSUME IInv, NEW r \in Requests, StartTarget(r)
  PROVE  IInv' /\ PauseIsFreeStep
<1> DEFINE n == request[r].now
           rest == Tail(request[r].stages)
<1>1. /\ request[r].stages # <<>> /\ request[r].updates = {}
      /\ rest \in Seq(Stages) /\ n \in Nat
  BY RestTyped DEF StartTarget, At, IInv, TypeOK, Request
<1>2. PICK x \in TargetIds :
        /\ target[x].state = "ABSENT"
        /\ target' = [target EXCEPT ![x] = [NoTarget EXCEPT
                        !.state = "RUNNING", !.due = n + Minutes[x[1]]]]
  BY DEF StartTarget
<1> DEFINE t == [NoTarget EXCEPT !.state = "RUNNING", !.due = n + Minutes[x[1]]]
<1>3. Minutes[x[1]] \in Nat
  BY SlaConstants DEF TargetIds
<1>4. t \in Target /\ t.state = "RUNNING" /\ t.paused = Null
  <2> DEFINE due == n + Minutes[x[1]]
  <2>1. due \in Nat
    BY <1>1, <1>3
  <2> HIDE DEF due
  <2>2. /\ [NoTarget EXCEPT !.state = "RUNNING", !.due = due] \in Target
        /\ [NoTarget EXCEPT !.state = "RUNNING", !.due = due].state = "RUNNING"
        /\ [NoTarget EXCEPT !.state = "RUNNING", !.due = due].paused = Null
    BY <2>1 DEF NoTarget, Target
  <2> QED BY <2>2 DEF due
<1>5. PICK base \in [Requests -> Request] :
        /\ base = Interfere(r)
        /\ \A q \in Requests : /\ base[q] \in Heard(q)
                               /\ q = r => base[q] = request[q]
                               /\ q # r /\ base[q].lone => request[q].call = "none"
  BY Interfered DEF IInv
<1>6. request' = [base EXCEPT ![r].stages = rest]
  BY <1>5 DEF StartTarget, IInv, TypeOK, Request
<1> DEFINE new == [request[r] EXCEPT !.stages = rest]
<1>7. new \in Request /\ new.updates = {} /\ Idle(new)
  <2>1. request[r] \in Request /\ Idle(request[r])
    BY DEF IInv, PlanFits, TypeOK
  <2>2. request[r].call # "none"
    BY <1>1, <2>1 DEF Idle
  <2> HIDE DEF rest
  <2>3. new \in Request /\ new.updates = {} /\ new.call # "none"
    BY <1>1, <2>1, <2>2 DEF Request
  <2> QED BY <2>3 DEF Idle
<1>8. request' = [base EXCEPT ![r] = new]
  BY <1>5, <1>6
<1> HIDE DEF new, t
<1>9. ASSUME NEW q \in Requests
      PROVE  PlanFits(q)'
  <2>1. CASE q = r
    <3>1. request'[q] = new
      BY <1>8, <2>1
    <3> QED BY <1>7, <3>1 DEF PlanFits, FitsRows, Idle
  <2>2. CASE q # r
    <3>1. request'[q] = base[q]
      BY <1>8, <2>2
    <3> QED BY <1>5, <2>2, <3>1, HeardFits
  <2> QED BY <2>1, <2>2
<1>10. request' \in [Requests -> Request]
  BY <1>7, <1>8
<1>11. OthersTyped'
  BY DEF StartTarget, IInv, TypeOK, OthersTyped
<1>12. target' = [target EXCEPT ![x] = t] /\ target[x].state # "PAUSED"
  BY <1>2 DEF t
<1> QED BY <1>4, <1>9, <1>10, <1>11, <1>12, RowStep

LEMMA JobStep ==
  ASSUME IInv, NEW j \in Executors, Workflow(j)
  PROVE  IInv' /\ PauseIsFreeStep
<1>0. /\ TypeOK
      /\ job[j] \in Job
      /\ request \in [Requests -> Request]
      /\ \A q \in Requests : request[q] \in Heard(q)
  BY AsBefore DEF IInv, TypeOK
<1>1. CASE JobRead(j, "start") \/ JobRead(j, "stop") \/ JobAbort(j)
  <2>1. UNCHANGED <<target, request>>
    BY <1>1 DEF JobRead, JobAbort
  <2>2. job' \in [Executors -> Job]
    BY <1>0, <1>1, NoJobTyped DEF JobRead, JobAbort, TypeOK, Job
  <2>3. OthersTyped'
    BY <1>0, <1>1, <2>2, SlaConstants DEF JobRead, JobAbort, TypeOK, OthersTyped
  <2> QED BY <1>0, <2>1, <2>3, QuietStep
<1>2. CASE JobWrite(j)
  <2> DEFINE x == job[j].id
             t == IF job[j].pc = "stop" THEN Met(target[x], clock) ELSE Restarted(target[x])
  <2>1. x \in TargetIds /\ target[x] \in Target /\ clock \in Nat
    BY <1>0 DEF Job, TypeOK
  <2>2. Met(target[x], clock) \in Target /\ Met(target[x], clock).state = "MET"
    BY <2>1 DEF Met, Target
  <2>3. /\ Restarted(target[x]) \in Target
        /\ Restarted(target[x]).state = "RUNNING" /\ Restarted(target[x]).paused = Null
    BY <2>1 DEF Restarted, Target
  <2>4. t \in Target /\ (t.state \in ActiveStates => (t.state = "PAUSED" <=> t.paused # Null))
    BY <2>2, <2>3 DEF ActiveStates
  <2>5. target' = [target EXCEPT ![x] = t] /\ request' = InterfereAll
    BY <1>2 DEF JobWrite
  <2>6. job' \in [Executors -> Job]
    BY <1>0, <1>2, NoJobTyped DEF JobWrite, TypeOK
  <2>7. OthersTyped'
    BY <1>0, <1>2, <2>6 DEF JobWrite, TypeOK, OthersTyped
  <2>8. /\ request' \in [Requests -> Request]
        /\ \A q \in Requests : /\ request'[q] \in Heard(q)
                               /\ request'[q].lone => request[q].call = "none"
    BY <1>0, <2>5, AllInterfered
  <2>9. \A q \in Requests : PlanFits(q)'
    BY <2>8, HeardFits
  <2>10. \A q \in Requests : request'[q] # request[q] => ~request'[q].lone
    <3>1. SUFFICES ASSUME NEW q \in Requests, request'[q] # request[q]
                   PROVE  ~request'[q].lone
      OBVIOUS
    <3>2. request'[q] = [request[q] EXCEPT !.lone = FALSE]
      BY <2>8, <3>1 DEF Heard
    <3>3. request[q] \in Request
      BY <1>0
    <3> QED BY <3>2, <3>3 DEF Request
  <2> HIDE DEF x, t
  <2> QED BY <2>1, <2>4, <2>5, <2>7, <2>8, <2>9, <2>10, RowStep
<1> QED BY <1>1, <1>2 DEF Workflow

LEMMA JobChangeStatusStep ==
  ASSUME IInv, NEW to \in AutomationTargets, JobChangeStatus(to)
  PROVE  IInv' /\ PauseIsFreeStep
<1>1. /\ request' \in [Requests -> Request]
      /\ \A q \in Requests : request'[q] \in Heard(q)
  BY AllInterfered DEF JobChangeStatus, IInv
<1>2. OthersTyped' /\ UNCHANGED target
  BY SlaConstants DEF JobChangeStatus, IInv, TypeOK, OthersTyped
<1> QED BY <1>1, <1>2, QuietStep

LEMMA TickStep ==
  ASSUME IInv, Tick \/ UNCHANGED vars
  PROVE  IInv' /\ PauseIsFreeStep
<1>1. UNCHANGED <<target, request>> /\ OthersTyped'
  BY DEF Tick, vars, IInv, TypeOK, OthersTyped
<1> QED BY <1>1, AsBefore, QuietStep DEF IInv

-----------------------------------------------------------------------------
(* Theorems                                                                *)

LEMMA InitHolds == Init => IInv
<1> SUFFICES ASSUME Init
             PROVE  IInv
  OBVIOUS
<1> DEFINE stages == << <<"start", "RESPONSE">>, <<"start", "RESOLUTION">>, <<"sync", "all">> >>
           first == [NoRequest EXCEPT !.call = "created", !.stages = stages]
<1>1. stages \in Seq(Stages)
  BY NamedStages, TypesAre
<1> HIDE DEF stages
<1>2. first \in Request /\ first.updates = {} /\ Idle(first)
  BY <1>1, NoRequestTyped DEF NoRequest, Request, Idle
<1>3. NoRequest \in Request /\ NoRequest.updates = {} /\ Idle(NoRequest)
  BY NoRequestTyped DEF NoRequest, Idle
<1>4. PICK r \in Requests : request = [q \in Requests |-> IF q # r THEN NoRequest ELSE first]
  BY DEF Init, first, stages
<1> HIDE DEF first
<1>5. \A q \in Requests :
        request[q] \in Request /\ request[q].updates = {} /\ Idle(request[q])
  BY <1>2, <1>3, <1>4
<1>6. TypeOK
  <2>1. request \in [Requests -> Request]
    BY <1>4, <1>5
  <2>2. target \in [TargetIds -> Target] /\ job \in [Executors -> Job]
    BY NoTargetTyped, NoJobTyped DEF Init
  <2> QED BY <2>1, <2>2, SlaConstants DEF Init, TypeOK, TicketStatus
<1>7. PausedKnowsSince
  BY DEF Init, PausedKnowsSince, Active, ActiveStates, NoTarget
<1>8. \A q \in Requests : PlanFits(q)
  BY <1>5, BlankFits DEF PlanFits
<1> QED BY <1>6, <1>7, <1>8 DEF IInv

LEMMA StepHolds == IInv /\ [Next]_vars => IInv' /\ PauseIsFreeStep
<1> SUFFICES ASSUME IInv, [Next]_vars
             PROVE  IInv' /\ PauseIsFreeStep
  OBVIOUS
<1>1. ASSUME NEW r \in Requests, Call(r)
      PROVE  IInv' /\ PauseIsFreeStep
  BY <1>1, BeginStep, EndStep, ReadClockStep, EvaluateStep, SyncStep, CompleteStep,
     ReadCurrentStep, ReopenStep, StartStep, WritesStep DEF Call
<1> QED BY <1>1, JobStep, JobChangeStatusStep, TickStep DEF Next

\* The invariant: whatever calls and executors do to each other, what a call
\* nobody interfered with has planned fits the rows.
THEOREM PlansHold == Spec => []IInv
BY InitHolds, StepHolds, PTL DEF Spec

\* Type correctness.
THEOREM TypeCorrect == Spec => []TypeOK
<1>1. IInv => TypeOK
  BY DEF IInv
<1> QED BY <1>1, PlansHold, PTL

\* A target is paused iff it knows since when, though every write is by id and
\* blind to the state of the row.
THEOREM PausesHaveATime == Spec => []PausedKnowsSince
<1>1. IInv => PausedKnowsSince
  BY DEF IInv
<1> QED BY <1>1, PlansHold, PTL

\* A pause is free when nobody else writes during the call that ends it.
THEOREM PausesAreFree == Spec => PauseIsFree
<1>1. IInv /\ [Next]_vars => [PauseIsFreeStep]_vars
  BY StepHolds
<1>2. PauseIsFree <=> [][PauseIsFreeStep]_vars
  BY DEF PauseIsFree, PauseIsFreeStep
<1> QED BY <1>1, <1>2, PlansHold, PTL DEF Spec

-----------------------------------------------------------------------------
(* What a call that is alone settles: the invariant                        *)

\* At most one target of a type is active, as the unique index has it.
OneActive ==
  \A x, y \in TargetIds : x[1] = y[1] /\ Active(x) /\ Active(y) => x = y

\* Call c will update target x, in one of these ways.
WillUpdate(c, x, kinds) == \E u \in c.updates : u.id = x /\ u.kind \in kinds

\* What c will update is active.
PlansForActive(c) == \A u \in c.updates : Active(u.id)

\* The call has evaluated: it will breach what is overdue, and warn where that is due.
Evaluated(c) ==
  /\ \A u \in c.updates : u.kind \in {"warn", "breach"}
  /\ \A x \in TargetIds : target[x].state = "RUNNING" =>
       /\ Overdue(target[x], c.now) => WillUpdate(c, x, {"breach"})
       /\ DueForWarning(target[x], c.now, x[1]) => WillUpdate(c, x, {"warn"})

\* The call has synchronised: what is not paused as its status demands, it will
\* pause or resume, and nothing else.
Synced(c) ==
  /\ \A u \in c.updates : /\ u.kind = "pause" => c.status \in PauseOn
                          /\ u.kind = "resume" => c.status \notin PauseOn
  /\ \A x \in TargetIds : Active(x) /\ ~(target[x].state = "PAUSED" <=> c.status \in PauseOn) =>
       WillUpdate(c, x, {"pause", "resume"})

\* The call will meet whatever target of the type is active.
WillMeet(c, type) ==
  \A x \in TargetIds : x[1] = type /\ Active(x) => WillUpdate(c, x, {"meet"})

\* Lists of stages, by what comes first.
ToEvaluate == << <<"evaluate", "all">> >>
ToSync     == << <<"sync", "all">>, <<"evaluate", "all">> >>
AndEvaluate(name, type) == << <<name, type>>, <<"evaluate", "all">> >>
AndSync(name, type) == << <<name, type>>, <<"sync", "all">>, <<"evaluate", "all">> >>
EvaluateAnd(name, type) ==
  << <<"evaluate", "all">>, <<name, type>>, <<"sync", "all">>, <<"evaluate", "all">> >>
ClockAnd(name, type) ==
  << <<"clock", "all">>, <<"evaluate", "all">>, <<name, type>>, <<"sync", "all">>, <<"evaluate", "all">> >>
ClockAndSync ==
  << <<"clock", "all">>, <<"evaluate", "all">>, <<"sync", "all">>, <<"evaluate", "all">> >>

\* The stages a call has left, and what those before have achieved.
ReadGoesOn(c) ==
  \/ c.stages = ToEvaluate
  \/ c.stages = <<>> /\ Evaluated(c)

CommentGoesOn(c) ==
  \/ c.stages \in {AndEvaluate("complete", "RESPONSE"), AndEvaluate("meet", "RESPONSE")}
  \/ c.stages = ToEvaluate /\ WillMeet(c, "RESPONSE")
  \/ c.stages = <<>> /\ NoneActive("RESPONSE") /\ Evaluated(c)

\* Before the targets are synchronised, of a ticket that was solved or was not.
ToSolve == {ClockAnd("complete", "RESOLUTION"), EvaluateAnd("complete", "RESOLUTION"),
            AndSync("complete", "RESOLUTION"), AndSync("meet", "RESOLUTION")}

ToFollow == {ClockAndSync, AndSync("evaluate", "all"),
             ClockAnd("reopen", "all"), EvaluateAnd("reopen", "all"),
             AndSync("reopen", "all"), AndSync("start", "RESOLUTION")}

StatusGoesOn(c) ==
  LET solved == c.status = "SOLVED"
  IN  /\ status = c.status
      /\ \/ c.stages \in IF solved THEN ToSolve ELSE ToFollow
         \/ c.stages = ToSync /\ (solved => WillMeet(c, "RESOLUTION"))
         \/ /\ c.stages = ToEvaluate \/ (c.stages = <<>> /\ Evaluated(c))
            /\ solved => NoneActive("RESOLUTION")
            /\ Synced(c)

\* A call nobody interfered with is on its way to settle the targets.
Settling(c) ==
  c.lone =>
    /\ PlansForActive(c)
    /\ c.call = "read" => ReadGoesOn(c)
    /\ c.call = "comment" => CommentGoesOn(c)
    /\ c.call = "status" => StatusGoesOn(c)

SettleInv ==
  /\ OneActive
  /\ \A r \in Requests : Settling(request[r])

-----------------------------------------------------------------------------
(* Lists of stages                                                         *)

\* A sequence is the tuple of its elements.
LEMMA FourStages ==
  ASSUME NEW s \in Seq(Stages), Len(s) = 4
  PROVE  s = << s[1], s[2], s[3], s[4] >>
OBVIOUS

LEMMA FiveStages ==
  ASSUME NEW s \in Seq(Stages), Len(s) = 5
  PROVE  s = << s[1], s[2], s[3], s[4], s[5] >>
OBVIOUS

LEMMA JoinedAt ==
  ASSUME NEW s \in Seq(Stages), NEW t \in Seq(Stages)
  PROVE  /\ s \o t \in Seq(Stages)
         /\ Len(s \o t) = Len(s) + Len(t)
         /\ \A i \in 1..(Len(s) + Len(t)) :
              (s \o t)[i] = IF i <= Len(s) THEN s[i] ELSE t[i - Len(s)]
BY ConcatProperties

LEMMA OneAndTwo ==
  ASSUME NEW s \in Seq(Stages), NEW t \in Seq(Stages), Len(s) = 1, Len(t) = 2
  PROVE  s \o t = << s[1], t[1], t[2] >>
<1> DEFINE q == s \o t
<1>1. /\ q \in Seq(Stages) /\ Len(q) = Len(s) + Len(t)
      /\ \A i \in 1..(Len(s) + Len(t)) : q[i] = IF i <= Len(s) THEN s[i] ELSE t[i - Len(s)]
  BY JoinedAt
<1> HIDE DEF q
<1>2. Len(q) = 3 /\ q[1] = s[1] /\ q[2] = t[1] /\ q[3] = t[2]
  BY <1>1
<1>3. q = << q[1], q[2], q[3] >>
  BY <1>1, <1>2
<1> QED BY <1>2, <1>3 DEF q

LEMMA OneAndOne ==
  ASSUME NEW s \in Seq(Stages), NEW t \in Seq(Stages), Len(s) = 1, Len(t) = 1
  PROVE  s \o t = << s[1], t[1] >>
<1> DEFINE q == s \o t
<1>1. /\ q \in Seq(Stages) /\ Len(q) = Len(s) + Len(t)
      /\ \A i \in 1..(Len(s) + Len(t)) : q[i] = IF i <= Len(s) THEN s[i] ELSE t[i - Len(s)]
  BY JoinedAt
<1> HIDE DEF q
<1>2. Len(q) = 2 /\ q[1] = s[1] /\ q[2] = t[1]
  BY <1>1
<1>3. q = << q[1], q[2] >>
  BY <1>1, <1>2
<1> QED BY <1>2, <1>3 DEF q

LEMMA TwoAndTwo ==
  ASSUME NEW s \in Seq(Stages), NEW t \in Seq(Stages), Len(s) = 2, Len(t) = 2
  PROVE  s \o t = << s[1], s[2], t[1], t[2] >>
<1> DEFINE q == s \o t
<1>1. /\ q \in Seq(Stages) /\ Len(q) = Len(s) + Len(t)
      /\ \A i \in 1..(Len(s) + Len(t)) : q[i] = IF i <= Len(s) THEN s[i] ELSE t[i - Len(s)]
  BY JoinedAt
<1> HIDE DEF q
<1>2. Len(q) = 4 /\ q[1] = s[1] /\ q[2] = s[2] /\ q[3] = t[1] /\ q[4] = t[2]
  BY <1>1
<1>3. q = << q[1], q[2], q[3], q[4] >>
  BY <1>1, <1>2, FourStages
<1> QED BY <1>2, <1>3 DEF q

LEMMA TwoOneAndTwo ==
  ASSUME NEW s \in Seq(Stages), NEW m \in Seq(Stages), NEW t \in Seq(Stages),
         Len(s) = 2, Len(m) = 1, Len(t) = 2
  PROVE  (s \o m) \o t = << s[1], s[2], m[1], t[1], t[2] >>
<1> DEFINE p == s \o m
           q == p \o t
<1>1. /\ p \in Seq(Stages) /\ Len(p) = Len(s) + Len(m)
      /\ \A i \in 1..(Len(s) + Len(m)) : p[i] = IF i <= Len(s) THEN s[i] ELSE m[i - Len(s)]
  BY JoinedAt
<1> HIDE DEF p
<1>2. Len(p) = 3 /\ p[1] = s[1] /\ p[2] = s[2] /\ p[3] = m[1]
  BY <1>1
<1>3. /\ q \in Seq(Stages) /\ Len(q) = Len(p) + Len(t)
      /\ \A i \in 1..(Len(p) + Len(t)) : q[i] = IF i <= Len(p) THEN p[i] ELSE t[i - Len(p)]
  BY <1>1, JoinedAt
<1> HIDE DEF q
<1>4. Len(q) = 5 /\ q[1] = p[1] /\ q[2] = p[2] /\ q[3] = p[3] /\ q[4] = t[1] /\ q[5] = t[2]
  BY <1>2, <1>3
<1>5. q = << q[1], q[2], q[3], q[4], q[5] >>
  BY <1>2, <1>3, <1>4, FiveStages
<1>6. q = << s[1], s[2], m[1], t[1], t[2] >>
  BY <1>2, <1>4, <1>5
<1> QED BY <1>6 DEF p, q

\* The stages of a status call are one of four lists.
LEMMA StatusStagesAre ==
  ASSUME NEW from, NEW to
  PROVE  StatusStages(from, to) \in IF to = "SOLVED" THEN ToSolve ELSE ToFollow
<1> DEFINE a == << <<"clock", "all">>, <<"evaluate", "all">> >>
           d == << <<"sync", "all">>, <<"evaluate", "all">> >>
           one == << <<"complete", "RESOLUTION">> >>
           two == << <<"reopen", "all">> >>
<1>1. /\ a \in Seq(Stages) /\ Len(a) = 2 /\ a[1] = <<"clock", "all">> /\ a[2] = <<"evaluate", "all">>
      /\ d \in Seq(Stages) /\ Len(d) = 2 /\ d[1] = <<"sync", "all">> /\ d[2] = <<"evaluate", "all">>
  BY NamedStages, TwoStages
<1>2. /\ one \in Seq(Stages) /\ Len(one) = 1 /\ one[1] = <<"complete", "RESOLUTION">>
      /\ two \in Seq(Stages) /\ Len(two) = 1 /\ two[1] = <<"reopen", "all">>
  BY NamedStages, TypesAre, OneStage
<1>3. StatusStages(from, to) =
        ((a \o (IF to = "SOLVED" THEN one ELSE <<>>))
           \o (IF from = "SOLVED" /\ to = "OPEN" THEN two ELSE <<>>)) \o d
  BY DEF StatusStages
<1> HIDE DEF a, d, one, two
<1>4. CASE to = "SOLVED"
  <2>1. StatusStages(from, to) = ((a \o one) \o <<>>) \o d
    BY <1>3, <1>4
  <2>2. (a \o one) \o <<>> = a \o one
    BY <1>1, <1>2, Joined, ConcatEmptySeq
  <2>3. (a \o one) \o d = << a[1], a[2], one[1], d[1], d[2] >>
    BY <1>1, <1>2, TwoOneAndTwo
  <2> QED BY <1>1, <1>2, <1>4, <2>1, <2>2, <2>3 DEF ToSolve, ClockAnd
<1>5. CASE from = "SOLVED" /\ to = "OPEN"
  <2>1. StatusStages(from, to) = ((a \o <<>>) \o two) \o d
    BY <1>3, <1>5
  <2>2. a \o <<>> = a
    BY <1>1, ConcatEmptySeq
  <2>3. (a \o two) \o d = << a[1], a[2], two[1], d[1], d[2] >>
    BY <1>1, <1>2, TwoOneAndTwo
  <2> QED BY <1>1, <1>2, <1>5, <2>1, <2>2, <2>3 DEF ToFollow, ClockAnd
<1>6. CASE to # "SOLVED" /\ ~(from = "SOLVED" /\ to = "OPEN")
  <2>1. StatusStages(from, to) = ((a \o <<>>) \o <<>>) \o d
    BY <1>3, <1>6
  <2>2. (a \o <<>>) \o <<>> = a
    BY <1>1, ConcatEmptySeq
  <2>3. a \o d = << a[1], a[2], d[1], d[2] >>
    BY <1>1, TwoAndTwo
  <2> QED BY <1>1, <1>6, <2>1, <2>2, <2>3 DEF ToFollow, ClockAndSync
<1> QED BY <1>4, <1>5, <1>6

\* A type of stage that goes before.
LEMMA GoesBefore ==
  ASSUME NEW n \in {"start", "complete", "meet"}, NEW type \in Types
  PROVE  /\ << <<n, type>> >> \o ToSync = AndSync(n, type)
         /\ << <<n, type>> >> \o ToEvaluate = AndEvaluate(n, type)
<1> DEFINE s == << <<n, type>> >>
<1>1. s \in Seq(Stages) /\ Len(s) = 1 /\ s[1] = <<n, type>>
  BY NamedStages, OneStage
<1>2. /\ ToSync \in Seq(Stages) /\ Len(ToSync) = 2
      /\ ToSync[1] = <<"sync", "all">> /\ ToSync[2] = <<"evaluate", "all">>
  BY NamedStages, TwoStages DEF ToSync
<1>3. ToEvaluate \in Seq(Stages) /\ Len(ToEvaluate) = 1 /\ ToEvaluate[1] = <<"evaluate", "all">>
  BY NamedStages, OneStage DEF ToEvaluate
<1> HIDE DEF s
<1>4. s \o ToSync = << s[1], ToSync[1], ToSync[2] >>
  BY <1>1, <1>2, OneAndTwo
<1>5. s \o ToEvaluate = << s[1], ToEvaluate[1] >>
  BY <1>1, <1>3, OneAndOne
<1> QED BY <1>1, <1>2, <1>3, <1>4, <1>5 DEF s, AndSync, AndEvaluate

-----------------------------------------------------------------------------
(* Calls that go on                                                        *)

LEMMA OneActiveStays ==
  ASSUME SettleInv, UNCHANGED target
  PROVE  OneActive'
BY DEF SettleInv, OneActive, Active

\* A call without updates, or that is not alone, has nothing to go wrong.
LEMMA NothingPlanned ==
  ASSUME NEW c, ~c.lone \/ (c.call = "none" /\ c.updates = {})
  PROVE  Settling(c)
BY DEF Settling, PlansForActive

\* After a write that is not its own.
LEMMA HeardSettles ==
  ASSUME IInv, NEW q \in Requests, request'[q] \in Heard(q),
         request'[q].lone => request[q].call = "none"
  PROVE  Settling(request[q])'
<1>1. Idle(request[q]) /\ request[q] \in Request
  BY DEF IInv, PlanFits, TypeOK
<1>2. ~request'[q].lone \/ (request'[q].call = "none" /\ request'[q].updates = {})
  BY <1>1 DEF Idle, Heard, Request
<1> QED BY <1>2 DEF Settling, PlansForActive

\* Rows and ticket stay, and each request is as before, has heard of a write, or
\* goes on.
LEMMA CallsGoOn ==
  ASSUME IInv, SettleInv, UNCHANGED <<target, status>>,
         \A q \in Requests : request'[q] \in Heard(q) \/ Settling(request'[q])
  PROVE  SettleInv'
<1>1. ASSUME NEW q \in Requests
      PROVE  Settling(request[q])'
  <2>1. Settling(request'[q])
    <3>1. CASE request'[q] = request[q]
      BY <3>1 DEF SettleInv
    <3>2. CASE request'[q] = [request[q] EXCEPT !.lone = FALSE]
      <4>1. ~request'[q].lone
        BY <3>2 DEF IInv, TypeOK, Request
      <4> QED BY <4>1, NothingPlanned
    <3> QED BY <3>1, <3>2 DEF Heard
  <2> QED BY <2>1 DEF Settling, PlansForActive, ReadGoesOn, CommentGoesOn, StatusGoesOn,
         Evaluated, Synced, WillMeet, WillUpdate, NoneActive, Active, Overdue, DueForWarning,
         Remaining
<1> QED BY <1>1, OneActiveStays DEF SettleInv

LEMMA PlanGoesOn ==
  ASSUME IInv, SettleInv, NEW r \in Requests, NEW U, NEW S, Plan(r, U, S),
         Settling([request[r] EXCEPT !.updates = U, !.stages = S])
  PROVE  SettleInv'
<1> DEFINE new == [request[r] EXCEPT !.updates = U, !.stages = S]
<1>1. request' = [request EXCEPT ![r] = new] /\ UNCHANGED <<target, status>>
  BY DEF Plan, IInv, TypeOK, Request
<1>2. Settling(new)
  OBVIOUS
<1> HIDE DEF new
<1>3. ASSUME NEW q \in Requests
      PROVE  request'[q] \in Heard(q) \/ Settling(request'[q])
  <2>1. request \in [Requests -> Request]
    BY DEF IInv, TypeOK
  <2>2. CASE q = r
    BY <1>1, <1>2, <2>1, <2>2
  <2>3. CASE q # r
    BY <1>1, <2>1, <2>3 DEF Heard
  <2> QED BY <2>2, <2>3
<1> QED BY <1>1, <1>3, CallsGoOn

\* What each list begins with, and what is left after it.
LEMMA Lists ==
  /\ Head(ToEvaluate) = <<"evaluate", "all">> /\ Tail(ToEvaluate) = <<>>
  /\ Head(ToSync) = <<"sync", "all">> /\ Tail(ToSync) = ToEvaluate
  /\ Head(ClockAndSync) = <<"clock", "all">> /\ Tail(ClockAndSync) = AndSync("evaluate", "all")
  /\ \A n, type :
       /\ Head(AndEvaluate(n, type)) = <<n, type>> /\ Tail(AndEvaluate(n, type)) = ToEvaluate
       /\ Head(AndSync(n, type)) = <<n, type>> /\ Tail(AndSync(n, type)) = ToSync
       /\ Head(EvaluateAnd(n, type)) = <<"evaluate", "all">>
       /\ Tail(EvaluateAnd(n, type)) = AndSync(n, type)
       /\ Head(ClockAnd(n, type)) = <<"clock", "all">>
       /\ Tail(ClockAnd(n, type)) = EvaluateAnd(n, type)
BY DEF ToEvaluate, ToSync, ClockAndSync, AndEvaluate, AndSync, EvaluateAnd, ClockAnd

LEMMA SolveLists ==
  ASSUME NEW s \in ToSolve
  PROVE  /\ Head(s)[1] = "clock" => Tail(s) \in ToSolve
         /\ Head(s)[1] \in {"complete", "meet"} => Head(s)[2] = "RESOLUTION" /\ Tail(s) = ToSync
         /\ Head(s)[1] \notin {"reopen", "start", "sync"}
         /\ Head(s)[1] = "evaluate" => Tail(s) \in ToSolve
<1>1. CASE s = ClockAnd("complete", "RESOLUTION")
  <2>1. Head(s) = <<"clock", "all">> /\ Tail(s) = EvaluateAnd("complete", "RESOLUTION")
    BY <1>1, Lists
  <2> QED BY <2>1 DEF ToSolve
<1>2. CASE s = EvaluateAnd("complete", "RESOLUTION")
  <2>1. Head(s) = <<"evaluate", "all">> /\ Tail(s) = AndSync("complete", "RESOLUTION")
    BY <1>2, Lists
  <2> QED BY <2>1 DEF ToSolve
<1>3. CASE s = AndSync("complete", "RESOLUTION")
  <2>1. Head(s) = <<"complete", "RESOLUTION">> /\ Tail(s) = ToSync
    BY <1>3, Lists
  <2> QED BY <2>1
<1>4. CASE s = AndSync("meet", "RESOLUTION")
  <2>1. Head(s) = <<"meet", "RESOLUTION">> /\ Tail(s) = ToSync
    BY <1>4, Lists
  <2> QED BY <2>1
<1> QED BY <1>1, <1>2, <1>3, <1>4 DEF ToSolve

LEMMA FollowLists ==
  ASSUME NEW s \in ToFollow
  PROVE  /\ Head(s)[1] = "clock" => Tail(s) \in ToFollow
         /\ Head(s)[1] \notin {"complete", "meet", "sync"}
         /\ Head(s)[1] \in {"reopen", "start"} => Tail(s) = ToSync
         /\ Head(s)[1] = "evaluate" => Tail(s) \in ToFollow \cup {ToSync}
<1>1. CASE s = ClockAndSync
  <2>1. Head(s) = <<"clock", "all">> /\ Tail(s) = AndSync("evaluate", "all")
    BY <1>1, Lists
  <2> QED BY <2>1 DEF ToFollow
<1>2. CASE s = AndSync("evaluate", "all")
  <2>1. Head(s) = <<"evaluate", "all">> /\ Tail(s) = ToSync
    BY <1>2, Lists
  <2> QED BY <2>1
<1>3. CASE s = ClockAnd("reopen", "all")
  <2>1. Head(s) = <<"clock", "all">> /\ Tail(s) = EvaluateAnd("reopen", "all")
    BY <1>3, Lists
  <2> QED BY <2>1 DEF ToFollow
<1>4. CASE s = EvaluateAnd("reopen", "all")
  <2>1. Head(s) = <<"evaluate", "all">> /\ Tail(s) = AndSync("reopen", "all")
    BY <1>4, Lists
  <2> QED BY <2>1 DEF ToFollow
<1>5. CASE s = AndSync("reopen", "all")
  <2>1. Head(s) = <<"reopen", "all">> /\ Tail(s) = ToSync
    BY <1>5, Lists
  <2> QED BY <2>1
<1>6. CASE s = AndSync("start", "RESOLUTION")
  <2>1. Head(s) = <<"start", "RESOLUTION">> /\ Tail(s) = ToSync
    BY <1>6, Lists
  <2> QED BY <2>1
<1> QED BY <1>1, <1>2, <1>3, <1>4, <1>5, <1>6 DEF ToFollow

\* The call goes on at a stage, whose name is the first of the list.
LEMMA AtStage ==
  ASSUME NEW c, Settling(c), c.lone, c.stages # <<>>,
         NEW n, n = Head(c.stages)[1], NEW type, type = Head(c.stages)[2]
  PROVE  /\ c.call = "read" => n = "evaluate" /\ Tail(c.stages) = <<>>
         /\ c.call = "comment" =>
              /\ n \in {"complete", "meet"} => type = "RESPONSE" /\ Tail(c.stages) = ToEvaluate
              /\ n \notin {"complete", "meet"} =>
                   n = "evaluate" /\ Tail(c.stages) = <<>> /\ WillMeet(c, "RESPONSE")
         /\ c.call = "status" =>
              /\ status = c.status
              /\ n = "clock" => Tail(c.stages) \in IF c.status = "SOLVED" THEN ToSolve ELSE ToFollow
              /\ n \in {"complete", "meet"} =>
                   c.status = "SOLVED" /\ type = "RESOLUTION" /\ Tail(c.stages) = ToSync
              /\ n \in {"reopen", "start"} => c.status # "SOLVED" /\ Tail(c.stages) = ToSync
              /\ n = "sync" => /\ Tail(c.stages) = ToEvaluate
                               /\ c.status = "SOLVED" => WillMeet(c, "RESOLUTION")
              /\ n = "evaluate" =>
                   \/ Tail(c.stages) \in IF c.status = "SOLVED" THEN ToSolve ELSE ToFollow
                   \/ Tail(c.stages) = ToSync /\ c.status # "SOLVED"
                   \/ /\ Tail(c.stages) = <<>> /\ Synced(c)
                      /\ c.status = "SOLVED" => NoneActive("RESOLUTION")
<1>1. ASSUME c.call = "read"
      PROVE  n = "evaluate" /\ Tail(c.stages) = <<>>
  BY <1>1, Lists DEF Settling, ReadGoesOn
<1>2. ASSUME c.call = "comment"
      PROVE  /\ n \in {"complete", "meet"} => type = "RESPONSE" /\ Tail(c.stages) = ToEvaluate
             /\ n \notin {"complete", "meet"} =>
                  n = "evaluate" /\ Tail(c.stages) = <<>> /\ WillMeet(c, "RESPONSE")
  BY <1>2, Lists DEF Settling, CommentGoesOn
<1>3. ASSUME c.call = "status", c.status = "SOLVED", c.stages \in ToSolve
      PROVE  /\ n = "clock" => Tail(c.stages) \in ToSolve
             /\ n \in {"complete", "meet"} => type = "RESOLUTION" /\ Tail(c.stages) = ToSync
             /\ n \notin {"reopen", "start", "sync"}
             /\ n = "evaluate" => Tail(c.stages) \in ToSolve
  BY <1>3, SolveLists
<1>4. ASSUME c.call = "status", c.status # "SOLVED", c.stages \in ToFollow
      PROVE  /\ n = "clock" => Tail(c.stages) \in ToFollow
             /\ n \notin {"complete", "meet", "sync"}
             /\ n \in {"reopen", "start"} => Tail(c.stages) = ToSync
             /\ n = "evaluate" => Tail(c.stages) \in ToFollow \cup {ToSync}
  BY <1>4, FollowLists
<1>5. ASSUME c.stages = ToSync
      PROVE  n = "sync" /\ Tail(c.stages) = ToEvaluate
  BY <1>5, Lists
<1>6. ASSUME c.stages = ToEvaluate
      PROVE  n = "evaluate" /\ Tail(c.stages) = <<>>
  BY <1>6, Lists
<1>7. ASSUME c.call = "status"
      PROVE  StatusGoesOn(c)
  BY <1>7 DEF Settling
<1> QED BY <1>1, <1>2, <1>3, <1>4, <1>5, <1>6, <1>7 DEF StatusGoesOn

LEMMA EvaluateGoesOn ==
  ASSUME IInv, SettleInv, NEW r \in Requests, Evaluate(r)
  PROVE  SettleInv'
<1> DEFINE c == request[r]
           D == {y \in TargetIds : /\ target[y].state = "RUNNING"
                                   /\ \/ Overdue(target[y], c.now)
                                      \/ DueForWarning(target[y], c.now, y[1])}
           U == {[kind |-> IF Overdue(target[x], c.now) THEN "breach" ELSE "warn",
                  id |-> x, due |-> target[x].due] : x \in D}
           S == Tail(c.stages)
           new == [c EXCEPT !.updates = U, !.stages = S]
<1>1. Plan(r, U, S) /\ At(r, "evaluate") /\ Settling(c)
  BY DEF Evaluate, SettleInv
<1>2. /\ new.call = c.call /\ new.lone = c.lone /\ new.status = c.status /\ new.now = c.now
      /\ new.updates = U /\ new.stages = S
  <2> HIDE DEF U, S
  <2> QED BY DEF IInv, TypeOK, Request
<1>3. c.updates = {} /\ c.stages # <<>> /\ Head(c.stages)[1] = "evaluate"
  BY <1>1 DEF At
<1>4. \A u \in U : Active(u.id) /\ u.kind \in {"warn", "breach"}
  BY DEF Active, ActiveStates
<1>5. Evaluated(new)
  <2>1. ASSUME NEW x \in TargetIds, target[x].state = "RUNNING", Overdue(target[x], c.now)
        PROVE  \E u \in U : u.id = x /\ u.kind \in {"breach"}
    <3> DEFINE u == [kind |-> "breach", id |-> x, due |-> target[x].due]
    <3>1. x \in D
      BY <2>1
    <3>2. u \in U
      <4> HIDE DEF D
      <4> QED BY <2>1, <3>1
    <3> QED BY <3>2
  <2>2. ASSUME NEW x \in TargetIds, target[x].state = "RUNNING",
               DueForWarning(target[x], c.now, x[1])
        PROVE  \E u \in U : u.id = x /\ u.kind \in {"warn"}
    <3> DEFINE u == [kind |-> "warn", id |-> x, due |-> target[x].due]
    <3>1. x \in D /\ ~Overdue(target[x], c.now)
      BY <2>2 DEF DueForWarning
    <3>2. u \in U
      <4> HIDE DEF D
      <4> QED BY <3>1
    <3> QED BY <3>2
  <2> HIDE DEF U, new
  <2> QED BY <1>2, <1>4, <2>1, <2>2 DEF Evaluated, WillUpdate
<1> HIDE DEF new, U, D
<1>6. ASSUME c.lone
      PROVE  /\ c.call = "read" => ReadGoesOn(new)
             /\ c.call = "comment" => CommentGoesOn(new)
             /\ c.call = "status" => StatusGoesOn(new)
  <2> DEFINE n == Head(c.stages)[1]
             type == Head(c.stages)[2]
  <2>1. /\ c.call = "read" => S = <<>>
        /\ c.call = "comment" => S = <<>> /\ WillMeet(c, "RESPONSE")
        /\ c.call = "status" =>
             /\ status = c.status
             /\ \/ S \in IF c.status = "SOLVED" THEN ToSolve ELSE ToFollow
                \/ S = ToSync /\ c.status # "SOLVED"
                \/ /\ S = <<>> /\ Synced(c)
                   /\ c.status = "SOLVED" => NoneActive("RESOLUTION")
    BY <1>1, <1>3, <1>6, AtStage
  <2> HIDE DEF S, c
  <2>2. c.call = "comment" => NoneActive("RESPONSE")
    BY <1>3, <2>1 DEF WillMeet, WillUpdate, NoneActive
  <2>3. Synced(c) => Synced(new)
    BY <1>2, <1>3, <1>4 DEF Synced, WillUpdate
  <2>4. c.call = "read" => ReadGoesOn(new)
    BY <1>2, <1>5, <2>1 DEF ReadGoesOn
  <2>5. c.call = "comment" => CommentGoesOn(new)
    BY <1>2, <1>5, <2>1, <2>2 DEF CommentGoesOn
  <2>6. c.call = "status" => StatusGoesOn(new)
    BY <1>2, <1>5, <2>1, <2>3 DEF StatusGoesOn
  <2> QED BY <2>4, <2>5, <2>6
<1>7. Settling(new)
  BY <1>2, <1>4, <1>6 DEF Settling, PlansForActive
<1> HIDE DEF S
<1> QED BY <1>1, <1>7, PlanGoesOn DEF new

LEMMA SyncGoesOn ==
  ASSUME IInv, SettleInv, NEW r \in Requests, SyncPauseState(r)
  PROVE  SettleInv'
<1> DEFINE c == request[r]
           U == SyncUpdates(c.status, c.now)
           S == Tail(c.stages)
           new == [c EXCEPT !.updates = U, !.stages = S]
<1>1. Plan(r, U, S) /\ At(r, "sync") /\ Settling(c)
  BY DEF SyncPauseState, SettleInv
<1>2. /\ new.call = c.call /\ new.lone = c.lone /\ new.status = c.status /\ new.now = c.now
      /\ new.updates = U /\ new.stages = S
  <2> HIDE DEF U, S
  <2> QED BY DEF IInv, TypeOK, Request
<1>3. c.updates = {} /\ c.stages # <<>> /\ Head(c.stages)[1] = "sync"
  BY <1>1 DEF At
<1>4. \A u \in U : Active(u.id)
  BY DEF Active, ActiveStates, SyncUpdates
<1>5. Synced(new)
  <2>1. \A u \in U : /\ u.kind = "pause" => c.status \in PauseOn
                     /\ u.kind = "resume" => c.status \notin PauseOn
    BY DEF SyncUpdates
  <2>2. ASSUME NEW x \in TargetIds, target[x].state = "RUNNING", c.status \in PauseOn
        PROVE  \E u \in U : u.id = x /\ u.kind \in {"pause", "resume"}
    <3> DEFINE u == [kind |-> "pause", id |-> x, due |-> target[x].due]
    <3>1. u \in U
      BY <2>2 DEF SyncUpdates
    <3> QED BY <3>1
  <2>3. ASSUME NEW x \in TargetIds, target[x].state = "PAUSED", c.status \notin PauseOn
        PROVE  \E u \in U : u.id = x /\ u.kind \in {"pause", "resume"}
    <3> DEFINE u == [kind |-> "resume", id |-> x, due |-> ResumedDue(target[x], c.now)]
    <3>1. target[x].paused # Null
      BY <2>3 DEF IInv, PausedKnowsSince, Active, ActiveStates
    <3>2. u \in U
      BY <2>3, <3>1 DEF SyncUpdates
    <3> QED BY <3>2
  <2> HIDE DEF U, new
  <2> QED BY <1>2, <2>1, <2>2, <2>3 DEF Synced, WillUpdate, Active, ActiveStates
<1> HIDE DEF new, U
<1>6. ASSUME c.lone
      PROVE  /\ c.call \notin {"read", "comment"}
             /\ c.call = "status" => StatusGoesOn(new)
  <2> DEFINE n == Head(c.stages)[1]
             type == Head(c.stages)[2]
  <2>1. /\ c.call \notin {"read", "comment"}
        /\ c.call = "status" =>
             /\ status = c.status
             /\ S = ToEvaluate
             /\ c.status = "SOLVED" => WillMeet(c, "RESOLUTION")
    BY <1>1, <1>3, <1>6, AtStage
  <2> HIDE DEF S, c
  <2>2. c.call = "status" /\ c.status = "SOLVED" => NoneActive("RESOLUTION")
    BY <1>3, <2>1 DEF WillMeet, WillUpdate, NoneActive
  <2> QED BY <1>2, <1>5, <2>1, <2>2 DEF StatusGoesOn
<1>7. Settling(new)
  BY <1>2, <1>4, <1>6 DEF Settling, PlansForActive
<1> HIDE DEF S
<1> QED BY <1>1, <1>7, PlanGoesOn DEF new

LEMMA CompleteGoesOn ==
  ASSUME IInv, SettleInv, NEW r \in Requests, CompleteTarget(r)
  PROVE  SettleInv'
<1> DEFINE c == request[r]
           type == StageType(r)
           rest == Tail(c.stages)
           go == << <<"meet", type>> >> \o rest
<1>1. At(r, "complete") /\ Settling(c) /\ type = Head(c.stages)[2]
  BY DEF CompleteTarget, SettleInv, StageType
<1>2. c.updates = {} /\ c.stages # <<>> /\ Head(c.stages)[1] = "complete"
  BY <1>1 DEF At
<1>3. ASSUME c.lone
      PROVE  /\ c.call # "read"
             /\ c.call = "comment" => type = "RESPONSE" /\ rest = ToEvaluate
             /\ c.call = "status" => /\ status = c.status /\ c.status = "SOLVED"
                                     /\ type = "RESOLUTION" /\ rest = ToSync
  <2> HIDE DEF c, type
  <2> QED BY <1>1, <1>2, <1>3, AtStage
<1>4. ASSUME c.lone, c.call \in {"comment", "status"}
      PROVE  go = IF c.call = "comment" THEN AndEvaluate("meet", "RESPONSE")
                                        ELSE AndSync("meet", "RESOLUTION")
  <2> HIDE DEF c, type
  <2> QED BY <1>3, <1>4, GoesBefore, TypesAre
<1>5. ASSUME NEW U, NEW S, Plan(r, U, S), \A u \in U : Active(u.id),
             \/ S = rest /\ NoneActive(type)
             \/ S = go
      PROVE  SettleInv'
  <2> DEFINE new == [c EXCEPT !.updates = U, !.stages = S]
  <2>1. /\ new.call = c.call /\ new.lone = c.lone /\ new.status = c.status /\ new.now = c.now
        /\ new.updates = U /\ new.stages = S
    BY DEF IInv, TypeOK, Request
  <2> HIDE DEF new
  <2>2. ASSUME c.lone
        PROVE  /\ c.call = "read" => ReadGoesOn(new)
               /\ c.call = "comment" => CommentGoesOn(new)
               /\ c.call = "status" => StatusGoesOn(new)
    <3> HIDE DEF c, type, rest, go
    <3>1. CASE S = go
      <4>1. c.call = "comment" => CommentGoesOn(new)
        BY <1>4, <2>1, <2>2, <3>1 DEF CommentGoesOn
      <4>2. c.call = "status" => new.stages \in ToSolve
        BY <1>4, <2>1, <2>2, <3>1 DEF ToSolve
      <4> QED BY <1>3, <2>1, <2>2, <4>1, <4>2 DEF StatusGoesOn
    <3>2. CASE S = rest /\ NoneActive(type)
      <4>1. WillMeet(new, type)
        BY <3>2 DEF WillMeet, NoneActive
      <4>2. c.call = "comment" => CommentGoesOn(new)
        BY <1>3, <2>1, <2>2, <3>2, <4>1 DEF CommentGoesOn
      <4>3. c.call = "status" => StatusGoesOn(new)
        BY <1>3, <2>1, <2>2, <3>2, <4>1 DEF StatusGoesOn
      <4> QED BY <1>3, <2>2, <4>2, <4>3
    <3> QED BY <1>5, <3>1, <3>2
  <2>3. Settling(new)
    BY <1>5, <2>1, <2>2 DEF Settling, PlansForActive
  <2> QED BY <1>5, <2>3, PlanGoesOn DEF new
<1> HIDE DEF go, rest
<1>6. CASE (\A x \in TargetIds : x[1] = type => ~Active(x)) /\ Plan(r, {}, rest)
  <2>1. NoneActive(type)
    BY <1>6 DEF NoneActive
  <2> QED BY <1>5, <1>6, <2>1
<1>7. ASSUME NEW x \in TargetIds, Active(x),
             Plan(r, IF target[x].state = "PAUSED" /\ target[x].paused # Null
                     THEN {[kind |-> "resume", id |-> x, due |-> ResumedDue(target[x], c.now)]}
                     ELSE {}, go)
      PROVE  SettleInv'
  <2> DEFINE U == IF target[x].state = "PAUSED" /\ target[x].paused # Null
                  THEN {[kind |-> "resume", id |-> x, due |-> ResumedDue(target[x], c.now)]}
                  ELSE {}
  <2>1. \A u \in U : Active(u.id)
    BY <1>7
  <2>2. Plan(r, U, go)
    BY <1>7
  <2> HIDE DEF U
  <2> QED BY <1>5, <2>1, <2>2
<1> QED BY <1>6, <1>7 DEF CompleteTarget, go, rest

LEMMA ReadCurrentGoesOn ==
  ASSUME IInv, SettleInv, NEW r \in Requests, ReadCurrent(r)
  PROVE  SettleInv'
<1> DEFINE c == request[r]
           type == StageType(r)
           rest == Tail(c.stages)
<1>1. At(r, "meet") /\ Settling(c) /\ type = Head(c.stages)[2]
  BY DEF ReadCurrent, SettleInv, StageType
<1>2. c.updates = {} /\ c.stages # <<>> /\ Head(c.stages)[1] = "meet"
  BY <1>1 DEF At
<1>3. ASSUME c.lone
      PROVE  /\ c.call # "read"
             /\ c.call = "comment" => type = "RESPONSE" /\ rest = ToEvaluate
             /\ c.call = "status" => /\ status = c.status /\ c.status = "SOLVED"
                                     /\ type = "RESOLUTION" /\ rest = ToSync
  <2> HIDE DEF c, type
  <2> QED BY <1>1, <1>2, <1>3, AtStage
<1>4. ASSUME NEW U, Plan(r, U, rest), \A u \in U : Active(u.id),
             \A x \in TargetIds : x[1] = type /\ Active(x) => \E u \in U : u.id = x /\ u.kind = "meet"
      PROVE  SettleInv'
  <2> DEFINE new == [c EXCEPT !.updates = U, !.stages = rest]
  <2>1. /\ new.call = c.call /\ new.lone = c.lone /\ new.status = c.status
        /\ new.updates = U /\ new.stages = rest
    <3> HIDE DEF rest
    <3> QED BY DEF IInv, TypeOK, Request
  <2> HIDE DEF new, c, type, rest
  <2>2. WillMeet(new, type)
    BY <1>4, <2>1 DEF WillMeet, WillUpdate
  <2>3. ASSUME c.lone
        PROVE  /\ c.call = "comment" => CommentGoesOn(new)
               /\ c.call = "status" => StatusGoesOn(new)
    BY <1>3, <2>1, <2>2, <2>3 DEF CommentGoesOn, StatusGoesOn
  <2>4. Settling(new)
    BY <1>3, <1>4, <2>1, <2>3 DEF Settling, PlansForActive
  <2> QED BY <1>4, <2>4, PlanGoesOn DEF new, c
<1> HIDE DEF rest
<1>5. CASE (\A x \in TargetIds : x[1] = type => ~Active(x)) /\ Plan(r, {}, rest)
  BY <1>4, <1>5
<1>6. ASSUME NEW x \in TargetIds, x[1] = type, Active(x),
             Plan(r, {[kind |-> "meet", id |-> x, due |-> target[x].due]}, rest)
      PROVE  SettleInv'
  <2> DEFINE u == [kind |-> "meet", id |-> x, due |-> target[x].due]
  <2>1. u.id = x /\ u.kind = "meet"
    OBVIOUS
  <2>2. Plan(r, {u}, rest)
    BY <1>6
  <2> HIDE DEF u
  <2>3. \A y \in TargetIds : y[1] = type /\ Active(y) => y = x
    BY <1>6 DEF SettleInv, OneActive
  <2> QED BY <1>4, <1>6, <2>1, <2>2, <2>3
<1> QED BY <1>5, <1>6 DEF ReadCurrent, rest

LEMMA ReopenGoesOn ==
  ASSUME IInv, SettleInv, NEW r \in Requests, HandleReopen(r)
  PROVE  SettleInv'
<1> DEFINE c == request[r]
           rest == Tail(c.stages)
           go == << <<"start", "RESOLUTION">> >> \o rest
<1>1. At(r, "reopen") /\ Settling(c)
  BY DEF HandleReopen, SettleInv
<1>2. c.updates = {} /\ c.stages # <<>> /\ Head(c.stages)[1] = "reopen"
  BY <1>1 DEF At
<1>3. ASSUME c.lone
      PROVE  /\ c.call \notin {"read", "comment"}
             /\ c.call = "status" => status = c.status /\ c.status # "SOLVED" /\ rest = ToSync
  <2> DEFINE type == Head(c.stages)[2]
  <2> HIDE DEF c
  <2> QED BY <1>1, <1>2, <1>3, AtStage
<1>4. ASSUME NEW S, S \in {rest, go}, Plan(r, {}, S)
      PROVE  SettleInv'
  <2> DEFINE new == [c EXCEPT !.updates = {}, !.stages = S]
  <2>1. /\ new.call = c.call /\ new.lone = c.lone /\ new.status = c.status
        /\ new.updates = {} /\ new.stages = S
    BY DEF IInv, TypeOK, Request
  <2> HIDE DEF new
  <2>2. ASSUME c.lone, c.call = "status"
        PROVE  StatusGoesOn(new)
    <3>1. rest = ToSync /\ status = c.status /\ c.status # "SOLVED"
      BY <1>3, <2>2
    <3>2. go = AndSync("start", "RESOLUTION")
      <4> HIDE DEF rest
      <4> QED BY <3>1, GoesBefore, TypesAre
    <3> HIDE DEF c, rest, go
    <3>3. S = ToSync \/ S \in ToFollow
      BY <1>4, <3>1, <3>2 DEF ToFollow
    <3> QED BY <2>1, <3>1, <3>3 DEF StatusGoesOn
  <2>3. Settling(new)
    BY <1>3, <2>1, <2>2 DEF Settling, PlansForActive
  <2> QED BY <1>4, <2>3, PlanGoesOn DEF new
<1>5. Plan(r, {}, rest) \/ Plan(r, {}, go)
  BY DEF HandleReopen
<1> HIDE DEF go, rest
<1> QED BY <1>4, <1>5

\* Another row is written, as the index allows.
LEMMA IndexKeepsOne ==
  ASSUME IInv, OneActive, NEW x \in TargetIds, NEW t \in Target,
         IndexAllows(x, t.state), target' = [target EXCEPT ![x] = t]
  PROVE  OneActive'
BY DEF IInv, TypeOK, OneActive, Active, IndexAllows

\* What a write of each kind makes of the row.
RowFollows(u, t) ==
  /\ u.kind = "warn"   => t.state = target[u.id].state /\ t.due = target[u.id].due /\ t.warned
  /\ u.kind = "breach" => t.state = "BREACHED"
  /\ u.kind = "pause"  => t.state = "PAUSED"
  /\ u.kind = "resume" => t.state = "RUNNING"
  /\ u.kind = "meet"   => t.state = "MET"

\* A call writes: its other updates are for other rows, which stay.
LEMMA WriteGoesOn ==
  ASSUME IInv, SettleInv, NEW r \in Requests, NEW u \in request[r].updates, NEW t \in Target,
         RowFollows(u, t), Write(r, u, t)
  PROVE  SettleInv'
<1> DEFINE c == request[r]
<1>0. PICK d \in Request : d = [c EXCEPT !.updates = c.updates \ {u}]
  BY FewerUpdates DEF IInv, TypeOK
<1>1. u \in Update /\ u.id \in TargetIds /\ u.kind \in {"warn", "breach", "pause", "resume", "meet"}
  BY DEF IInv, TypeOK, Request, Update
<1>2. target' = [target EXCEPT ![u.id] = t] /\ UNCHANGED status
  BY DEF Write
<1>3. OneActive'
  BY <1>1, <1>2, IndexKeepsOne DEF SettleInv, Write
<1>4. PICK base \in [Requests -> Request] :
        /\ base = Interfere(r)
        /\ \A q \in Requests : /\ base[q] \in Heard(q)
                               /\ q = r => base[q] = request[q]
                               /\ q # r /\ base[q].lone => request[q].call = "none"
  BY Interfered DEF IInv
<1>5. request' = [base EXCEPT ![r].updates = @ \ {u}]
  BY <1>4 DEF Write
<1>6. /\ request'[r] = d
      /\ \A q \in Requests : q # r => request'[q] = base[q]
  BY <1>0, <1>4, <1>5
<1>7. /\ d.call = c.call /\ d.lone = c.lone /\ d.status = c.status /\ d.now = c.now
      /\ d.updates = c.updates \ {u} /\ d.stages = c.stages
  BY <1>0 DEF IInv, TypeOK, Request
<1>8. Settling(c)
  BY DEF SettleInv
<1>9. ASSUME c.lone
      PROVE  Settling(d)'
  <2>1. /\ \A v \in c.updates : v.id = u.id => v = u
        /\ \A v \in c.updates : Active(v.id) /\ v.id \in TargetIds
        /\ u \in c.updates
    BY <1>8, <1>9 DEF IInv, PlanFits, FitsRows, Settling, PlansForActive, TypeOK, Request, Update
  <2> HIDE DEF c
  <2>2. /\ target'[u.id] = t
        /\ \A x \in TargetIds : x # u.id => target'[x] = target[x]
    BY <1>1, <1>2 DEF IInv, TypeOK
  <2>3. PlansForActive(d)'
    BY <1>7, <2>1, <2>2 DEF PlansForActive, Active
  <2>4. ASSUME NEW x \in TargetIds, x # u.id, NEW kinds, WillUpdate(c, x, kinds)
        PROVE  WillUpdate(d, x, kinds)
    BY <1>7, <2>4 DEF WillUpdate
  <2>5. ASSUME NEW kinds, WillUpdate(c, u.id, kinds)
        PROVE  u.kind \in kinds
    BY <2>1, <2>5 DEF WillUpdate
  <2>6. ASSUME Evaluated(c)
        PROVE  Evaluated(d)'
    <3>1. \A v \in d.updates : v.kind \in {"warn", "breach"}
      BY <1>7, <2>6 DEF Evaluated
    <3>2. ASSUME NEW x \in TargetIds, target'[x].state = "RUNNING"
          PROVE  /\ Overdue(target'[x], d.now) => WillUpdate(d, x, {"breach"})
                 /\ DueForWarning(target'[x], d.now, x[1]) => WillUpdate(d, x, {"warn"})
      <4>1. CASE x # u.id
        <5>1. target'[x] = target[x]
          BY <2>2, <4>1
        <5>2. /\ Overdue(target[x], c.now) => WillUpdate(c, x, {"breach"})
              /\ DueForWarning(target[x], c.now, x[1]) => WillUpdate(c, x, {"warn"})
          BY <2>6, <3>2, <5>1 DEF Evaluated
        <5> QED BY <1>7, <2>4, <4>1, <5>1, <5>2
      <4>2. CASE x = u.id
        <5>1. u.kind = "warn"
          BY <2>1, <2>2, <2>6, <3>2, <4>2 DEF Evaluated, RowFollows
        <5>2. target[x].state = "RUNNING" /\ t.due = target[x].due /\ t.warned /\ target'[x] = t
          BY <2>2, <3>2, <4>2, <5>1 DEF RowFollows
        <5>3. ~Overdue(target[x], c.now)
          BY <2>5, <2>6, <4>2, <5>1, <5>2 DEF Evaluated
        <5> QED BY <1>7, <5>2, <5>3 DEF Overdue, DueForWarning
      <4> QED BY <4>1, <4>2
    <3> QED BY <3>1, <3>2 DEF Evaluated, WillUpdate
  <2>7. ASSUME Synced(c)
        PROVE  Synced(d)'
    <3>1. \A v \in d.updates : /\ v.kind = "pause" => d.status \in PauseOn
                               /\ v.kind = "resume" => d.status \notin PauseOn
      BY <1>7, <2>7 DEF Synced
    <3>2. ASSUME NEW x \in TargetIds, target'[x].state \in ActiveStates,
                 ~(target'[x].state = "PAUSED" <=> d.status \in PauseOn)
          PROVE  WillUpdate(d, x, {"pause", "resume"})
      <4>1. CASE x # u.id
        <5>1. target'[x] = target[x]
          BY <2>2, <4>1
        <5>2. WillUpdate(c, x, {"pause", "resume"})
          BY <1>7, <2>7, <3>2, <5>1 DEF Synced, Active
        <5> QED BY <2>4, <4>1, <5>2
      <4>2. CASE x = u.id
        <5>1. target'[x] = t /\ Active(x)
          BY <2>1, <2>2, <4>2
        <5>2. u.kind \notin {"breach", "meet", "pause", "resume"}
          BY <1>7, <2>1, <2>7, <3>2, <5>1 DEF RowFollows, Synced, ActiveStates
        <5>3. u.kind = "warn" /\ target'[x].state = target[x].state
          BY <1>1, <4>2, <5>1, <5>2 DEF RowFollows
        <5>4. WillUpdate(c, x, {"pause", "resume"})
          BY <1>7, <2>7, <3>2, <5>1, <5>3 DEF Synced
        <5> QED BY <2>5, <4>2, <5>3, <5>4
      <4> QED BY <4>1, <4>2
    <3> QED BY <3>1, <3>2 DEF Synced, WillUpdate, Active
  <2>8. ASSUME NEW type, WillMeet(c, type)
        PROVE  WillMeet(d, type)'
    <3>1. ASSUME NEW x \in TargetIds, x[1] = type, target'[x].state \in ActiveStates
          PROVE  WillUpdate(d, x, {"meet"})
      <4>1. CASE x # u.id
        <5>1. target'[x] = target[x]
          BY <2>2, <4>1
        <5>2. WillUpdate(c, x, {"meet"})
          BY <2>8, <3>1, <5>1 DEF WillMeet, Active
        <5> QED BY <2>4, <4>1, <5>2
      <4>2. CASE x = u.id
        <5>1. Active(x)
          BY <2>1, <4>2
        <5>2. u.kind = "meet"
          BY <2>5, <2>8, <3>1, <4>2, <5>1 DEF WillMeet
        <5> QED BY <2>2, <3>1, <4>2, <5>2 DEF RowFollows, ActiveStates
      <4> QED BY <4>1, <4>2
    <3> QED BY <3>1 DEF WillMeet, WillUpdate, Active
  <2>9. ASSUME NEW type, NoneActive(type)
        PROVE  NoneActive(type)'
    <3>1. u.id[1] # type
      BY <1>1, <2>1, <2>9 DEF NoneActive
    <3> QED BY <2>2, <2>9, <3>1 DEF NoneActive, Active
  <2>10. c.call = "read" => ReadGoesOn(d)'
    BY <1>7, <1>8, <1>9, <2>6 DEF Settling, ReadGoesOn
  <2>11. c.call = "comment" => CommentGoesOn(d)'
    BY <1>7, <1>8, <1>9, <2>6, <2>8, <2>9 DEF Settling, CommentGoesOn
  <2>12. c.call = "status" => StatusGoesOn(d)'
    BY <1>2, <1>7, <1>8, <1>9, <2>6, <2>7, <2>8, <2>9 DEF Settling, StatusGoesOn
  <2> QED BY <1>7, <2>3, <2>10, <2>11, <2>12 DEF Settling
<1>10. ASSUME NEW q \in Requests
       PROVE  Settling(request[q])'
  <2>1. CASE q = r /\ c.lone
    <3>1. Settling(d)'
      BY <1>9, <2>1
    <3> QED BY <1>6, <2>1, <3>1
  <2>2. CASE q = r /\ ~c.lone
    <3>1. ~request'[q].lone
      BY <1>6, <1>7, <2>2
    <3> QED BY <3>1 DEF Settling
  <2>3. CASE q # r
    <3>1. request'[q] = base[q]
      BY <1>6, <2>3
    <3> QED BY <1>4, <2>3, <3>1, HeardSettles
  <2> QED BY <2>1, <2>2, <2>3
<1> QED BY <1>3, <1>10 DEF SettleInv

LEMMA WritesGoOn ==
  ASSUME IInv, SettleInv, NEW r \in Requests, NEW u \in request[r].updates,
         \/ WarnTarget(r, u) \/ BreachTarget(r, u) \/ PauseTarget(r, u)
         \/ ResumeTarget(r, u) \/ MeetTarget(r, u)
  PROVE  SettleInv'
<1> DEFINE old == target[u.id]
           n == request[r].now
<1>1. u.id \in TargetIds /\ u.due \in Nat /\ n \in Nat /\ old \in Target
  BY DEF IInv, TypeOK, Request, Update
<1>2. PICK t \in Target : RowFollows(u, t) /\ Write(r, u, t)
  <2> HIDE DEF old, n
  <2>1. CASE WarnTarget(r, u)
    <3> DEFINE t == [old EXCEPT !.warned = TRUE]
    <3>1. t \in Target /\ t.state = old.state /\ t.due = old.due /\ t.warned
      BY <1>1 DEF Target
    <3>2. u.kind = "warn" /\ Write(r, u, t)
      BY <2>1 DEF WarnTarget, old
    <3> HIDE DEF t
    <3> QED BY <3>1, <3>2 DEF RowFollows, old
  <2>2. CASE BreachTarget(r, u)
    <3> DEFINE t == [old EXCEPT !.state = "BREACHED"]
    <3>1. t \in Target /\ t.state = "BREACHED"
      BY <1>1 DEF Target
    <3>2. u.kind = "breach" /\ Write(r, u, t)
      BY <2>2 DEF BreachTarget, old
    <3> HIDE DEF t
    <3> QED BY <3>1, <3>2 DEF RowFollows
  <2>3. CASE PauseTarget(r, u)
    <3> DEFINE t == [old EXCEPT !.state = "PAUSED", !.paused = n]
    <3>1. t \in Target /\ t.state = "PAUSED"
      BY <1>1 DEF Target
    <3>2. u.kind = "pause" /\ Write(r, u, t)
      BY <2>3 DEF PauseTarget, old, n
    <3> HIDE DEF t
    <3> QED BY <3>1, <3>2 DEF RowFollows
  <2>4. CASE ResumeTarget(r, u)
    <3> DEFINE t == Resumed(old, u.due)
    <3>1. t \in Target /\ t.state = "RUNNING"
      BY <1>1 DEF Target, Resumed
    <3>2. u.kind = "resume" /\ Write(r, u, t)
      BY <2>4 DEF ResumeTarget, old
    <3> HIDE DEF t
    <3> QED BY <3>1, <3>2 DEF RowFollows
  <2>5. CASE MeetTarget(r, u)
    <3> DEFINE t == Met(old, n)
    <3>1. t \in Target /\ t.state = "MET"
      BY <1>1 DEF Target, Met
    <3>2. u.kind = "meet" /\ Write(r, u, t)
      BY <2>5 DEF MeetTarget, old, n
    <3> HIDE DEF t
    <3> QED BY <3>1, <3>2 DEF RowFollows
  <2> QED BY <2>1, <2>2, <2>3, <2>4, <2>5
<1> QED BY <1>2, WriteGoesOn

\* A call changes, one that goes on however the rows are; the rest heard of it.
LEMMA CallChanges ==
  ASSUME IInv, OneActive', NEW r \in Requests, NEW base \in [Requests -> Request],
         \A q \in Requests : /\ base[q] \in Heard(q)
                             /\ q # r /\ base[q].lone => request[q].call = "none",
         NEW new \in Request, request' = [base EXCEPT ![r] = new], Settling(new)'
  PROVE  SettleInv'
<1>1. ASSUME NEW q \in Requests
      PROVE  Settling(request[q])'
  <2>1. CASE q = r
    <3>1. request'[q] = new
      BY <2>1
    <3> QED BY <3>1
  <2>2. CASE q # r
    <3>1. request'[q] = base[q]
      BY <2>2
    <3> QED BY <2>2, <3>1, HeardSettles
  <2> QED BY <2>1, <2>2
<1> QED BY <1>1 DEF SettleInv

\* The list of a status call, and the others, when they begin.
LEMMA BeginGoesOn ==
  ASSUME IInv, SettleInv, NEW r \in Requests,
         \/ \E to \in TicketStatus : ChangeStatus(r, to)
         \/ Comment(r)
         \/ ReadSla(r)
  PROVE  SettleInv'
<1>0. TypeOK /\ clock \in Nat
  BY DEF IInv, TypeOK
<1>1. CASE \E to \in TicketStatus : ChangeStatus(r, to)
  <2>1. PICK to \in TicketStatus : ChangeStatus(r, to)
    BY <1>1
  <2> DEFINE S == StatusStages(status, to)
             b == Begin("status", S)
  <2>2. b \in Request
    BY <1>0, StatusStagesTyped, BeginTyped
  <2>3. PICK new \in Request : new = [b EXCEPT !.status = to]
    BY <2>2 DEF Request
  <2>4. request' = [Interfere(r) EXCEPT ![r] = new] /\ status' = to /\ UNCHANGED target
    BY <2>1, <2>3 DEF ChangeStatus
  <2>5. /\ new.call = "status" /\ new.status = to /\ new.stages = S /\ new.updates = {}
    <3> HIDE DEF S
    <3> QED BY <2>3 DEF Begin, NoRequest
  <2>6. S \in IF to = "SOLVED" THEN ToSolve ELSE ToFollow
    BY StatusStagesAre
  <2> HIDE DEF S
  <2>7. PICK list : list = S
    OBVIOUS
  <2>8. Settling(new)'
    BY <2>4, <2>5, <2>6, <2>7 DEF Settling, PlansForActive, StatusGoesOn
  <2>9. /\ Interfere(r) \in [Requests -> Request]
        /\ \A q \in Requests : /\ Interfere(r)[q] \in Heard(q)
                               /\ q # r /\ Interfere(r)[q].lone => request[q].call = "none"
    BY <1>0, Interfered
  <2>10. OneActive'
    BY <2>4, OneActiveStays
  <2> QED BY <2>4, <2>8, <2>9, <2>10, CallChanges
<1>2. ASSUME NEW new \in Request, request' = [request EXCEPT ![r] = new],
             UNCHANGED <<target, status>>, Settling(new)
      PROVE  SettleInv'
  <2>1. ASSUME NEW q \in Requests
        PROVE  request'[q] \in Heard(q) \/ Settling(request'[q])
    <3>1. request \in [Requests -> Request]
      BY <1>0 DEF TypeOK
    <3> QED BY <1>2, <3>1 DEF Heard
  <2> QED BY <1>2, <2>1, CallsGoOn
<1>3. CASE Comment(r)
  <2> DEFINE S == << <<"complete", "RESPONSE">>, <<"evaluate", "all">> >>
  <2>1. S \in Seq(Stages)
    BY NamedStages, TypesAre, TwoStages
  <2>2. S = AndEvaluate("complete", "RESPONSE")
    BY DEF AndEvaluate
  <2> DEFINE new == Begin("comment", S)
  <2>3. request' = [request EXCEPT ![r] = new] /\ UNCHANGED <<target, status>>
    BY <1>3 DEF Comment
  <2> HIDE DEF S
  <2>4. new \in Request /\ new.call = "comment" /\ new.updates = {} /\ new.stages = S
    BY <1>0, <2>1, BeginTyped DEF Begin, NoRequest
  <2> HIDE DEF new
  <2>5. Settling(new)
    BY <2>2, <2>4 DEF Settling, PlansForActive, CommentGoesOn
  <2> QED BY <1>2, <2>3, <2>4, <2>5
<1>4. CASE ReadSla(r)
  <2> DEFINE S == << <<"evaluate", "all">> >>
  <2>1. S \in Seq(Stages)
    BY NamedStages, OneStage
  <2>2. S = ToEvaluate
    BY DEF ToEvaluate
  <2> DEFINE new == Begin("read", S)
  <2>3. request' = [request EXCEPT ![r] = new] /\ UNCHANGED <<target, status>>
    BY <1>4 DEF ReadSla
  <2> HIDE DEF S
  <2>4. new \in Request /\ new.call = "read" /\ new.updates = {} /\ new.stages = S
    BY <1>0, <2>1, BeginTyped DEF Begin, NoRequest
  <2> HIDE DEF new
  <2>5. Settling(new)
    BY <2>2, <2>4 DEF Settling, PlansForActive, ReadGoesOn
  <2> QED BY <1>2, <2>3, <2>4, <2>5
<1> QED BY <1>1, <1>3, <1>4

LEMMA ReadClockGoesOn ==
  ASSUME IInv, SettleInv, NEW r \in Requests, ReadClock(r)
  PROVE  SettleInv'
<1> DEFINE c == request[r]
           S == Tail(c.stages)
           new == [c EXCEPT !.now = clock, !.stages = S]
<1>1. Settling(c) /\ c.updates = {} /\ c.stages # <<>> /\ Head(c.stages)[1] = "clock"
  BY DEF ReadClock, At, SettleInv
<1>2. request' = [request EXCEPT ![r] = new] /\ UNCHANGED <<target, status>>
  BY DEF ReadClock, IInv, TypeOK, Request
<1>3. /\ new.call = c.call /\ new.lone = c.lone /\ new.status = c.status
      /\ new.updates = {} /\ new.stages = S
  <2> HIDE DEF S
  <2> QED BY <1>1 DEF IInv, TypeOK, Request
<1> HIDE DEF new
<1>4. ASSUME c.lone
      PROVE  /\ c.call \notin {"read", "comment"}
             /\ c.call = "status" => StatusGoesOn(new)
  <2> DEFINE n == Head(c.stages)[1]
             type == Head(c.stages)[2]
  <2> HIDE DEF c
  <2>1. /\ c.call \notin {"read", "comment"}
        /\ c.call = "status" =>
             status = c.status /\ S \in IF c.status = "SOLVED" THEN ToSolve ELSE ToFollow
    BY <1>1, <1>4, AtStage
  <2> QED BY <1>3, <2>1 DEF StatusGoesOn
<1>5. Settling(new)
  BY <1>3, <1>4 DEF Settling, PlansForActive
<1>6. ASSUME NEW q \in Requests
      PROVE  request'[q] \in Heard(q) \/ Settling(request'[q])
  <2>1. request \in [Requests -> Request]
    BY DEF IInv, TypeOK
  <2> QED BY <1>2, <1>5, <2>1 DEF Heard
<1> QED BY <1>2, <1>6, CallsGoOn

LEMMA StartGoesOn ==
  ASSUME IInv, SettleInv, NEW r \in Requests, StartTarget(r)
  PROVE  SettleInv'
<1> DEFINE c == request[r]
           S == Tail(c.stages)
<1>0. TypeOK /\ c \in Request
  BY DEF IInv, TypeOK
<1>1. Settling(c) /\ c.updates = {} /\ c.stages # <<>> /\ Head(c.stages)[1] = "start"
  BY DEF StartTarget, At, SettleInv
<1>2. PICK x \in TargetIds :
        /\ IndexAllows(x, "RUNNING")
        /\ target' = [target EXCEPT ![x] = [NoTarget EXCEPT
                        !.state = "RUNNING", !.due = c.now + Minutes[x[1]]]]
  BY DEF StartTarget
<1>3. OneActive'
  <2> DEFINE due == c.now + Minutes[x[1]]
  <2>1. due \in Nat
    BY <1>0, SlaConstants DEF TargetIds, Request
  <2> HIDE DEF due
  <2> DEFINE t == [NoTarget EXCEPT !.state = "RUNNING", !.due = due]
  <2>2. t \in Target /\ t.state = "RUNNING"
    BY <2>1 DEF NoTarget, Target
  <2>3. target' = [target EXCEPT ![x] = t]
    BY <1>2 DEF due
  <2> HIDE DEF t
  <2> QED BY <1>2, <2>2, <2>3, IndexKeepsOne DEF SettleInv
<1>4. S \in Seq(Stages)
  BY <1>0, <1>1, RestTyped
<1>5. PICK new \in Request : new = [c EXCEPT !.stages = S]
  <2> HIDE DEF S
  <2> QED BY <1>0, <1>4 DEF Request
<1>6. /\ new.call = c.call /\ new.lone = c.lone /\ new.status = c.status
      /\ new.updates = {} /\ new.stages = S
  <2> HIDE DEF S
  <2> QED BY <1>0, <1>1, <1>5 DEF Request
<1>7. ASSUME c.lone
      PROVE  /\ c.call \notin {"read", "comment"}
             /\ c.call = "status" => status = c.status /\ S = ToSync /\ c.status # "SOLVED"
  <2> DEFINE n == Head(c.stages)[1]
             type == Head(c.stages)[2]
  <2> HIDE DEF c
  <2> QED BY <1>1, <1>7, AtStage
<1>8. Settling(new)'
  <2>1. UNCHANGED status
    BY DEF StartTarget
  <2>2. ASSUME new.lone
        PROVE  /\ new.call \notin {"read", "comment"}
               /\ new.call = "status" =>
                    status' = new.status /\ new.stages = ToSync /\ new.status # "SOLVED"
    <3> HIDE DEF S, c
    <3> QED BY <1>6, <1>7, <2>1, <2>2
  <2> QED BY <1>6, <2>2 DEF Settling, PlansForActive, StatusGoesOn
<1>9. PICK base \in [Requests -> Request] :
        /\ base = Interfere(r)
        /\ \A q \in Requests : /\ base[q] \in Heard(q)
                               /\ q = r => base[q] = request[q]
                               /\ q # r /\ base[q].lone => request[q].call = "none"
  BY <1>0, Interfered
<1>10. request' = [base EXCEPT ![r] = new]
  <2>1. request' = [base EXCEPT ![r].stages = Tail(@)]
    BY <1>9 DEF StartTarget
  <2> QED BY <1>5, <1>9, <2>1
<1> QED BY <1>3, <1>8, <1>9, <1>10, CallChanges

LEMMA EndGoesOn ==
  ASSUME IInv, SettleInv, NEW r \in Requests, Return(r) \/ Refused(r) \/ Fail(r)
  PROVE  SettleInv'
<1>1. request' = [request EXCEPT ![r] = NoRequest] /\ UNCHANGED <<target, status>>
  BY DEF Return, Refused, Fail
<1>2. Settling(NoRequest)
  BY NothingPlanned DEF NoRequest
<1>3. ASSUME NEW q \in Requests
      PROVE  request'[q] \in Heard(q) \/ Settling(request'[q])
  <2>1. request \in [Requests -> Request]
    BY DEF IInv, TypeOK
  <2> QED BY <1>1, <1>2, <2>1 DEF Heard
<1> QED BY <1>1, <1>3, CallsGoOn

LEMMA OthersGoOn ==
  ASSUME IInv, SettleInv,
         \/ \E j \in Executors : Workflow(j)
         \/ \E to \in AutomationTargets : JobChangeStatus(to)
         \/ Tick
         \/ UNCHANGED vars
  PROVE  SettleInv'
<1>0. TypeOK
  BY DEF IInv
<1>1. CASE UNCHANGED <<target, status, request>>
  <2>1. ASSUME NEW q \in Requests
        PROVE  request'[q] \in Heard(q) \/ Settling(request'[q])
    BY <1>1 DEF Heard
  <2> QED BY <1>1, <2>1, CallsGoOn
<1>2. ASSUME request' = InterfereAll, OneActive'
      PROVE  SettleInv'
  <2>1. ASSUME NEW q \in Requests
        PROVE  Settling(request[q])'
    BY <1>0, <1>2, AllInterfered, HeardSettles
  <2> QED BY <1>2, <2>1 DEF SettleInv
<1>3. ASSUME NEW j \in Executors, JobWrite(j)
      PROVE  SettleInv'
  <2> DEFINE x == job[j].id
             t == IF job[j].pc = "stop" THEN Met(target[x], clock) ELSE Restarted(target[x])
  <2>1. x \in TargetIds /\ target[x] \in Target /\ clock \in Nat
    BY <1>0 DEF Job, TypeOK
  <2>2. t \in Target
    BY <2>1 DEF Met, Restarted, Target
  <2>3. IndexAllows(x, t.state) /\ target' = [target EXCEPT ![x] = t] /\ request' = InterfereAll
    BY <1>3 DEF JobWrite
  <2> HIDE DEF x, t
  <2> QED BY <1>2, <2>1, <2>2, <2>3, IndexKeepsOne DEF SettleInv
<1>4. ASSUME NEW to \in AutomationTargets, JobChangeStatus(to)
      PROVE  SettleInv'
  <2>1. request' = InterfereAll /\ UNCHANGED target
    BY <1>4 DEF JobChangeStatus
  <2> QED BY <1>2, <2>1, OneActiveStays
<1>5. ASSUME NEW j \in Executors, JobRead(j, "start") \/ JobRead(j, "stop") \/ JobAbort(j)
      PROVE  UNCHANGED <<target, status, request>>
  BY <1>5 DEF JobRead, JobAbort
<1>6. Tick \/ UNCHANGED vars => UNCHANGED <<target, status, request>>
  BY DEF Tick, vars
<1> QED BY <1>1, <1>3, <1>4, <1>5, <1>6 DEF Workflow

LEMMA SettleInitHolds == Init => SettleInv
<1> SUFFICES ASSUME Init
             PROVE  SettleInv
  OBVIOUS
<1>1. OneActive
  BY DEF Init, OneActive, Active, ActiveStates, NoTarget
<1>2. ASSUME NEW q \in Requests
      PROVE  request[q].updates = {} /\ request[q].call \in {"none", "created"}
  BY DEF Init, NoRequest
<1> QED BY <1>1, <1>2 DEF SettleInv, Settling, PlansForActive

LEMMA SettleStepHolds == IInv /\ SettleInv /\ [Next]_vars => SettleInv'
<1> SUFFICES ASSUME IInv, SettleInv, [Next]_vars
             PROVE  SettleInv'
  OBVIOUS
<1>1. ASSUME NEW r \in Requests, Call(r)
      PROVE  SettleInv'
  BY <1>1, BeginGoesOn, ReadClockGoesOn, EvaluateGoesOn, SyncGoesOn, CompleteGoesOn,
     ReadCurrentGoesOn, ReopenGoesOn, StartGoesOn, WritesGoOn, EndGoesOn DEF Call
<1> QED BY <1>1, OthersGoOn DEF Next

\* The invariant: what is left of a call that is alone, and what it has planned,
\* lead from the rows as they are to the rows it owes.
THEOREM SettlingHolds == Spec => [](IInv /\ SettleInv)
<1>1. IInv /\ SettleInv /\ [Next]_vars => (IInv /\ SettleInv)'
  BY StepHolds, SettleStepHolds
<1> QED BY <1>1, InitHolds, SettleInitHolds, PTL DEF Spec

\* Repair: whatever races, failures and executors left behind, a call nobody
\* interferes with leaves the targets as the ticket and the clock demand.
THEOREM LoneCallsSettle == Spec => []LoneCallSettles
<1>1. IInv /\ SettleInv => LoneCallSettles
  <2> SUFFICES ASSUME IInv, SettleInv, NEW r \in Requests, Done(r), request[r].lone
               PROVE  LET n == request[r].now
                      IN  /\ request[r].call # "created" =>
                               \A x \in TargetIds : target[x].state = "RUNNING" =>
                                 ~Overdue(target[x], n) /\ ~DueForWarning(target[x], n, x[1])
                          /\ request[r].call = "status" =>
                               /\ \A x \in TargetIds :
                                    Active(x) => (target[x].state = "PAUSED" <=> status \in PauseOn)
                               /\ status = "SOLVED" => NoneActive("RESOLUTION")
                          /\ request[r].call = "comment" => NoneActive("RESPONSE")
    BY DEF LoneCallSettles
  <2> DEFINE c == request[r]
  <2>1. Settling(c) /\ c.lone /\ c.updates = {} /\ c.stages = <<>>
    BY DEF SettleInv, Done
  <2>2. c.call \in {"created", "status", "comment", "read"}
    BY DEF Done, IInv, TypeOK, Request
  <2> HIDE DEF c
  <2>3. /\ c.stages # ToEvaluate /\ c.stages # ToSync
        /\ c.stages # AndEvaluate("complete", "RESPONSE")
        /\ c.stages # AndEvaluate("meet", "RESPONSE")
        /\ c.stages \notin ToSolve /\ c.stages \notin ToFollow
    BY <2>1 DEF ToEvaluate, ToSync, AndEvaluate, AndSync, EvaluateAnd, ClockAnd, ClockAndSync,
                ToSolve, ToFollow
  <2>4. c.call # "created" => Evaluated(c)
    BY <2>1, <2>2, <2>3 DEF Settling, ReadGoesOn, CommentGoesOn, StatusGoesOn
  <2>5. c.call = "status" => /\ status = c.status /\ Synced(c)
                             /\ c.status = "SOLVED" => NoneActive("RESOLUTION")
    BY <2>1, <2>3 DEF Settling, StatusGoesOn
  <2>6. c.call = "comment" => NoneActive("RESPONSE")
    BY <2>1, <2>3 DEF Settling, CommentGoesOn
  <2>7. Evaluated(c) => \A x \in TargetIds : target[x].state = "RUNNING" =>
                          ~Overdue(target[x], c.now) /\ ~DueForWarning(target[x], c.now, x[1])
    BY <2>1 DEF Evaluated, WillUpdate
  <2>8. Synced(c) => \A x \in TargetIds :
                       Active(x) => (target[x].state = "PAUSED" <=> c.status \in PauseOn)
    BY <2>1 DEF Synced, WillUpdate
  <2> QED BY <2>4, <2>5, <2>6, <2>7, <2>8 DEF c
<1> QED BY <1>1, SettlingHolds, PTL

-----------------------------------------------------------------------------
(* A person's notifications: the invariant                                 *)

\* What a device shows of notification n, saw, is not ahead of the row, and is the row if
\* the versions are the same; nothing is marked that was not there.
NoticeSeen(n, saw) ==
  /\ n \in Notices
  /\ saw.version \in 1..notice[n].version
  /\ saw.version = notice[n].version => saw = notice[n]

\* The same of a preference, once it has a row.
PreferenceSeen(e, seen) ==
  seen.version > 1 =>
    /\ seen.version <= preference[e].version
    /\ seen.version = preference[e].version => seen = preference[e]

\* What the call q has looked up and relies on when it writes.
InboxCallFits(q) ==
  /\ q.pc = "idle" => q.op = "none"
  /\ q.op = "notify" => q.pc = "ready" /\ (~preference[q.event].enabled => q.late)
  /\ q.op = "mark" /\ q.pc = "ready" => NoticeSeen(q.notice, q.saw)
  /\ q.op = "mark" => q.notice \in Notices /\ (q.saw.unwanted => q.saw.late)
  /\ q.op = "prefer" => \A e \in q.wants \ clashed : PreferenceSeen(e, q.view[e])
  /\ q.op = "prefer" /\ q.pc = "read" => /\ q.event \notin q.wants
                                         /\ q.on \/ ~IsMandatory(q.event)

InboxInv ==
  /\ InboxTypeOK
  /\ NoticesAreWanted /\ MandatoryStaysOn
  /\ \A c \in InboxCalls : InboxCallFits(inboxCall[c])

LEMMA InboxTyped ==
  /\ NoRowYet \in Notice /\ Default \in Preference /\ NoInboxCall \in InboxCall
  /\ NoRowYet.version = 0 /\ ~NoRowYet.unwanted
  /\ NoInboxCall.op = "none" /\ NoInboxCall.pc = "idle"
  /\ InboxCallFits(NoInboxCall) /\ InboxCallFits(NoInboxCall)'
<1>1. NoRowYet \in Notice /\ Default \in Preference
  BY DEF NoRowYet, Notice, Default, Preference
<1>2. NoRowYet.version = 0 /\ ~NoRowYet.unwanted
  BY DEF NoRowYet
<1>3. (CHOOSE e \in Events : TRUE) \in Events
  BY InboxConstants
<1>4. [e \in Events |-> Default] \in [Events -> Preference]
  BY <1>1
<1>5. NoInboxCall \in InboxCall
  BY <1>1, <1>3, <1>4 DEF NoInboxCall, InboxCall
<1>6. NoInboxCall.op = "none" /\ NoInboxCall.pc = "idle"
  BY DEF NoInboxCall
<1>7. InboxCallFits(NoInboxCall) /\ InboxCallFits(NoInboxCall)'
  BY <1>6 DEF InboxCallFits
<1> QED BY <1>1, <1>2, <1>5, <1>6, <1>7

\* A call goes on or ends, and no row is written.
LEMMA InboxGoesOn ==
  ASSUME InboxInv, NEW c \in InboxCalls, NEW q \in InboxCall, InboxCallFits(q),
         inboxCall' = [inboxCall EXCEPT ![c] = q], UNCHANGED <<notice, preference, clashed>>
  PROVE  InboxInv'
<1>1. InboxTypeOK'
  BY DEF InboxInv, InboxTypeOK
<1>2. \A d \in InboxCalls : inboxCall'[d] = IF d = c THEN q ELSE inboxCall[d]
  BY DEF InboxInv, InboxTypeOK
<1>3. NoticesAreWanted' /\ MandatoryStaysOn'
  BY DEF InboxInv, NoticesAreWanted, MandatoryStaysOn
<1>4. ASSUME NEW d \in InboxCalls PROVE InboxCallFits(inboxCall[d])'
  <2>1. PICK w \in InboxCall : w = inboxCall'[d] /\ InboxCallFits(w)
    BY <1>2 DEF InboxInv, InboxTypeOK
  <2>2. InboxCallFits(w)'
    BY <2>1 DEF InboxCallFits, NoticeSeen, PreferenceSeen
  <2> QED BY <2>1, <2>2 DEF InboxCallFits, NoticeSeen, PreferenceSeen
<1> QED BY <1>1, <1>3, <1>4 DEF InboxInv

LEMMA NotifyReadStep ==
  ASSUME InboxInv, NEW c \in InboxCalls, NEW e \in Events, NEW forced \in BOOLEAN,
         NotifyRead(c, e, forced)
  PROVE  InboxInv'
<1>1. PICK b \in BOOLEAN : b <=> ~preference[e].enabled
  OBVIOUS
<1>2. preference[e].enabled \in BOOLEAN
  BY DEF InboxInv, InboxTypeOK, Preference
<1>3. PICK q \in InboxCall : q = [NoInboxCall EXCEPT !.op = "notify", !.pc = "ready", !.event = e,
                                                    !.late = ~preference[e].enabled]
  BY <1>2, InboxTyped DEF InboxCall
<1>4. q.op = "notify" /\ q.pc = "ready" /\ q.event = e /\ q.late = ~preference[e].enabled
  BY <1>3, InboxTyped DEF InboxCall
<1>5. InboxCallFits(q)
  BY <1>4 DEF InboxCallFits
<1>6. inboxCall' = [inboxCall EXCEPT ![c] = q] /\ UNCHANGED <<notice, preference, clashed>>
  BY <1>3 DEF NotifyRead, Opens
<1> QED BY <1>5, <1>6, InboxGoesOn

LEMMA NotifyFailsStep ==
  ASSUME InboxInv, NEW c \in InboxCalls, NotifyFails(c)
  PROVE  InboxInv'
BY InboxTyped, InboxGoesOn DEF NotifyFails, Closes

\* A row of a notification is written that is one version on; what calls saw of others stays.
LEMMA NoticeWritten ==
  ASSUME InboxInv, NEW c \in InboxCalls, NEW n \in Notices, NEW new \in Notice,
         new.version = notice[n].version + 1, new.unwanted => new.late,
         notice' = [notice EXCEPT ![n] = new],
         inboxCall' = [inboxCall EXCEPT ![c] = NoInboxCall], UNCHANGED <<preference, clashed>>
  PROVE  InboxInv'
<1>1. notice \in [Notices -> Notice] /\ \A m \in Notices : notice[m].version \in Nat
  BY DEF InboxInv, InboxTypeOK, Notice
<1>2. InboxTypeOK'
  BY InboxTyped DEF InboxInv, InboxTypeOK
<1>3. \A m \in Notices : notice'[m] = IF m = n THEN new ELSE notice[m]
  BY <1>1
<1>4. NoticesAreWanted' /\ MandatoryStaysOn'
  BY <1>3 DEF InboxInv, NoticesAreWanted, MandatoryStaysOn
<1>5. ASSUME NEW m \in Notices, NEW saw \in Notice, NoticeSeen(m, saw)
      PROVE  NoticeSeen(m, saw)'
  <2>1. saw.version \in Nat /\ new.version \in Nat
    BY DEF Notice
  <2>2. CASE m = n
    BY <1>1, <1>3, <1>5, <2>1, <2>2 DEF NoticeSeen
  <2>3. CASE m # n
    BY <1>3, <1>5, <2>3 DEF NoticeSeen
  <2> QED BY <2>2, <2>3
<1>6. ASSUME NEW d \in InboxCalls PROVE InboxCallFits(inboxCall[d])'
  <2>1. PICK w \in InboxCall : w = inboxCall'[d] /\ InboxCallFits(w)
    BY InboxTyped DEF InboxInv, InboxTypeOK
  <2>2. w.op = "mark" /\ w.pc = "ready" => NoticeSeen(w.notice, w.saw)'
    <3> SUFFICES ASSUME w.op = "mark" /\ w.pc = "ready"
                 PROVE  NoticeSeen(w.notice, w.saw)'
      OBVIOUS
    <3>1. NoticeSeen(w.notice, w.saw) /\ w.notice \in Notices /\ w.saw \in Notice
      BY <2>1 DEF InboxCallFits, NoticeSeen, InboxCall
    <3> QED BY <1>5, <3>1
  <2>3. InboxCallFits(w)'
    BY <2>1, <2>2 DEF InboxCallFits, PreferenceSeen
  <2> QED BY <2>1, <2>3 DEF InboxCallFits, NoticeSeen, PreferenceSeen
<1> QED BY <1>2, <1>4, <1>6 DEF InboxInv

LEMMA NotifyInsertStep ==
  ASSUME InboxInv, NEW c \in InboxCalls, NEW n \in Notices, NotifyInsert(c, n)
  PROVE  InboxInv'
<1>1. PICK q \in InboxCall : q = inboxCall[c] /\ InboxCallFits(q) /\ q.op = "notify"
  BY DEF InboxInv, InboxTypeOK, NotifyInsert, Has
<1>2. preference[q.event].enabled \in BOOLEAN /\ q.late \in BOOLEAN
  BY DEF InboxInv, InboxTypeOK, InboxCall, Preference
<1>3. PICK new \in Notice : new = [NoRowYet EXCEPT !.version = 1, !.late = q.late,
                                                   !.unwanted = ~preference[q.event].enabled]
  BY <1>2, InboxTyped DEF Notice
<1>4. new.version = 1 /\ new.late = q.late /\ new.unwanted = ~preference[q.event].enabled
  BY <1>3, InboxTyped DEF Notice
<1>5. new.unwanted => new.late
  BY <1>1, <1>4 DEF InboxCallFits
<1>6. /\ notice[n].version = 0 /\ notice' = [notice EXCEPT ![n] = new]
      /\ inboxCall' = [inboxCall EXCEPT ![c] = NoInboxCall] /\ UNCHANGED <<preference, clashed>>
  BY <1>1, <1>3 DEF NotifyInsert, Closes
<1>7. new.version = notice[n].version + 1
  BY <1>4, <1>6
<1> QED BY <1>5, <1>6, <1>7, NoticeWritten

LEMMA ShowNoticeStep ==
  ASSUME InboxInv, NEW c \in InboxCalls, NEW n \in Notices, ShowNotice(c, n)
  PROVE  InboxInv'
<1>1. PICK row \in Notice : row = notice[n]
  BY DEF InboxInv, InboxTypeOK
<1>2. PICK q \in InboxCall : q = [NoInboxCall EXCEPT !.op = "mark", !.pc = "ready", !.notice = n,
                                                    !.saw = row]
  BY InboxTyped DEF InboxCall
<1>3. q.op = "mark" /\ q.pc = "ready" /\ q.notice = n /\ q.saw = row
  BY <1>2, InboxTyped DEF InboxCall
<1>4. row.version > 0 /\ row.version \in Nat
  BY <1>1 DEF ShowNotice, Notice
<1>5. NoticeSeen(n, row) /\ (row.unwanted => row.late)
  BY <1>1, <1>4 DEF NoticeSeen, InboxInv, NoticesAreWanted
<1>6. InboxCallFits(q)
  BY <1>3, <1>5 DEF InboxCallFits
<1>7. inboxCall' = [inboxCall EXCEPT ![c] = q] /\ UNCHANGED <<notice, preference, clashed>>
  BY <1>1, <1>2 DEF ShowNotice, Opens
<1> QED BY <1>6, <1>7, InboxGoesOn

\* What a device makes of a row keeps the history it has.
LEMMA AppliedTyped ==
  ASSUME NEW row \in Notice, NEW read, NEW archived
  PROVE  /\ Applied(row, read, archived) \in Notice
         /\ Applied(row, read, archived).unwanted = row.unwanted
         /\ Applied(row, read, archived).late = row.late
<1> DEFINE marked   == IF read = "keep" THEN row.read ELSE read = "set"
           archives == archived = "set" /\ ~row.archived
<1>1. PICK m \in BOOLEAN : m = (marked \/ archives)
  OBVIOUS
<1>2. PICK a \in BOOLEAN : a = (IF archived = "keep" THEN row.archived ELSE archived = "set")
  BY DEF Notice
<1>3. PICK new \in Notice : new = [row EXCEPT !.read = m, !.archived = a]
  BY DEF Notice
<1>4. new.unwanted = row.unwanted /\ new.late = row.late
  BY <1>3 DEF Notice
<1>5. [new EXCEPT !.version = @ + 1] \in Notice
  BY DEF Notice
<1>6. /\ [new EXCEPT !.version = @ + 1].unwanted = new.unwanted
      /\ [new EXCEPT !.version = @ + 1].late = new.late
  BY DEF Notice
<1>7. Applied(row, read, archived) = IF new = row THEN row ELSE [new EXCEPT !.version = @ + 1]
  <2>1. [row EXCEPT !.read = marked \/ archives,
                    !.archived = IF archived = "keep" THEN @ ELSE archived = "set"] = new
    BY <1>1, <1>2, <1>3
  <2> QED BY <2>1 DEF Applied
<1> QED BY <1>4, <1>5, <1>6, <1>7

LEMMA MarkReadStep ==
  ASSUME InboxInv, NEW c \in InboxCalls, NEW read, NEW archived, MarkRead(c, read, archived)
  PROVE  InboxInv'
<1>1. PICK q \in InboxCall : /\ q = inboxCall[c] /\ InboxCallFits(q)
                             /\ q.op = "mark" /\ q.pc = "ready"
  BY DEF InboxInv, InboxTypeOK, MarkRead, Has
<1>2. PICK row \in Notice : row = notice[q.notice] /\ (row.unwanted => row.late)
  BY <1>1 DEF InboxInv, InboxTypeOK, InboxCallFits, NoticeSeen, NoticesAreWanted
<1>3. PICK new \in Notice : new = Applied(row, read, archived) /\ (new.unwanted => new.late)
  BY <1>2, AppliedTyped
<1>4. UNCHANGED <<notice, preference, clashed>>
  BY DEF MarkRead
<1>5. CASE q.saw.version # row.version \/ new = row
  <2>1. inboxCall' = [inboxCall EXCEPT ![c] = NoInboxCall]
    BY <1>1, <1>2, <1>3, <1>5 DEF MarkRead, Closes
  <2> QED BY <1>4, <2>1, InboxTyped, InboxGoesOn
<1>6. CASE ~(q.saw.version # row.version \/ new = row)
  <2>1. PICK w \in InboxCall : w = [q EXCEPT !.pc = "read", !.saw = new]
    BY DEF InboxCall
  <2>2. w.op = "mark" /\ w.pc = "read" /\ w.saw = new /\ w.notice = q.notice
    BY <1>1, <2>1 DEF InboxCall
  <2>3. InboxCallFits(w)
    BY <1>1, <1>3, <2>2 DEF InboxCallFits
  <2>4. inboxCall' = [inboxCall EXCEPT ![c].pc = "read", ![c].saw = new]
    BY <1>1, <1>2, <1>3, <1>6 DEF MarkRead
  <2>5. inboxCall' = [inboxCall EXCEPT ![c] = w]
    BY <1>1, <2>1, <2>4 DEF InboxInv, InboxTypeOK, InboxCall
  <2> QED BY <1>4, <2>3, <2>5, InboxGoesOn
<1> QED BY <1>5, <1>6

LEMMA MarkWriteStep ==
  ASSUME InboxInv, NEW c \in InboxCalls, MarkWrite(c)
  PROVE  InboxInv'
<1>1. PICK q \in InboxCall : /\ q = inboxCall[c] /\ InboxCallFits(q)
                             /\ q.op = "mark" /\ q.pc = "read"
  BY DEF InboxInv, InboxTypeOK, MarkWrite, Has
<1>2. q.notice \in Notices /\ q.saw \in Notice /\ (q.saw.unwanted => q.saw.late) /\ q.saw.version \in Nat
  BY <1>1 DEF InboxCallFits, InboxCall, Notice
<1>3. inboxCall' = [inboxCall EXCEPT ![c] = NoInboxCall] /\ UNCHANGED <<preference, clashed>>
  BY DEF MarkWrite, Closes
<1>4. CASE notice[q.notice].version + 1 = q.saw.version
  <2>1. notice' = [notice EXCEPT ![q.notice] = q.saw]
    BY <1>1, <1>4 DEF MarkWrite
  <2> QED BY <1>2, <1>3, <1>4, <2>1, NoticeWritten
<1>5. CASE notice[q.notice].version + 1 # q.saw.version
  <2>1. notice' = notice
    BY <1>1, <1>5 DEF MarkWrite
  <2> QED BY <1>3, <2>1, InboxTyped, InboxGoesOn
<1> QED BY <1>4, <1>5

LEMMA ShowPreferencesStep ==
  ASSUME InboxInv, NEW c \in InboxCalls, NEW wants \in SUBSET Events, ShowPreferences(c, wants)
  PROVE  InboxInv'
<1>1. \A e \in Events : ViewOf(preference[e]) \in Preference
                        /\ PreferenceSeen(e, ViewOf(preference[e]))
  <2> SUFFICES ASSUME NEW e \in Events
               PROVE  ViewOf(preference[e]) \in Preference
                      /\ PreferenceSeen(e, ViewOf(preference[e]))
    OBVIOUS
  <2>1. PICK row \in Preference : row = preference[e]
    BY DEF InboxInv, InboxTypeOK
  <2>2. CASE row.version = 0
    <3>1. ViewOf(row) \in Preference /\ ViewOf(row).version = 1
      BY <2>2 DEF ViewOf, Preference
    <3> QED BY <2>1, <3>1 DEF PreferenceSeen
  <2>3. CASE row.version # 0
    BY <2>1, <2>3 DEF ViewOf, PreferenceSeen, Preference
  <2> QED BY <2>2, <2>3
<1>2. PICK view \in [Events -> Preference] : view = [e \in Events |-> ViewOf(preference[e])]
  BY <1>1
<1>3. PICK q \in InboxCall : q = [NoInboxCall EXCEPT !.op = "prefer", !.pc = "ready",
                                                    !.wants = wants, !.view = view]
  BY InboxTyped DEF InboxCall
<1>4. q.op = "prefer" /\ q.pc = "ready" /\ q.wants = wants /\ q.view = view
  BY <1>3, InboxTyped DEF InboxCall
<1>5. \A e \in q.wants : PreferenceSeen(e, q.view[e])
  BY <1>1, <1>2, <1>4
<1>6. InboxCallFits(q)
  BY <1>4, <1>5 DEF InboxCallFits
<1>7. inboxCall' = [inboxCall EXCEPT ![c] = q] /\ UNCHANGED <<notice, preference, clashed>>
  BY <1>2, <1>3 DEF ShowPreferences, Opens
<1> QED BY <1>6, <1>7, InboxGoesOn

LEMMA PreferReadStep ==
  ASSUME InboxInv, NEW c \in InboxCalls, NEW e \in Events, NEW on \in BOOLEAN,
         NEW versioned \in BOOLEAN, PreferRead(c, e, on, versioned)
  PROVE  InboxInv'
<1>1. PICK q \in InboxCall : /\ q = inboxCall[c] /\ InboxCallFits(q)
                             /\ q.op = "prefer" /\ q.pc = "ready"
  BY DEF InboxInv, InboxTypeOK, PreferRead, Has
<1>2. PICK row \in Preference : row = preference[e]
  BY DEF InboxInv, InboxTypeOK
<1>3. UNCHANGED <<notice, preference, clashed>>
  BY DEF PreferRead
<1> DEFINE ends == \/ ~on /\ IsMandatory(e)
                   \/ versioned /\ row.version # 0 /\ row.version # q.view[e].version
<1>4. CASE ends
  <2>1. inboxCall' = [inboxCall EXCEPT ![c] = NoInboxCall]
    BY <1>1, <1>2, <1>4 DEF PreferRead, Closes
  <2> QED BY <1>3, <2>1, InboxTyped, InboxGoesOn
<1>5. CASE ~ends
  <2>1. PICK view \in [Events -> Preference] : view = [q.view EXCEPT ![e] = row]
    BY DEF InboxCall
  <2>2. PICK wants \in SUBSET Events : wants = q.wants \ {e}
    BY DEF InboxCall
  <2>3. PICK w \in InboxCall : w = [NoInboxCall EXCEPT !.op = "prefer", !.pc = "read", !.event = e,
                                      !.on = on, !.wants = wants, !.view = view]
    BY InboxTyped DEF InboxCall
  <2>4. /\ w.op = "prefer" /\ w.pc = "read" /\ w.event = e /\ w.on = on
        /\ w.wants = wants /\ w.view = view
    BY <2>3, InboxTyped DEF InboxCall
  <2>5. \A x \in wants : view[x] = q.view[x]
    BY <2>1, <2>2 DEF InboxCall
  <2>6. InboxCallFits(w)
    BY <1>1, <1>5, <2>2, <2>4, <2>5 DEF InboxCallFits
  <2>7. inboxCall' = [inboxCall EXCEPT ![c] = w]
    BY <1>1, <1>2, <1>5, <2>1, <2>2, <2>3 DEF PreferRead
  <2> QED BY <1>3, <2>6, <2>7, InboxGoesOn
<1> QED BY <1>4, <1>5

\* A preference is written: producers that looked before are late, devices that showed it
\* showed an earlier version, unless two requests wrote it at a time.
LEMMA PreferWriteStep ==
  ASSUME InboxInv, NEW c \in InboxCalls, PreferWrite(c)
  PROVE  InboxInv'
<1>1. PICK q \in InboxCall : /\ q = inboxCall[c] /\ InboxCallFits(q)
                             /\ q.op = "prefer" /\ q.pc = "read"
  BY DEF InboxInv, InboxTypeOK, PreferWrite, Has
<1>2. PICK e \in Events : e = q.event /\ e \notin q.wants /\ (q.on \/ ~IsMandatory(e))
  BY <1>1 DEF InboxCall, InboxCallFits
<1>3. PICK saw \in Preference, now \in Preference : saw = q.view[e] /\ now = preference[e]
  BY DEF InboxInv, InboxTypeOK, InboxCall
<1>4. saw.version \in Nat /\ now.version \in Nat
  BY DEF Preference
<1>5. CASE saw.version = 0 /\ now.version # saw.version
  <2>1. /\ inboxCall' = [inboxCall EXCEPT ![c] = NoInboxCall]
        /\ UNCHANGED <<notice, preference, clashed>>
    BY <1>1, <1>2, <1>3, <1>5 DEF PreferWrite, Closes
  <2> QED BY <2>1, InboxTyped, InboxGoesOn
<1>6. CASE ~(saw.version = 0 /\ now.version # saw.version)
  <2>1. PICK new \in Preference : new = [version |-> saw.version + 1, enabled |-> q.on]
    <3>1. q.on \in BOOLEAN /\ saw.version + 1 \in Nat
      BY <1>4 DEF InboxCall
    <3>2. [version |-> saw.version + 1, enabled |-> q.on] \in Preference
      BY <3>1 DEF Preference
    <3> QED BY <3>2
  <2>2. new.version = saw.version + 1 /\ new.enabled = q.on
    BY <2>1
  <2>3. PICK w \in InboxCall :
          w = IF q.wants = {} THEN NoInboxCall
              ELSE [q EXCEPT !.pc = "ready", !.view[e] = Default, !.on = TRUE,
                             !.event = NoInboxCall.event]
    <3>1. [q EXCEPT !.pc = "ready", !.view[e] = Default, !.on = TRUE,
                    !.event = NoInboxCall.event] \in InboxCall
      <4>1. [q.view EXCEPT ![e] = Default] \in [Events -> Preference]
        BY InboxTyped DEF InboxCall
      <4>2. NoInboxCall.event \in Events
        BY InboxTyped DEF InboxCall
      <4> QED BY <4>1, <4>2 DEF InboxCall
    <3> QED BY <3>1, InboxTyped
  <2>4. w = NoInboxCall \/ /\ w.op = "prefer" /\ w.pc = "ready" /\ w.wants = q.wants
                           /\ \A x \in w.wants : w.view[x] = q.view[x]
    <3>1. CASE q.wants = {}
      BY <2>3, <3>1
    <3>2. CASE q.wants # {}
      <4>1. w.op = "prefer" /\ w.pc = "ready" /\ w.wants = q.wants
        BY <1>1, <2>3, <3>2 DEF InboxCall
      <4>2. w.view = [q.view EXCEPT ![e] = Default]
        BY <2>3, <3>2 DEF InboxCall
      <4>3. \A x \in q.wants : w.view[x] = q.view[x]
        BY <1>2, <4>2 DEF InboxCall
      <4> QED BY <4>1, <4>3
    <3> QED BY <3>1, <3>2
  <2>5. /\ UNCHANGED notice
        /\ preference' = [preference EXCEPT ![e] = new]
        /\ clashed' = IF now.version # saw.version THEN clashed \cup {e} ELSE clashed
        /\ inboxCall' = [d \in InboxCalls |->
             IF d = c THEN w
             ELSE IF Has(d, "notify", "ready") /\ inboxCall[d].event = e
             THEN [inboxCall[d] EXCEPT !.late = TRUE]
             ELSE inboxCall[d]]
    BY <1>1, <1>2, <1>3, <1>6, <2>1, <2>3 DEF PreferWrite
  <2>6. InboxTypeOK'
    <3>1. \A d \in InboxCalls : [inboxCall[d] EXCEPT !.late = TRUE] \in InboxCall
      BY DEF InboxInv, InboxTypeOK, InboxCall
    <3> QED BY <2>5, <3>1 DEF InboxInv, InboxTypeOK
  <2>7. \A x \in Events : preference'[x] = IF x = e THEN new ELSE preference[x]
    BY <2>5 DEF InboxInv, InboxTypeOK
  <2>8. MandatoryStaysOn' /\ NoticesAreWanted'
    <3>1. \A x \in MandatoryEvents : x \in Events /\ IsMandatory(x)
      BY DEF Events, IsMandatory
    <3>2. MandatoryStaysOn'
      BY <1>2, <2>2, <2>7, <3>1 DEF InboxInv, MandatoryStaysOn
    <3> QED BY <2>5, <3>2 DEF InboxInv, NoticesAreWanted
  <2>9. ASSUME NEW x \in Events \ clashed', NEW seen \in Preference, PreferenceSeen(x, seen)
        PROVE  PreferenceSeen(x, seen)'
    <3>1. CASE x = e
      <4>1. now.version = saw.version /\ seen.version \in Nat
        BY <2>5, <2>9, <3>1 DEF Preference
      <4>2. seen.version > 1 => seen.version <= now.version
        BY <1>3, <2>9, <3>1 DEF PreferenceSeen
      <4> QED BY <1>4, <2>2, <2>7, <3>1, <4>1, <4>2 DEF PreferenceSeen
    <3>2. CASE x # e
      BY <2>7, <2>9, <3>2 DEF PreferenceSeen
    <3> QED BY <3>1, <3>2
  <2>10. clashed \subseteq clashed'
    BY <2>5
  <2>11. ASSUME NEW v \in InboxCall, InboxCallFits(v), v.op = "prefer"
         PROVE  \A x \in v.wants \ clashed' : PreferenceSeen(x, v.view[x])'
    <3> SUFFICES ASSUME NEW x \in v.wants \ clashed'
                 PROVE  PreferenceSeen(x, v.view[x])'
      OBVIOUS
    <3>1. PICK seen \in Preference : seen = v.view[x]
      BY DEF InboxCall
    <3>2. PreferenceSeen(x, seen) /\ x \in Events
      BY <2>10, <2>11, <3>1 DEF InboxCallFits, InboxCall
    <3>3. PreferenceSeen(x, seen)'
      BY <2>9, <3>2
    <3> QED BY <3>1, <3>3 DEF PreferenceSeen
  <2>12. ASSUME NEW d \in InboxCalls PROVE InboxCallFits(inboxCall[d])'
    <3>1. CASE d = c
      <4>1. inboxCall'[d] = w
        BY <2>5, <3>1
      <4>2. CASE w = NoInboxCall
        BY <4>1, <4>2, InboxTyped DEF InboxCallFits
      <4>3. CASE w # NoInboxCall
        <5>1. \A x \in w.wants \ clashed' : PreferenceSeen(x, w.view[x])'
          <6> SUFFICES ASSUME NEW x \in w.wants \ clashed' PROVE PreferenceSeen(x, w.view[x])'
            OBVIOUS
          <6>1. PreferenceSeen(x, q.view[x])' /\ w.view[x] = q.view[x]
            BY <1>1, <2>4, <2>11, <4>3
          <6> QED BY <6>1 DEF PreferenceSeen
        <5>2. InboxCallFits(w)'
          BY <2>4, <4>3, <5>1 DEF InboxCallFits, PreferenceSeen
        <5> QED BY <4>1, <5>2 DEF InboxCallFits, NoticeSeen, PreferenceSeen
      <4> QED BY <4>2, <4>3
    <3>2. CASE d # c
      <4>1. PICK v \in InboxCall : v = inboxCall[d] /\ InboxCallFits(v)
        BY DEF InboxInv, InboxTypeOK
      <4>2. CASE v.op = "notify" /\ v.pc = "ready" /\ v.event = e
        <5>1. PICK l \in InboxCall : l = [v EXCEPT !.late = TRUE] /\ l = inboxCall'[d]
          <6>1. [v EXCEPT !.late = TRUE] \in InboxCall
            BY DEF InboxCall
          <6>2. Has(d, "notify", "ready") /\ inboxCall[d].event = e
            BY <4>1, <4>2 DEF Has
          <6>3. inboxCall'[d] = [inboxCall[d] EXCEPT !.late = TRUE]
            BY <2>5, <3>2, <6>2
          <6> QED BY <4>1, <6>1, <6>3
        <5>2. l.op = "notify" /\ l.pc = "ready" /\ l.late
          BY <4>2, <5>1 DEF InboxCall
        <5>3. InboxCallFits(l)'
          BY <5>2 DEF InboxCallFits
        <5>4. inboxCall'[d] = l
          BY <5>1
        <5> QED BY <5>3, <5>4 DEF InboxCallFits, NoticeSeen, PreferenceSeen
      <4>3. CASE ~(v.op = "notify" /\ v.pc = "ready" /\ v.event = e)
        <5>1. inboxCall'[d] = v
          BY <2>5, <3>2, <4>1, <4>3 DEF Has
        <5>2. v.op = "prefer" => \A x \in v.wants \ clashed' : PreferenceSeen(x, v.view[x])'
          BY <2>11, <4>1
        <5>3. v.op = "notify" => (~preference'[v.event].enabled => v.late)
          <6>1. v.op = "notify" => v.event \in Events \ {e}
            BY <4>1, <4>3 DEF InboxCall, InboxCallFits
          <6> QED BY <2>7, <4>1, <6>1 DEF InboxCallFits
        <5>4. InboxCallFits(v)'
          BY <2>5, <4>1, <5>2, <5>3 DEF InboxCallFits, NoticeSeen, PreferenceSeen
        <5> QED BY <5>1, <5>4 DEF InboxCallFits, NoticeSeen, PreferenceSeen
      <4> QED BY <4>2, <4>3
    <3> QED BY <3>1, <3>2
  <2> QED BY <2>6, <2>8, <2>12 DEF InboxInv
<1> QED BY <1>5, <1>6

LEMMA InboxStart == InboxInit => InboxInv
<1> SUFFICES ASSUME InboxInit
             PROVE  InboxInv
  OBVIOUS
<1>1. InboxTypeOK
  BY InboxTyped DEF InboxInit, InboxTypeOK
<1>2. NoticesAreWanted
  BY InboxTyped DEF InboxInit, NoticesAreWanted
<1>3. MandatoryStaysOn
  BY DEF InboxInit, MandatoryStaysOn, Events, Default
<1>4. \A c \in InboxCalls : InboxCallFits(inboxCall[c])
  BY InboxTyped DEF InboxInit
<1> QED BY <1>1, <1>2, <1>3, <1>4 DEF InboxInv

LEMMA InboxStep == InboxInv /\ [InboxNext]_inboxVars => InboxInv'
<1> SUFFICES ASSUME InboxInv, [InboxNext]_inboxVars
             PROVE  InboxInv'
  OBVIOUS
<1>1. ASSUME NEW c \in InboxCalls, NEW e \in Events, NEW forced \in BOOLEAN, NotifyRead(c, e, forced)
      PROVE  InboxInv'
  BY <1>1, NotifyReadStep
<1>2. ASSUME NEW c \in InboxCalls, NEW n \in Notices, NotifyInsert(c, n) \/ ShowNotice(c, n)
      PROVE  InboxInv'
  BY <1>2, NotifyInsertStep, ShowNoticeStep
<1>3. ASSUME NEW c \in InboxCalls, NotifyFails(c) \/ MarkWrite(c) \/ PreferWrite(c)
      PROVE  InboxInv'
  BY <1>3, NotifyFailsStep, MarkWriteStep, PreferWriteStep
<1>4. ASSUME NEW c \in InboxCalls, NEW read \in {"keep", "set", "clear"},
             NEW archived \in {"keep", "set", "clear"}, MarkRead(c, read, archived)
      PROVE  InboxInv'
  BY <1>4, MarkReadStep
<1>5. ASSUME NEW c \in InboxCalls, NEW wants \in (SUBSET Events) \ {{}}, ShowPreferences(c, wants)
      PROVE  InboxInv'
  BY <1>5, ShowPreferencesStep
<1>6. ASSUME NEW c \in InboxCalls, NEW e \in Events, NEW on \in BOOLEAN, NEW versioned \in BOOLEAN,
             PreferRead(c, e, on, versioned)
      PROVE  InboxInv'
  BY <1>6, PreferReadStep
<1>7. ASSUME UNCHANGED inboxVars
      PROVE  InboxInv'
  <2>1. UNCHANGED <<notice, preference, clashed, inboxCall>>
    BY <1>7 DEF inboxVars
  <2>2. InboxTypeOK' /\ NoticesAreWanted' /\ MandatoryStaysOn'
    BY <2>1 DEF InboxInv, InboxTypeOK, NoticesAreWanted, MandatoryStaysOn
  <2>3. \A c \in InboxCalls : InboxCallFits(inboxCall[c])'
    BY <2>1 DEF InboxInv, InboxCallFits, NoticeSeen, PreferenceSeen
  <2> QED BY <2>2, <2>3 DEF InboxInv
<1> QED BY <1>1, <1>2, <1>3, <1>4, <1>5, <1>6, <1>7 DEF InboxNext

LEMMA InboxHolds == InboxInv => InboxTypeOK /\ InboxSound
<1> SUFFICES ASSUME InboxInv
             PROVE  InboxTypeOK /\ InboxSound
  OBVIOUS
<1>1. NoticeVersionTells
  BY DEF InboxInv, NoticeVersionTells, Has, InboxCallFits, NoticeSeen
<1>2. PreferenceVersionTells
  BY DEF InboxInv, PreferenceVersionTells, Has, InboxCallFits, PreferenceSeen
<1> QED BY <1>1, <1>2 DEF InboxInv, InboxSound

\* What a device shows of a notification or a preference is what is there, if the version
\* is, and a producer has noticed what was switched off since it looked
\* (updateOwnNotification, updatePreferences and create of notifications.service.ts).
THEOREM InboxInvariant == InboxSpec => []InboxInv
BY InboxStart, InboxStep, PTL DEF InboxSpec

\* Nothing is marked or preferred on what is not there any more, nothing unwanted arrives
\* but what was under way, and mandatory event types stay on.
THEOREM InboxesAreSound == InboxSpec => []InboxSound
BY InboxInvariant, InboxHolds, PTL

-----------------------------------------------------------------------------
(* Articles: the invariant                                                 *)

\* The numbers there are snapshots of, for an article with this status and number.
NumbersFit(st, number, numbers) ==
  /\ number \in Nat \ {0}
  /\ st \in {"NONE", "DRAFT", "GONE"} => numbers = {}
  /\ st \in {"NONE", "DRAFT"} => number = 1
  /\ st = "PUBLISHED" => numbers = 1..number
  /\ st = "ARCHIVED" => numbers = 1..number \/ (numbers = {} /\ number = 1)

\* A call keeps its article: one that is being created is still nowhere.
KeepsArticle(q) ==
  q.op # "none" => /\ q.article \in Articles
                   /\ q.op = "create" <=> article[q.article].status = "NONE"
                   /\ q.op = "link" => q.ticket \in KbTickets

\* The number a publication has read is the next one or is taken, and it has read what
\* the article says unless it has been told of an edit.
PublicationFits(q) ==
  q.op = "publish" /\ q.pc = "read" /\ Exists(q.article) =>
    /\ q.number \in 1..(article[q.article].number + 1)
    /\ Numbers(q.article) = {} => q.number = 1
    /\ q.content = article[q.article].content \/ q.raced

Telling(c, a, n) ==
  Reached(c, "publish", "committed") /\ author[c].article = a /\ author[c].number = n

ToldAs(i, a, n) == i \in DOMAIN news /\ news[i].article = a /\ news[i].number = n

\* A number that was given out is not given out again: its snapshot is there, or the
\* article is gone.
GivenOut(a, n) == n \in Numbers(a) \/ article[a].status = "GONE"

\* A publication that was committed is announced, or is about to be, or never will be.
AnnouncementFits(a, n) ==
  /\ (\E i : ToldAs(i, a, n)) => GivenOut(a, n) /\ <<a, n>> \notin unsaid
  /\ <<a, n>> \in unsaid => GivenOut(a, n)
  /\ \A i, j : ToldAs(i, a, n) /\ ToldAs(j, a, n) => i = j
  /\ \A c \in Authors : Telling(c, a, n) => /\ GivenOut(a, n) /\ <<a, n>> \notin unsaid
                                           /\ \A i : ~ToldAs(i, a, n)
                                           /\ \A d \in Authors : Telling(d, a, n) => d = c
  /\ n \in Numbers(a) => \/ \E i : ToldAs(i, a, n)
                         \/ \E c \in Authors : Telling(c, a, n)
                         \/ <<a, n>> \in unsaid

AnnouncedFits == \A a \in Articles, n \in Nat : AnnouncementFits(a, n)

ArtInv ==
  /\ ArticleTypeOK
  /\ \A a \in Articles : NumbersFit(article[a].status, article[a].number, Numbers(a))
  /\ SnapshotsAreFaithful /\ LinksLead
  /\ \A c \in Authors : KeepsArticle(author[c]) /\ PublicationFits(author[c])
  /\ \A c, d \in Authors : c # d /\ author[c].op = "create" /\ author[d].op = "create" =>
                             author[c].article # author[d].article
  /\ AnnouncedFits

LEMMA WritingTyped ==
  /\ AnyContent \in Contents /\ NoWriting \in Writing /\ NoArticleRow \in Article
  /\ NoWriting.op = "none" /\ NoWriting.pc = "idle"
  /\ NoArticleRow.status = "NONE" /\ NoArticleRow.number = 1
<1>1. AnyContent \in Contents
  BY ArticleConstants DEF AnyContent
<1>2. NoWriting \in Writing
  BY <1>1 DEF NoWriting, Writing
<1>3. NoArticleRow \in Article
  BY <1>1 DEF NoArticleRow, Article, ArticleStatus
<1>4. NoWriting.op = "none" /\ NoWriting.pc = "idle"
  BY DEF NoWriting
<1>5. NoArticleRow.status = "NONE" /\ NoArticleRow.number = 1
  BY DEF NoArticleRow
<1> QED BY <1>1, <1>2, <1>3, <1>4, <1>5

LEMMA NumbersAre ==
  ASSUME ArticleTypeOK, NEW a, NEW n
  PROVE  n \in Numbers(a) <=> Snapshotted(a, n)
BY DEF Numbers, Snapshotted

LEMMA NumbersStay ==
  ASSUME UNCHANGED snapshots, NEW a
  PROVE  Numbers(a)' = Numbers(a)
BY DEF Numbers

\* A call that has nothing to announce, before or after a step.
Quiet(q) == ~(q.op = "publish" /\ q.pc = "committed")

\* Nothing is committed and nothing announced: what was given out still is.
LEMMA AnnouncedKept ==
  ASSUME AnnouncedFits, UNCHANGED <<news, unsaid>>,
         \A c \in Authors, a \in Articles, n \in Nat : Telling(c, a, n)' <=> Telling(c, a, n),
         \A a \in Articles, n \in Nat : /\ GivenOut(a, n) => GivenOut(a, n)'
                                        /\ n \in Numbers(a)' => n \in Numbers(a)
  PROVE  AnnouncedFits'
<1>1. \A i, a, n : ToldAs(i, a, n)' <=> ToldAs(i, a, n)
  BY DEF ToldAs
<1> SUFFICES ASSUME NEW a \in Articles, NEW n \in Nat
             PROVE  AnnouncementFits(a, n)'
  BY DEF AnnouncedFits
<1>2. \A c \in Authors : Telling(c, a, n)' <=> Telling(c, a, n)
  OBVIOUS
<1>3. (GivenOut(a, n) => GivenOut(a, n)') /\ (n \in Numbers(a)' => n \in Numbers(a))
  OBVIOUS
<1>4. AnnouncementFits(a, n)
  BY DEF AnnouncedFits
<1> QED BY <1>1, <1>2, <1>3, <1>4 DEF AnnouncementFits

\* A call goes on or ends, having written a link at most.
LEMMA ArticleCallGoesOn ==
  ASSUME ArtInv, NEW c \in Authors, NEW q \in Writing, author' = [author EXCEPT ![c] = q],
         UNCHANGED <<article, snapshots, news, unsaid>>,
         kbLinks' \subseteq Articles \X KbTickets, \A l \in kbLinks' : Exists(l[1]),
         KeepsArticle(q), PublicationFits(q), Quiet(author[c]), Quiet(q),
         q.op = "create" => \A d \in Authors \ {c} :
                              author[d].op = "create" => author[d].article # q.article
  PROVE  ArtInv'
<1>1. \A d \in Authors : author'[d] = IF d = c THEN q ELSE author[d]
  BY DEF ArtInv, ArticleTypeOK
<1>2. ArticleTypeOK'
  BY DEF ArtInv, ArticleTypeOK
<1>3. \A a : Numbers(a)' = Numbers(a)
  BY NumbersStay
<1>4. SnapshotsAreFaithful' /\ LinksLead'
  BY DEF ArtInv, SnapshotsAreFaithful, LinksLead, Exists
<1>5. \A a \in Articles : NumbersFit(article[a].status, article[a].number, Numbers(a))'
  BY <1>3 DEF ArtInv, NumbersFit
<1>6. ASSUME NEW d \in Authors PROVE KeepsArticle(author[d])' /\ PublicationFits(author[d])'
  <2>1. PICK w \in Writing : w = author'[d] /\ KeepsArticle(w) /\ PublicationFits(w)
    BY <1>1 DEF ArtInv, ArticleTypeOK
  <2>2. KeepsArticle(w)'
    BY <2>1 DEF KeepsArticle
  <2>3. PublicationFits(w)'
    BY <1>3, <2>1 DEF PublicationFits, Exists
  <2> QED BY <2>1, <2>2, <2>3 DEF KeepsArticle, PublicationFits
<1>7. (\A d, e \in Authors : d # e /\ author[d].op = "create" /\ author[e].op = "create" =>
                               author[d].article # author[e].article)'
  <2> SUFFICES ASSUME NEW d \in Authors, NEW e \in Authors, d # e,
                      author'[d].op = "create", author'[e].op = "create"
               PROVE  author'[d].article # author'[e].article
    OBVIOUS
  <2>1. CASE d = c
    BY <1>1, <2>1
  <2>2. CASE e = c
    BY <1>1, <2>2
  <2>3. CASE d # c /\ e # c
    BY <1>1, <2>3 DEF ArtInv
  <2> QED BY <2>1, <2>2, <2>3
<1>8. \A d \in Authors, a \in Articles, n \in Nat : Telling(d, a, n)' <=> Telling(d, a, n)
  BY <1>1 DEF Telling, Reached, Quiet
<1>9. \A a \in Articles, n \in Nat : /\ GivenOut(a, n) => GivenOut(a, n)'
                                     /\ n \in Numbers(a)' => n \in Numbers(a)
  BY <1>3 DEF GivenOut
<1>10. AnnouncedFits'
  BY <1>8, <1>9, AnnouncedKept DEF ArtInv
<1> QED BY <1>2, <1>4, <1>5, <1>6, <1>7, <1>10 DEF ArtInv

LEMMA LinksAsTheyAre ==
  ASSUME ArtInv, UNCHANGED kbLinks
  PROVE  kbLinks' \subseteq Articles \X KbTickets /\ \A l \in kbLinks' : Exists(l[1])
BY DEF ArtInv, ArticleTypeOK, LinksLead

LEMMA ArticleCallEnds ==
  ASSUME ArtInv, NEW c \in Authors, author' = [author EXCEPT ![c] = NoWriting],
         UNCHANGED <<article, snapshots, news, kbLinks, unsaid>>, Quiet(author[c])
  PROVE  ArtInv'
<1>1. KeepsArticle(NoWriting) /\ PublicationFits(NoWriting) /\ Quiet(NoWriting)
  BY WritingTyped DEF KeepsArticle, PublicationFits, Quiet
<1> QED BY <1>1, WritingTyped, LinksAsTheyAre, ArticleCallGoesOn

\* What a call takes on that found the article a.
LEMMA ArticleFound ==
  ASSUME ArtInv, NEW c \in Authors, NEW q \in Writing, NEW a \in Articles, Exists(a),
         q.article = a, q.op \notin {"none", "create"}, q.pc = "read", PublicationFits(q),
         q.op = "link" => q.ticket \in KbTickets,
         author[c].pc = "idle", author' = [author EXCEPT ![c] = q],
         UNCHANGED <<article, snapshots, news, kbLinks, unsaid>>
  PROVE  ArtInv'
<1>1. KeepsArticle(q) /\ Quiet(author[c]) /\ Quiet(q)
  BY DEF KeepsArticle, Quiet, Exists
<1> QED BY <1>1, LinksAsTheyAre, ArticleCallGoesOn

LEMMA CreateReadStep ==
  ASSUME ArtInv, NEW c \in Authors, NEW s \in Slugs, NEW x \in Contents, CreateRead(c, s, x)
  PROVE  ArtInv'
<1> DEFINE free == {a \in Articles : /\ article[a].status = "NONE"
                                     /\ \A d \in Authors : author[d].article # a}
<1>1. PICK a \in Articles : /\ a = (CHOOSE b \in free : TRUE)
                            /\ article[a].status = "NONE"
                            /\ \A d \in Authors : author[d].article # a
  BY DEF CreateRead
<1> HIDE DEF free
<1>2. PICK q \in Writing : q = [NoWriting EXCEPT !.op = "create", !.pc = "read", !.slug = s,
                                                !.content = x, !.article = a]
  BY WritingTyped DEF Writing
<1>3. q.op = "create" /\ q.pc = "read" /\ q.article = a
  BY <1>2, WritingTyped DEF Writing
<1>4. /\ author[c].pc = "idle" /\ author' = [author EXCEPT ![c] = q]
      /\ UNCHANGED <<article, snapshots, news, kbLinks, unsaid>>
  BY <1>1, <1>2 DEF CreateRead, Asks, free
<1>5. KeepsArticle(q) /\ PublicationFits(q) /\ Quiet(author[c]) /\ Quiet(q)
  BY <1>1, <1>3, <1>4 DEF KeepsArticle, PublicationFits, Quiet
<1>6. \A d \in Authors \ {c} : author[d].op = "create" => author[d].article # q.article
  BY <1>1, <1>3
<1> QED BY <1>4, <1>5, <1>6, LinksAsTheyAre, ArticleCallGoesOn

LEMMA UpdateReadStep ==
  ASSUME ArtInv, NEW c \in Authors, NEW a \in Articles, NEW s \in Slugs \cup {NoSlug},
         NEW x \in Contents, UpdateRead(c, a, s, x)
  PROVE  ArtInv'
<1>1. PICK q \in Writing : q = [NoWriting EXCEPT !.op = "update", !.pc = "read", !.article = a,
                                                !.slug = s, !.content = x]
  BY WritingTyped DEF Writing
<1>2. q.op = "update" /\ q.pc = "read" /\ q.article = a
  BY <1>1, WritingTyped DEF Writing
<1>3. PublicationFits(q)
  BY <1>2 DEF PublicationFits
<1>4. /\ Exists(a) /\ author[c].pc = "idle" /\ author' = [author EXCEPT ![c] = q]
      /\ UNCHANGED <<article, snapshots, news, kbLinks, unsaid>>
  BY <1>1 DEF UpdateRead, Asks
<1> QED BY <1>2, <1>3, <1>4, ArticleFound

LEMMA LookUpStep ==
  ASSUME ArtInv, NEW c \in Authors, NEW op \in {"archive", "delete", "link"},
         NEW a \in Articles, NEW t \in KbTickets \cup {NoKbTicket}, op = "link" => t \in KbTickets,
         LookUp(c, op, a, t)
  PROVE  ArtInv'
<1>1. PICK q \in Writing : q = [NoWriting EXCEPT !.op = op, !.pc = "read", !.article = a,
                                                !.ticket = t]
  BY WritingTyped DEF Writing
<1>2. q.op = op /\ q.pc = "read" /\ q.article = a /\ q.ticket = t
  BY <1>1, WritingTyped DEF Writing
<1>3. PublicationFits(q)
  BY <1>2 DEF PublicationFits
<1>4. /\ Exists(a) /\ author[c].pc = "idle" /\ author' = [author EXCEPT ![c] = q]
      /\ UNCHANGED <<article, snapshots, news, kbLinks, unsaid>>
  BY <1>1 DEF LookUp, Asks
<1> QED BY <1>2, <1>3, <1>4, ArticleFound

LEMMA PublishReadStep ==
  ASSUME ArtInv, NEW c \in Authors, NEW a \in Articles, PublishRead(c, a)
  PROVE  ArtInv'
<1>1. PICK row \in Article : row = article[a]
  BY DEF ArtInv, ArticleTypeOK
<1>2. PICK n \in Nat : n = NextNumber(row)
  BY DEF NextNumber, Article
<1>3. PICK q \in Writing : q = [NoWriting EXCEPT !.op = "publish", !.pc = "read", !.article = a,
                                                !.number = n, !.content = row.content]
  BY WritingTyped DEF Writing, Article
<1>4. /\ q.op = "publish" /\ q.pc = "read" /\ q.article = a /\ q.number = n
      /\ q.content = row.content
  BY <1>3, WritingTyped DEF Writing
<1>5. /\ Exists(a) /\ author[c].pc = "idle" /\ author' = [author EXCEPT ![c] = q]
      /\ UNCHANGED <<article, snapshots, news, kbLinks, unsaid>>
  BY <1>1, <1>2, <1>3 DEF PublishRead, Asks
<1>6. NumbersFit(row.status, row.number, Numbers(a)) /\ row.number \in Nat
  BY <1>1 DEF ArtInv, Article
<1>7. n \in 1..(row.number + 1)
  BY <1>2, <1>6 DEF NextNumber, NumbersFit
<1>8. ASSUME Numbers(a) = {} PROVE n = 1
  <2>1. row.status # "PUBLISHED"
    <3> SUFFICES ASSUME row.status = "PUBLISHED" PROVE FALSE
      OBVIOUS
    <3>1. 1 \in 1..row.number
      BY <1>6 DEF NumbersFit
    <3> QED BY <1>6, <1>8, <3>1 DEF NumbersFit
  <2>2. row.number = 1
    <3>1. 1 \in 1..row.number
      BY <1>6 DEF NumbersFit
    <3> QED BY <1>1, <1>5, <1>6, <1>8, <2>1, <3>1 DEF NumbersFit, Exists
  <2> QED BY <1>2, <2>1, <2>2 DEF NextNumber
<1>9. PublicationFits(q)
  BY <1>1, <1>4, <1>7, <1>8 DEF PublicationFits
<1> QED BY <1>4, <1>5, <1>9, ArticleFound

\* The call v stays as it is, w, but a publication may be told of an edit: it is told when
\* the article a, which it has read, will say x.
OnlyTold(v, w, a, x) ==
  /\ w.op = v.op /\ w.pc = v.pc /\ w.article = v.article /\ w.number = v.number
  /\ w.content = v.content /\ w.ticket = v.ticket /\ (v.raced => w.raced)
  /\ v.op = "publish" /\ v.pc = "read" /\ v.article = a => x = article[a].content \/ w.raced

\* The row of an article is written and its snapshots stay: by its own creation, an edit,
\* which tells publications that have read it, or an archiving.
LEMMA ArticleRowStep ==
  ASSUME ArtInv, NEW c \in Authors, NEW a \in Articles, NEW row \in Article,
         Exists(a) \/ (article[a].status = "NONE" /\ author[c].op = "create" /\ author[c].article = a),
         Quiet(author[c]), row.status \in {"DRAFT", "PUBLISHED", "ARCHIVED"},
         row.number = article[a].number, NumbersFit(row.status, row.number, Numbers(a)),
         article' = [article EXCEPT ![a] = row], UNCHANGED <<snapshots, news, kbLinks, unsaid>>,
         author' \in [Authors -> Writing], author'[c] = NoWriting,
         \A d \in Authors \ {c} : OnlyTold(author[d], author'[d], a, row.content)
  PROVE  ArtInv'
<1>1. \A b \in Articles : article'[b] = IF b = a THEN row ELSE article[b]
  BY DEF ArtInv, ArticleTypeOK
<1>2. ArticleTypeOK'
  BY DEF ArtInv, ArticleTypeOK
<1>3. \A b : Numbers(b)' = Numbers(b)
  BY NumbersStay
<1>4. \A b \in Articles : Exists(b) => Exists(b)'
  BY <1>1 DEF Exists
<1>5. SnapshotsAreFaithful' /\ LinksLead'
  BY <1>4 DEF ArtInv, ArticleTypeOK, SnapshotsAreFaithful, LinksLead
<1>6. \A b \in Articles : NumbersFit(article[b].status, article[b].number, Numbers(b))'
  BY <1>1, <1>3 DEF ArtInv, NumbersFit
<1>7. \A d \in Authors \ {c} :
        /\ author'[d].op = author[d].op /\ author'[d].pc = author[d].pc
        /\ author'[d].article = author[d].article /\ author'[d].number = author[d].number
        /\ author'[d].content = author[d].content
  BY DEF OnlyTold
<1>8. ASSUME NEW d \in Authors PROVE KeepsArticle(author[d])' /\ PublicationFits(author[d])'
  <2>1. CASE d = c
    BY <2>1, WritingTyped DEF KeepsArticle, PublicationFits
  <2>2. CASE d # c
    <3>1. PICK v \in Writing, w \in Writing :
            /\ v = author[d] /\ w = author'[d] /\ KeepsArticle(v) /\ PublicationFits(v)
      BY DEF ArtInv, ArticleTypeOK
    <3>2. /\ w.op = v.op /\ w.pc = v.pc /\ w.article = v.article /\ w.number = v.number
          /\ w.content = v.content /\ w.ticket = v.ticket /\ (v.raced => w.raced)
      BY <2>2, <3>1 DEF OnlyTold
    <3>3. v.op # "none" /\ v.article = a => Exists(a) /\ v.op # "create"
      <4>1. article[a].status = "NONE" => v.op = "none" \/ v.article # a
        BY <2>2, <3>1 DEF ArtInv, KeepsArticle, Exists
      <4> QED BY <3>1, <4>1 DEF KeepsArticle, Exists
    <3>4. KeepsArticle(w)'
      <4>1. CASE v.article = a
        BY <1>1, <3>1, <3>2, <3>3, <4>1 DEF KeepsArticle, Exists
      <4>2. CASE v.article # a
        BY <1>1, <3>1, <3>2, <4>2 DEF KeepsArticle
      <4> QED BY <4>1, <4>2
    <3>5. PublicationFits(w)'
      <4> SUFFICES ASSUME w.op = "publish", w.pc = "read", Exists(w.article)'
                   PROVE  (/\ w.number \in 1..(article[w.article].number + 1)
                           /\ Numbers(w.article) = {} => w.number = 1
                           /\ w.content = article[w.article].content \/ w.raced)'
        BY DEF PublicationFits
      <4>1. v.op = "publish" /\ v.pc = "read" /\ v.article \in Articles
        BY <3>1, <3>2 DEF KeepsArticle
      <4>2. Exists(v.article)
        BY <1>1, <3>2, <3>3, <4>1 DEF Exists
      <4>3. /\ v.number \in 1..(article[v.article].number + 1)
            /\ Numbers(v.article) = {} => v.number = 1
            /\ v.content = article[v.article].content \/ v.raced
        BY <3>1, <4>1, <4>2 DEF PublicationFits
      <4>4. article'[v.article].number = article[v.article].number
        BY <1>1, <4>1
      <4>5. article'[v.article].content = article[v.article].content \/ w.raced
        BY <1>1, <2>2, <3>1, <4>1 DEF OnlyTold
      <4> QED BY <1>3, <3>2, <4>3, <4>4, <4>5
    <3> QED BY <3>1, <3>4, <3>5 DEF KeepsArticle, PublicationFits
  <2> QED BY <2>1, <2>2
<1>9. (\A d, e \in Authors : d # e /\ author[d].op = "create" /\ author[e].op = "create" =>
                               author[d].article # author[e].article)'
  BY <1>7, WritingTyped DEF ArtInv
<1>10. \A d \in Authors, b \in Articles, n \in Nat : Telling(d, b, n)' <=> Telling(d, b, n)
  BY <1>7, WritingTyped DEF Telling, Reached, Quiet
<1>11. \A b \in Articles, n \in Nat : /\ GivenOut(b, n) => GivenOut(b, n)'
                                      /\ n \in Numbers(b)' => n \in Numbers(b)
  BY <1>1, <1>3 DEF GivenOut, Exists
<1>12. AnnouncedFits'
  BY <1>10, <1>11, AnnouncedKept DEF ArtInv
<1> QED BY <1>2, <1>5, <1>6, <1>8, <1>9, <1>12 DEF ArtInv

LEMMA CreateInsertStep ==
  ASSUME ArtInv, NEW c \in Authors, CreateInsert(c)
  PROVE  ArtInv'
<1>1. PICK q \in Writing : q = author[c] /\ KeepsArticle(q) /\ q.op = "create" /\ q.pc = "read"
  BY DEF ArtInv, ArticleTypeOK, CreateInsert, Reached
<1>2. PICK a \in Articles : a = q.article /\ article[a].status = "NONE"
  BY <1>1 DEF KeepsArticle
<1>3. /\ author' = [author EXCEPT ![c] = NoWriting] /\ UNCHANGED <<snapshots, news, kbLinks, unsaid>>
      /\ Quiet(author[c])
  BY <1>1 DEF CreateInsert, Finishes, Quiet
<1>4. CASE SlugTaken(q.slug, a)
  <2>1. article' = article
    BY <1>1, <1>2, <1>4 DEF CreateInsert
  <2> QED BY <1>3, <2>1, ArticleCallEnds
<1>5. CASE ~SlugTaken(q.slug, a)
  <2>1. PICK row \in Article : row = [NoArticleRow EXCEPT !.status = "DRAFT", !.slug = q.slug,
                                                         !.content = q.content]
    BY WritingTyped DEF Article, Writing, ArticleStatus
  <2>2. row.status = "DRAFT" /\ row.number = 1
    BY <2>1, WritingTyped DEF Article
  <2>3. article' = [article EXCEPT ![a] = row]
    BY <1>1, <1>2, <1>5, <2>1 DEF CreateInsert
  <2>4. NumbersFit(article[a].status, article[a].number, Numbers(a))
    BY DEF ArtInv
  <2>5. row.number = article[a].number /\ NumbersFit(row.status, row.number, Numbers(a))
    BY <1>2, <2>2, <2>4 DEF NumbersFit
  <2>6. /\ author' \in [Authors -> Writing] /\ author'[c] = NoWriting
        /\ \A d \in Authors \ {c} : author'[d] = author[d]
    BY <1>3, WritingTyped DEF ArtInv, ArticleTypeOK
  <2>7. \A d \in Authors \ {c} : author[d].op = "publish" => author[d].article # a
    BY <1>2 DEF ArtInv, KeepsArticle
  <2>8. \A d \in Authors \ {c} : OnlyTold(author[d], author'[d], a, row.content)
    BY <2>6, <2>7 DEF OnlyTold
  <2>9. Exists(a) \/ (article[a].status = "NONE" /\ author[c].op = "create" /\ author[c].article = a)
    BY <1>1, <1>2
  <2>10. row.status \in {"DRAFT", "PUBLISHED", "ARCHIVED"}
    BY <2>2
  <2> QED BY <1>3, <2>3, <2>5, <2>6, <2>8, <2>9, <2>10, ArticleRowStep
<1> QED BY <1>4, <1>5

LEMMA UpdateWriteStep ==
  ASSUME ArtInv, NEW c \in Authors, UpdateWrite(c)
  PROVE  ArtInv'
<1>1. PICK q \in Writing : q = author[c] /\ KeepsArticle(q) /\ q.op = "update" /\ q.pc = "read"
  BY DEF ArtInv, ArticleTypeOK, UpdateWrite, Reached
<1>2. PICK a \in Articles : a = q.article
  BY <1>1 DEF KeepsArticle
<1>3. UNCHANGED <<snapshots, news, kbLinks, unsaid>> /\ Quiet(author[c])
  BY <1>1 DEF UpdateWrite, Quiet
<1> DEFINE ok == Exists(a) /\ ~SlugTaken(q.slug, a)
<1>4. CASE ~ok
  <2>1. article' = article
    BY <1>1, <1>2, <1>4 DEF UpdateWrite
  <2>2. author' = [d \in Authors |-> IF d = c THEN NoWriting ELSE author[d]]
    BY <1>1, <1>2, <1>4 DEF UpdateWrite
  <2>3. author' = [author EXCEPT ![c] = NoWriting]
    BY <2>2 DEF ArtInv, ArticleTypeOK
  <2> QED BY <1>3, <2>1, <2>3, ArticleCallEnds
<1>5. CASE ok
  <2>1. PICK old \in Article : old = article[a]
    BY DEF ArtInv, ArticleTypeOK
  <2>2. PICK row \in Article : row = [old EXCEPT !.content = q.content,
                                                 !.slug = IF q.slug = NoSlug THEN @ ELSE q.slug]
    BY DEF Article, Writing
  <2>3. row.status = old.status /\ row.number = old.number
    BY <2>2 DEF Article
  <2>4. article' = [article EXCEPT ![a] = row]
    <3>1. article' = [article EXCEPT ![a].content = q.content,
                                     ![a].slug = IF q.slug = NoSlug THEN @ ELSE q.slug]
      BY <1>1, <1>2, <1>5 DEF UpdateWrite
    <3> QED BY <2>1, <2>2, <3>1 DEF ArtInv, ArticleTypeOK, Article
  <2>5. NumbersFit(row.status, row.number, Numbers(a))
    BY <2>1, <2>3 DEF ArtInv
  <2>6. author' = [d \in Authors |->
                     IF d = c THEN NoWriting
                     ELSE IF Reached(d, "publish", "read") /\ author[d].article = a
                     THEN [author[d] EXCEPT !.raced = TRUE]
                     ELSE author[d]]
    BY <1>1, <1>2, <1>5 DEF UpdateWrite
  <2>7. \A d \in Authors : [author[d] EXCEPT !.raced = TRUE] \in Writing
                           /\ [author[d] EXCEPT !.raced = TRUE].raced
    BY DEF ArtInv, ArticleTypeOK, Writing
  <2>8. author' \in [Authors -> Writing] /\ author'[c] = NoWriting
    BY <2>6, <2>7, WritingTyped DEF ArtInv, ArticleTypeOK
  <2>9. ASSUME NEW d \in Authors \ {c}
        PROVE  OnlyTold(author[d], author'[d], a, row.content)
    <3> PICK v \in Writing : v = author[d]
      BY DEF ArtInv, ArticleTypeOK
    <3>1. CASE Reached(d, "publish", "read") /\ author[d].article = a
      <4>1. author'[d] = [author[d] EXCEPT !.raced = TRUE]
        BY <2>6, <3>1
      <4>2. PICK w \in Writing : w = [v EXCEPT !.raced = TRUE]
        BY DEF Writing
      <4> QED BY <4>1, <4>2 DEF OnlyTold, Writing
    <3>2. CASE ~(Reached(d, "publish", "read") /\ author[d].article = a)
      <4>1. author'[d] = author[d]
        BY <2>6, <3>2
      <4> QED BY <3>2, <4>1 DEF Reached, OnlyTold
    <3> QED BY <3>1, <3>2
  <2>10. Exists(a) /\ row.status \in {"DRAFT", "PUBLISHED", "ARCHIVED"} /\ row.number = article[a].number
    BY <1>5, <2>1, <2>3 DEF Exists
  <2>11. \A d \in Authors \ {c} : OnlyTold(author[d], author'[d], a, row.content)
    BY <2>9
  <2>12. Exists(a) \/ (article[a].status = "NONE" /\ author[c].op = "create" /\ author[c].article = a)
    BY <1>5
  <2> HIDE DEF ok
  <2> QED BY <1>3, <2>4, <2>5, <2>8, <2>10, <2>11, <2>12, ArticleRowStep
<1> QED BY <1>4, <1>5

LEMMA ArchiveWriteStep ==
  ASSUME ArtInv, NEW c \in Authors, ArchiveWrite(c)
  PROVE  ArtInv'
<1>1. PICK q \in Writing : q = author[c] /\ KeepsArticle(q) /\ q.op = "archive" /\ q.pc = "read"
  BY DEF ArtInv, ArticleTypeOK, ArchiveWrite, Reached
<1>2. PICK a \in Articles : a = q.article
  BY <1>1 DEF KeepsArticle
<1>3. /\ author' = [author EXCEPT ![c] = NoWriting] /\ UNCHANGED <<snapshots, news, kbLinks, unsaid>>
      /\ Quiet(author[c])
  BY <1>1 DEF ArchiveWrite, Finishes, Quiet
<1>4. CASE ~Exists(a)
  <2>1. article' = article
    BY <1>1, <1>2, <1>4 DEF ArchiveWrite
  <2> QED BY <1>3, <2>1, ArticleCallEnds
<1>5. CASE Exists(a)
  <2>1. PICK old \in Article : old = article[a]
    BY DEF ArtInv, ArticleTypeOK
  <2>2. PICK row \in Article : row = [old EXCEPT !.status = "ARCHIVED"]
    BY DEF Article, ArticleStatus
  <2>3. row.status = "ARCHIVED" /\ row.number = old.number /\ row.content = old.content
    BY <2>2 DEF Article
  <2>4. article' = [article EXCEPT ![a] = row]
    BY <1>1, <1>2, <1>5, <2>1, <2>2 DEF ArchiveWrite
  <2>5. NumbersFit(row.status, row.number, Numbers(a))
    BY <1>5, <2>1, <2>3 DEF ArtInv, NumbersFit, Exists
  <2>6. /\ author' \in [Authors -> Writing] /\ author'[c] = NoWriting
        /\ \A d \in Authors \ {c} : author'[d] = author[d]
    BY <1>3, WritingTyped DEF ArtInv, ArticleTypeOK
  <2>7. row.number = article[a].number /\ row.content = article[a].content
    BY <2>1, <2>3
  <2>8. \A d \in Authors \ {c} : OnlyTold(author[d], author'[d], a, row.content)
    BY <2>6, <2>7 DEF OnlyTold
  <2>9. Exists(a) \/ (article[a].status = "NONE" /\ author[c].op = "create" /\ author[c].article = a)
    BY <1>5
  <2>10. row.status \in {"DRAFT", "PUBLISHED", "ARCHIVED"}
    BY <2>3
  <2> QED BY <1>3, <2>4, <2>5, <2>6, <2>7, <2>8, <2>9, <2>10, ArticleRowStep
<1> QED BY <1>4, <1>5

LEMMA PublishRefusedStep ==
  ASSUME ArtInv, NEW c \in Authors, PublishRefused(c)
  PROVE  ArtInv'
BY ArticleCallEnds DEF PublishRefused, Finishes, Reached, Quiet

\* The number is the next one: it is not above that, and those up to the article's are taken.
LEMMA PublishCommitStep ==
  ASSUME ArtInv, NEW c \in Authors, PublishCommit(c)
  PROVE  ArtInv'
<1>1. PICK q \in Writing : /\ q = author[c] /\ KeepsArticle(q) /\ PublicationFits(q)
                           /\ q.op = "publish" /\ q.pc = "read"
  BY DEF ArtInv, ArticleTypeOK, PublishCommit, Reached
<1>2. PICK a \in Articles, n \in Nat : a = q.article /\ n = q.number
  BY <1>1 DEF KeepsArticle, Writing
<1>3. PICK old \in Article : old = article[a]
  BY DEF ArtInv, ArticleTypeOK
<1>4. PICK e \in BOOLEAN : e <=> q.content = old.content
  OBVIOUS
<1>5. PICK v \in Snapshot : v = [article |-> a, number |-> n, exact |-> e,
                                 raced |-> q.raced]
  <2>1. [article |-> a, number |-> n, exact |-> e, raced |-> q.raced] \in Snapshot
    BY DEF Snapshot, Writing
  <2> QED BY <1>4, <2>1
<1>6. v.article = a /\ v.number = n /\ v.exact = (q.content = old.content) /\ v.raced = q.raced
  BY <1>4, <1>5
<1>7. PICK row \in Article : row = [old EXCEPT !.status = "PUBLISHED", !.number = n]
  BY DEF Article, ArticleStatus
<1>8. row.status = "PUBLISHED" /\ row.number = n /\ row.content = old.content
  BY <1>7 DEF Article
<1>9. PICK w \in Writing : w = [q EXCEPT !.pc = "committed", !.raced = FALSE, !.content = AnyContent]
  BY WritingTyped DEF Writing
<1>10. w.op = "publish" /\ w.pc = "committed" /\ w.article = a /\ w.number = n
  BY <1>1, <1>2, <1>9 DEF Writing
<1>11. /\ Exists(a) /\ ~Snapshotted(a, n)
       /\ snapshots' = snapshots \cup {v}
       /\ UNCHANGED <<news, kbLinks, unsaid>>
  BY <1>1, <1>2, <1>3, <1>4, <1>5 DEF PublishCommit
<1>12. article' = [article EXCEPT ![a] = row]
  <2>1. article' = [article EXCEPT ![a].status = "PUBLISHED", ![a].number = n]
    BY <1>1, <1>2 DEF PublishCommit
  <2> QED BY <1>3, <1>7, <2>1 DEF ArtInv, ArticleTypeOK, Article
<1>13. author' = [author EXCEPT ![c] = w]
  <2>1. author' = [author EXCEPT ![c].pc = "committed", ![c].raced = FALSE, ![c].content = AnyContent]
    BY DEF PublishCommit
  <2> QED BY <1>1, <1>9, <2>1 DEF ArtInv, ArticleTypeOK, Writing
<1>14. \A b \in Articles : article'[b] = IF b = a THEN row ELSE article[b]
  BY <1>12 DEF ArtInv, ArticleTypeOK
<1>15. \A d \in Authors : author'[d] = IF d = c THEN w ELSE author[d]
  BY <1>13 DEF ArtInv, ArticleTypeOK
<1>16. ArticleTypeOK'
  BY <1>11, <1>12, <1>13 DEF ArtInv, ArticleTypeOK
<1>17. n \notin Numbers(a)
  BY <1>11, NumbersAre DEF ArtInv
<1>18. \A b : Numbers(b)' = IF b = a THEN Numbers(b) \cup {n} ELSE Numbers(b)
  <2> SUFFICES ASSUME NEW b, NEW m
               PROVE  m \in Numbers(b)' <=> m \in Numbers(b) \/ (b = a /\ m = n)
    OBVIOUS
  <2>1. m \in Numbers(b)' <=> \E x \in snapshots \cup {v} : x.article = b /\ x.number = m
    BY <1>11 DEF Numbers
  <2>2. m \in Numbers(b) <=> \E x \in snapshots : x.article = b /\ x.number = m
    BY DEF Numbers
  <2> QED BY <1>6, <2>1, <2>2
<1>19. /\ NumbersFit(old.status, old.number, Numbers(a)) /\ old.number \in Nat
       /\ n \in 1..(old.number + 1) /\ (Numbers(a) = {} => n = 1)
       /\ q.content = old.content \/ q.raced
       /\ old.status \in {"DRAFT", "PUBLISHED", "ARCHIVED"}
  BY <1>1, <1>2, <1>3, <1>11 DEF ArtInv, PublicationFits, Exists, Article
<1>20. Numbers(a) \cup {n} = 1..n /\ n \in Nat \ {0} /\ old.number <= n
  <2>1. CASE Numbers(a) = {}
    <3>1. n = 1 /\ 1..1 = {1}
      BY <1>19, <2>1
    <3>2. old.number = 1
      <4>1. 1 \in 1..old.number
        BY <1>19 DEF NumbersFit
      <4> QED BY <1>19, <2>1, <4>1 DEF NumbersFit
    <3> QED BY <2>1, <3>1, <3>2
  <2>2. CASE Numbers(a) # {}
    <3>1. Numbers(a) = 1..old.number
      BY <1>19, <2>2 DEF NumbersFit
    <3>2. n = old.number + 1
      BY <1>17, <1>19, <3>1
    <3> QED BY <1>19, <3>1, <3>2
  <2> QED BY <2>1, <2>2
<1>21. \A b \in Articles : NumbersFit(article[b].status, article[b].number, Numbers(b))'
  <2> SUFFICES ASSUME NEW b \in Articles
               PROVE  NumbersFit(article'[b].status, article'[b].number, Numbers(b)')
    BY DEF NumbersFit
  <2>1. CASE b = a
    BY <1>8, <1>14, <1>18, <1>20, <2>1 DEF NumbersFit
  <2>2. CASE b # a
    BY <1>14, <1>18, <2>2 DEF ArtInv
  <2> QED BY <2>1, <2>2
<1>22. \A b \in Articles : /\ Exists(b) <=> Exists(b)'
                           /\ article[b].status = "NONE" <=> article'[b].status = "NONE"
                           /\ article[b].status = "GONE" <=> article'[b].status = "GONE"
                           /\ article'[b].content = article[b].content
                           /\ article[b].number <= article'[b].number
                           /\ article[b].number \in Nat /\ article'[b].number \in Nat
  <2> SUFFICES ASSUME NEW b \in Articles
               PROVE  /\ Exists(b) <=> Exists(b)'
                      /\ article[b].status = "NONE" <=> article'[b].status = "NONE"
                      /\ article[b].status = "GONE" <=> article'[b].status = "GONE"
                      /\ article'[b].content = article[b].content
                      /\ article[b].number <= article'[b].number
                      /\ article[b].number \in Nat /\ article'[b].number \in Nat
    OBVIOUS
  <2>1. CASE b = a
    BY <1>3, <1>8, <1>14, <1>19, <1>20, <2>1 DEF Exists
  <2>2. CASE b # a
    BY <1>14, <2>2 DEF Exists, ArtInv, ArticleTypeOK, Article
  <2> QED BY <2>1, <2>2
<1>23. SnapshotsAreFaithful' /\ LinksLead'
  BY <1>6, <1>11, <1>19, <1>22 DEF ArtInv, ArticleTypeOK, SnapshotsAreFaithful, LinksLead
<1>24. ASSUME NEW d \in Authors PROVE KeepsArticle(author[d])' /\ PublicationFits(author[d])'
  <2>1. CASE d = c
    <3>1. article'[a].status # "NONE"
      BY <1>1, <1>2, <1>22 DEF KeepsArticle
    <3> QED BY <1>10, <1>15, <2>1, <3>1 DEF KeepsArticle, PublicationFits
  <2>2. CASE d # c
    <3>1. PICK x \in Writing : x = author[d] /\ x = author'[d] /\ KeepsArticle(x) /\ PublicationFits(x)
      BY <1>15, <2>2 DEF ArtInv, ArticleTypeOK
    <3>2. KeepsArticle(x)'
      BY <1>22, <3>1 DEF KeepsArticle
    <3>3. PublicationFits(x)'
      <4> SUFFICES ASSUME x.op = "publish", x.pc = "read", Exists(x.article)'
                   PROVE  (/\ x.number \in 1..(article[x.article].number + 1)
                           /\ Numbers(x.article) = {} => x.number = 1
                           /\ x.content = article[x.article].content \/ x.raced)'
        BY DEF PublicationFits
      <4>1. x.article \in Articles
        BY <3>1 DEF KeepsArticle
      <4>2. /\ x.number \in 1..(article[x.article].number + 1)
            /\ Numbers(x.article) = {} => x.number = 1
            /\ x.content = article[x.article].content \/ x.raced
        BY <1>22, <3>1, <4>1 DEF PublicationFits
      <4>3. x.number \in 1..(article'[x.article].number + 1)
        BY <1>22, <4>1, <4>2
      <4>4. Numbers(x.article)' = {} => Numbers(x.article) = {}
        BY <1>18
      <4> QED BY <1>22, <4>1, <4>2, <4>3, <4>4
    <3> QED BY <3>1, <3>2, <3>3 DEF KeepsArticle, PublicationFits
  <2> QED BY <2>1, <2>2
<1>25. (\A d, x \in Authors : d # x /\ author[d].op = "create" /\ author[x].op = "create" =>
                                author[d].article # author[x].article)'
  BY <1>10, <1>15 DEF ArtInv
<1>26. \A b \in Articles, m \in Nat : GivenOut(b, m)' <=> GivenOut(b, m) \/ (b = a /\ m = n)
  BY <1>18, <1>22 DEF GivenOut
<1>27. \A i, b, m : ToldAs(i, b, m)' <=> ToldAs(i, b, m)
  BY <1>11 DEF ToldAs
<1>28. \A b, m : \A d \in Authors : Telling(d, b, m)' <=> Telling(d, b, m) \/ (d = c /\ b = a /\ m = n)
  BY <1>1, <1>10, <1>15 DEF Telling, Reached
<1>29. ~GivenOut(a, n)
  BY <1>3, <1>17, <1>19 DEF GivenOut
<1>30. AnnouncedFits'
  <2> SUFFICES ASSUME NEW b \in Articles, NEW m \in Nat
               PROVE  AnnouncementFits(b, m)'
    BY DEF AnnouncedFits
  <2>1. AnnouncementFits(b, m)
    BY DEF ArtInv, AnnouncedFits
  <2>2. UNCHANGED unsaid
    BY <1>11
  <2>3. CASE b = a /\ m = n
    <3>1. (\A i : ~ToldAs(i, b, m)) /\ <<b, m>> \notin unsaid /\ \A d \in Authors : ~Telling(d, b, m)
      BY <1>29, <2>1, <2>3 DEF AnnouncementFits
    <3> QED BY <1>26, <1>27, <1>28, <2>2, <2>3, <3>1 DEF AnnouncementFits
  <2>4. CASE ~(b = a /\ m = n)
    <3>1. /\ m \in Numbers(b)' <=> m \in Numbers(b)
          /\ GivenOut(b, m)' <=> GivenOut(b, m)
          /\ \A d \in Authors : Telling(d, b, m)' <=> Telling(d, b, m)
      BY <1>18, <1>26, <1>28, <2>4
    <3> QED BY <1>27, <2>1, <2>2, <3>1 DEF AnnouncementFits
  <2> QED BY <2>3, <2>4
<1> QED BY <1>16, <1>21, <1>23, <1>24, <1>25, <1>30 DEF ArtInv

\* A call ends that has announced its version, or never will.
LEMMA AnnouncementEnds ==
  ASSUME ArtInv, NEW c \in Authors, NEW a \in Articles, NEW n \in Nat, Telling(c, a, n),
         author' = [author EXCEPT ![c] = NoWriting], UNCHANGED <<article, snapshots, kbLinks>>,
         \/ news' = Append(news, [article |-> a, number |-> n]) /\ unsaid' = unsaid
         \/ unsaid' = unsaid \cup {<<a, n>>} /\ news' = news
  PROVE  ArtInv'
<1>1. \A d \in Authors : author'[d] = IF d = c THEN NoWriting ELSE author[d]
  BY DEF ArtInv, ArticleTypeOK
<1>2. PICK told \in [article : Articles, number : Nat] : told = [article |-> a, number |-> n]
  OBVIOUS
<1>3. news \in Seq([article : Articles, number : Nat])
  BY DEF ArtInv, ArticleTypeOK
<1>4. ArticleTypeOK'
  <2>1. Append(news, told) \in Seq([article : Articles, number : Nat])
    BY <1>3
  <2>2. news' \in Seq([article : Articles, number : Nat])
    BY <1>2, <1>3, <2>1
  <2>3. <<a, n>> \in Articles \X Nat
    OBVIOUS
  <2>4. unsaid' \subseteq Articles \X Nat
    BY <2>3 DEF ArtInv, ArticleTypeOK
  <2>5. author' \in [Authors -> Writing]
    BY WritingTyped DEF ArtInv, ArticleTypeOK
  <2> QED BY <2>2, <2>4, <2>5 DEF ArtInv, ArticleTypeOK
<1>5. \A b : Numbers(b)' = Numbers(b)
  BY NumbersStay
<1>6. SnapshotsAreFaithful' /\ LinksLead'
  BY DEF ArtInv, SnapshotsAreFaithful, LinksLead, Exists
<1>7. \A b \in Articles : NumbersFit(article[b].status, article[b].number, Numbers(b))'
  BY <1>5 DEF ArtInv, NumbersFit
<1>8. ASSUME NEW d \in Authors PROVE KeepsArticle(author[d])' /\ PublicationFits(author[d])'
  <2>1. CASE d = c
    BY <1>1, <2>1, WritingTyped DEF KeepsArticle, PublicationFits
  <2>2. CASE d # c
    <3>1. PICK x \in Writing : x = author'[d] /\ KeepsArticle(x) /\ PublicationFits(x)
      BY <1>1, <2>2 DEF ArtInv, ArticleTypeOK
    <3>2. KeepsArticle(x)' /\ PublicationFits(x)'
      BY <1>5, <3>1 DEF KeepsArticle, PublicationFits, Exists
    <3> QED BY <3>1, <3>2 DEF KeepsArticle, PublicationFits
  <2> QED BY <2>1, <2>2
<1>9. (\A d, x \in Authors : d # x /\ author[d].op = "create" /\ author[x].op = "create" =>
                               author[d].article # author[x].article)'
  BY <1>1, WritingTyped DEF ArtInv
<1>10. \A b, m : \A d \in Authors : Telling(d, b, m)' <=> d # c /\ Telling(d, b, m)
  BY <1>1, WritingTyped DEF Telling, Reached
<1>11. \A b, m : GivenOut(b, m)' <=> GivenOut(b, m)
  BY <1>5 DEF GivenOut
<1>12. \A b \in Articles, m \in Nat : Telling(c, b, m) => b = a /\ m = n
  BY DEF Telling
<1>13. CASE news' = Append(news, [article |-> a, number |-> n]) /\ unsaid' = unsaid
  <2>1. /\ DOMAIN news' = DOMAIN news \cup {Len(news) + 1} /\ Len(news) + 1 \notin DOMAIN news
        /\ \A i \in DOMAIN news : news'[i] = news[i]
        /\ news'[Len(news) + 1] = told
    BY <1>2, <1>3, <1>13, AppendProperties
  <2>2. told.article = a /\ told.number = n
    BY <1>2
  <2>3. \A i, b, m : ToldAs(i, b, m)' <=> ToldAs(i, b, m) \/ (i = Len(news) + 1 /\ b = a /\ m = n)
    BY <2>1, <2>2 DEF ToldAs
  <2>4. AnnouncedFits'
    <3> SUFFICES ASSUME NEW b \in Articles, NEW m \in Nat
                 PROVE  AnnouncementFits(b, m)'
      BY DEF AnnouncedFits
    <3>1. AnnouncementFits(b, m)
      BY DEF ArtInv, AnnouncedFits
    <3>2. CASE b = a /\ m = n
      <4>1. /\ GivenOut(b, m) /\ <<b, m>> \notin unsaid /\ \A i : ~ToldAs(i, b, m)
            /\ \A x \in Authors : Telling(x, b, m) => x = c
        BY <3>1, <3>2 DEF AnnouncementFits
      <4> QED BY <1>5, <1>10, <1>11, <1>13, <2>3, <3>2, <4>1 DEF AnnouncementFits
    <3>3. CASE ~(b = a /\ m = n)
      <4>1. \A i : ToldAs(i, b, m)' <=> ToldAs(i, b, m)
        BY <2>3, <3>3
      <4>2. \A d \in Authors : Telling(d, b, m)' <=> Telling(d, b, m)
        BY <1>10, <1>12, <3>3
      <4> QED BY <1>5, <1>11, <1>13, <3>1, <4>1, <4>2 DEF AnnouncementFits
    <3> QED BY <3>2, <3>3
  <2> QED BY <1>4, <1>6, <1>7, <1>8, <1>9, <2>4 DEF ArtInv
<1>14. CASE unsaid' = unsaid \cup {<<a, n>>} /\ news' = news
  <2>1. \A i, b, m : ToldAs(i, b, m)' <=> ToldAs(i, b, m)
    BY <1>14 DEF ToldAs
  <2>2. \A b, m : <<b, m>> \in unsaid' <=> <<b, m>> \in unsaid \/ (b = a /\ m = n)
    BY <1>14
  <2>3. AnnouncedFits'
    <3> SUFFICES ASSUME NEW b \in Articles, NEW m \in Nat
                 PROVE  AnnouncementFits(b, m)'
      BY DEF AnnouncedFits
    <3>1. AnnouncementFits(b, m)
      BY DEF ArtInv, AnnouncedFits
    <3>2. CASE b = a /\ m = n
      <4>1. /\ GivenOut(b, m) /\ \A i : ~ToldAs(i, b, m)
            /\ \A x \in Authors : Telling(x, b, m) => x = c
        BY <3>1, <3>2 DEF AnnouncementFits
      <4> QED BY <1>5, <1>10, <1>11, <2>1, <2>2, <3>2, <4>1 DEF AnnouncementFits
    <3>3. CASE ~(b = a /\ m = n)
      <4>1. <<b, m>> \in unsaid' <=> <<b, m>> \in unsaid
        BY <2>2, <3>3
      <4>2. \A d \in Authors : Telling(d, b, m)' <=> Telling(d, b, m)
        BY <1>10, <1>12, <3>3
      <4> QED BY <1>5, <1>11, <2>1, <3>1, <4>1, <4>2 DEF AnnouncementFits
    <3> QED BY <3>2, <3>3
  <2> QED BY <1>4, <1>6, <1>7, <1>8, <1>9, <2>3 DEF ArtInv
<1> QED BY <1>13, <1>14

LEMMA AnnounceStep ==
  ASSUME ArtInv, NEW c \in Authors, AnnounceVersion(c) \/ NotAnnounced(c)
  PROVE  ArtInv'
<1>1. PICK q \in Writing : /\ q = author[c] /\ KeepsArticle(q)
                           /\ q.op = "publish" /\ q.pc = "committed"
  BY DEF ArtInv, ArticleTypeOK, AnnounceVersion, NotAnnounced, Reached
<1>2. PICK a \in Articles, n \in Nat : a = q.article /\ n = q.number
  BY <1>1 DEF KeepsArticle, Writing
<1>3. Telling(c, a, n)
  BY <1>1, <1>2 DEF Telling, Reached
<1>4. author' = [author EXCEPT ![c] = NoWriting] /\ UNCHANGED <<article, snapshots, kbLinks>>
  BY DEF AnnounceVersion, NotAnnounced, Finishes
<1>5. \/ news' = Append(news, [article |-> a, number |-> n]) /\ unsaid' = unsaid
      \/ unsaid' = unsaid \cup {<<a, n>>} /\ news' = news
  BY <1>1, <1>2 DEF AnnounceVersion, NotAnnounced
<1> QED BY <1>3, <1>4, <1>5, AnnouncementEnds

\* Snapshots and links go with the article, and what was given out is gone with it.
LEMMA DeleteWriteStep ==
  ASSUME ArtInv, NEW c \in Authors, DeleteWrite(c)
  PROVE  ArtInv'
<1>1. PICK q \in Writing : q = author[c] /\ KeepsArticle(q) /\ q.op = "delete" /\ q.pc = "read"
  BY DEF ArtInv, ArticleTypeOK, DeleteWrite, Reached
<1>2. PICK a \in Articles : a = q.article /\ article[a].status # "NONE"
  BY <1>1 DEF KeepsArticle
<1>3. PICK row \in Article : row = [NoArticleRow EXCEPT !.status = "GONE"]
  BY WritingTyped DEF Article, ArticleStatus
<1>4. row.status = "GONE" /\ row.number = 1
  BY <1>3, WritingTyped DEF Article
<1>5. /\ article' = [article EXCEPT ![a] = row]
      /\ snapshots' = {v \in snapshots : v.article # a}
      /\ kbLinks' = {l \in kbLinks : l[1] # a}
      /\ author' = [author EXCEPT ![c] = NoWriting]
      /\ UNCHANGED <<news, unsaid>>
  BY <1>1, <1>2, <1>3 DEF DeleteWrite, Finishes
<1>6. \A b \in Articles : article'[b] = IF b = a THEN row ELSE article[b]
  BY <1>5 DEF ArtInv, ArticleTypeOK
<1>7. \A d \in Authors : author'[d] = IF d = c THEN NoWriting ELSE author[d]
  BY <1>5 DEF ArtInv, ArticleTypeOK
<1>8. ArticleTypeOK'
  <2>1. article' \in [Articles -> Article] /\ author' \in [Authors -> Writing]
    BY <1>5, WritingTyped DEF ArtInv, ArticleTypeOK
  <2> QED BY <1>5, <2>1 DEF ArtInv, ArticleTypeOK
<1>9. \A b : Numbers(b)' = IF b = a THEN {} ELSE Numbers(b)
  <2> SUFFICES ASSUME NEW b
               PROVE  Numbers(b)' = IF b = a THEN {} ELSE Numbers(b)
    OBVIOUS
  <2>1. \A m : m \in Numbers(b)' <=>
               \E x \in snapshots : x.article # a /\ x.article = b /\ x.number = m
    BY <1>5 DEF Numbers
  <2>2. \A m : m \in Numbers(b) <=> \E x \in snapshots : x.article = b /\ x.number = m
    BY DEF Numbers
  <2>3. CASE b = a
    BY <2>1, <2>3
  <2>4. CASE b # a
    <3>1. \A m : m \in Numbers(b)' <=> m \in Numbers(b)
      BY <2>1, <2>2, <2>4
    <3> QED BY <2>4, <3>1
  <2> QED BY <2>3, <2>4
<1>10. \A b \in Articles : NumbersFit(article[b].status, article[b].number, Numbers(b))'
  BY <1>4, <1>6, <1>9 DEF ArtInv, NumbersFit
<1>11. SnapshotsAreFaithful' /\ LinksLead'
  <2>1. \A l \in kbLinks : l[1] \in Articles
    BY DEF ArtInv, ArticleTypeOK
  <2> QED BY <1>5, <1>6, <2>1 DEF ArtInv, SnapshotsAreFaithful, LinksLead, Exists
<1>12. ASSUME NEW d \in Authors PROVE KeepsArticle(author[d])' /\ PublicationFits(author[d])'
  <2>1. CASE d = c
    BY <1>7, <2>1, WritingTyped DEF KeepsArticle, PublicationFits
  <2>2. CASE d # c
    <3>1. PICK x \in Writing : x = author'[d] /\ KeepsArticle(x) /\ PublicationFits(x)
      BY <1>7, <2>2 DEF ArtInv, ArticleTypeOK
    <3>2. KeepsArticle(x)'
      BY <1>2, <1>4, <1>6, <3>1 DEF KeepsArticle
    <3>3. PublicationFits(x)'
      <4>1. CASE x.article = a
        BY <1>4, <1>6, <4>1 DEF PublicationFits, Exists
      <4>2. CASE x.article # a
        <5> SUFFICES ASSUME x.op = "publish", x.pc = "read", Exists(x.article)'
                     PROVE  (/\ x.number \in 1..(article[x.article].number + 1)
                             /\ Numbers(x.article) = {} => x.number = 1
                             /\ x.content = article[x.article].content \/ x.raced)'
          BY DEF PublicationFits
        <5>1. x.article \in Articles
          BY <3>1 DEF KeepsArticle
        <5>2. article'[x.article] = article[x.article] /\ Numbers(x.article)' = Numbers(x.article)
          BY <1>6, <1>9, <4>2, <5>1
        <5> QED BY <3>1, <5>2 DEF PublicationFits, Exists
      <4> QED BY <4>1, <4>2
    <3> QED BY <3>1, <3>2, <3>3 DEF KeepsArticle, PublicationFits
  <2> QED BY <2>1, <2>2
<1>13. (\A d, x \in Authors : d # x /\ author[d].op = "create" /\ author[x].op = "create" =>
                                author[d].article # author[x].article)'
  BY <1>7, WritingTyped DEF ArtInv
<1>14. \A d \in Authors, b \in Articles, n \in Nat : Telling(d, b, n)' <=> Telling(d, b, n)
  BY <1>1, <1>7, WritingTyped DEF Telling, Reached
<1>15. \A b \in Articles, n \in Nat : /\ GivenOut(b, n) => GivenOut(b, n)'
                                      /\ n \in Numbers(b)' => n \in Numbers(b)
  BY <1>4, <1>6, <1>9 DEF GivenOut
<1>16. AnnouncedFits'
  BY <1>5, <1>14, <1>15, AnnouncedKept DEF ArtInv
<1> QED BY <1>8, <1>10, <1>11, <1>12, <1>13, <1>16 DEF ArtInv

\* Only links change, and they lead to articles.
LEMMA LinksChange ==
  ASSUME ArtInv, UNCHANGED <<article, snapshots, news, author, unsaid>>,
         kbLinks' \subseteq Articles \X KbTickets, \A l \in kbLinks' : Exists(l[1])
  PROVE  ArtInv'
<1>1. ArticleTypeOK'
  BY DEF ArtInv, ArticleTypeOK
<1>2. \A b : Numbers(b)' = Numbers(b)
  BY NumbersStay
<1>3. SnapshotsAreFaithful' /\ LinksLead'
  BY DEF ArtInv, SnapshotsAreFaithful, LinksLead, Exists
<1>4. \A b \in Articles : NumbersFit(article[b].status, article[b].number, Numbers(b))'
  BY <1>2 DEF ArtInv, NumbersFit
<1>5. \A d \in Authors : KeepsArticle(author[d])' /\ PublicationFits(author[d])'
  BY <1>2 DEF ArtInv, KeepsArticle, PublicationFits, Exists
<1>6. AnnouncedFits'
  <2>1. \A d \in Authors, b \in Articles, n \in Nat : Telling(d, b, n)' <=> Telling(d, b, n)
    BY DEF Telling, Reached
  <2>2. \A b \in Articles, n \in Nat : /\ GivenOut(b, n) => GivenOut(b, n)'
                                       /\ n \in Numbers(b)' => n \in Numbers(b)
    BY <1>2 DEF GivenOut
  <2> QED BY <2>1, <2>2, AnnouncedKept DEF ArtInv
<1> QED BY <1>1, <1>3, <1>4, <1>5, <1>6 DEF ArtInv

LEMMA LinkWriteStep ==
  ASSUME ArtInv, NEW c \in Authors, LinkWrite(c)
  PROVE  ArtInv'
<1>1. PICK q \in Writing : q = author[c] /\ KeepsArticle(q) /\ q.op = "link" /\ q.pc = "read"
  BY DEF ArtInv, ArticleTypeOK, LinkWrite, Reached
<1>2. PICK a \in Articles, t \in KbTickets : a = q.article /\ t = q.ticket
  BY <1>1 DEF KeepsArticle
<1>3. PICK link \in Articles \X KbTickets : link = <<a, t>> /\ link[1] = a
  <2>1. <<a, t>> \in Articles \X KbTickets /\ <<a, t>>[1] = a
    OBVIOUS
  <2> QED BY <2>1
<1>4. kbLinks \subseteq Articles \X KbTickets /\ \A l \in kbLinks : Exists(l[1])
  BY DEF ArtInv, ArticleTypeOK, LinksLead
<1>5. kbLinks' = IF Exists(a) THEN kbLinks \cup {link} ELSE kbLinks
  BY <1>1, <1>2, <1>3 DEF LinkWrite
<1>6. kbLinks' \subseteq Articles \X KbTickets /\ \A l \in kbLinks' : Exists(l[1])
  BY <1>3, <1>4, <1>5
<1>7. KeepsArticle(NoWriting) /\ PublicationFits(NoWriting) /\ Quiet(NoWriting) /\ Quiet(author[c])
  BY <1>1, WritingTyped DEF KeepsArticle, PublicationFits, Quiet
<1>8. author' = [author EXCEPT ![c] = NoWriting] /\ UNCHANGED <<article, snapshots, news, unsaid>>
  BY DEF LinkWrite, Finishes
<1> QED BY <1>6, <1>7, <1>8, WritingTyped, ArticleCallGoesOn

LEMMA ArtStart == ArticleInit => ArtInv
<1> SUFFICES ASSUME ArticleInit
             PROVE  ArtInv
  OBVIOUS
<1>1. /\ \A a \in Articles : article[a] = NoArticleRow
      /\ \A c \in Authors : author[c] = NoWriting
      /\ snapshots = {} /\ news = <<>> /\ kbLinks = {} /\ unsaid = {}
  BY DEF ArticleInit
<1>2. ArticleTypeOK
  <2>1. news \in Seq([article : Articles, number : Nat])
    BY <1>1
  <2> QED BY <1>1, <2>1, WritingTyped DEF ArticleInit, ArticleTypeOK
<1>3. \A a : Numbers(a) = {}
  BY <1>1 DEF Numbers
<1>4. \A a \in Articles : NumbersFit(article[a].status, article[a].number, Numbers(a))
  BY <1>1, <1>3, WritingTyped DEF NumbersFit
<1>5. SnapshotsAreFaithful /\ LinksLead
  BY <1>1 DEF SnapshotsAreFaithful, LinksLead
<1>6. \A c \in Authors : KeepsArticle(author[c]) /\ PublicationFits(author[c])
  BY <1>1, WritingTyped DEF KeepsArticle, PublicationFits
<1>7. AnnouncedFits
  BY <1>1, <1>3, WritingTyped DEF AnnouncedFits, AnnouncementFits, ToldAs, Telling, Reached
<1> QED BY <1>1, <1>2, <1>4, <1>5, <1>6, <1>7, WritingTyped DEF ArtInv

LEMMA ArtStep == ArtInv /\ [ArticleNext]_articleVars => ArtInv'
<1> SUFFICES ASSUME ArtInv, [ArticleNext]_articleVars
             PROVE  ArtInv'
  OBVIOUS
<1>1. ASSUME NEW c \in Authors, NEW s \in Slugs, NEW x \in Contents, CreateRead(c, s, x)
      PROVE  ArtInv'
  BY <1>1, CreateReadStep
<1>2. ASSUME NEW c \in Authors, NEW a \in Articles, NEW s \in Slugs \cup {NoSlug},
             NEW x \in Contents, UpdateRead(c, a, s, x)
      PROVE  ArtInv'
  BY <1>2, UpdateReadStep
<1>3. ASSUME NEW c \in Authors, NEW a \in Articles, PublishRead(c, a)
      PROVE  ArtInv'
  BY <1>3, PublishReadStep
<1>4. ASSUME NEW c \in Authors, NEW a \in Articles, ArchiveRead(c, a) \/ DeleteRead(c, a)
      PROVE  ArtInv'
  BY <1>4, LookUpStep DEF ArchiveRead, DeleteRead
<1>5. ASSUME NEW c \in Authors, NEW a \in Articles, NEW t \in KbTickets, LinkRead(c, a, t)
      PROVE  ArtInv'
  BY <1>5, LookUpStep DEF LinkRead
<1>6. ASSUME NEW c \in Authors, CreateInsert(c) \/ UpdateWrite(c) \/ ArchiveWrite(c)
      PROVE  ArtInv'
  BY <1>6, CreateInsertStep, UpdateWriteStep, ArchiveWriteStep
<1>7. ASSUME NEW c \in Authors,
             PublishCommit(c) \/ PublishRefused(c) \/ AnnounceVersion(c) \/ NotAnnounced(c)
      PROVE  ArtInv'
  BY <1>7, PublishCommitStep, PublishRefusedStep, AnnounceStep
<1>8. ASSUME NEW c \in Authors, DeleteWrite(c) \/ LinkWrite(c)
      PROVE  ArtInv'
  BY <1>8, DeleteWriteStep, LinkWriteStep
<1>9. ASSUME NEW l \in kbLinks, UnlinkTicket(l)
      PROVE  ArtInv'
  <2>1. kbLinks' \subseteq Articles \X KbTickets /\ \A k \in kbLinks' : Exists(k[1])
    BY <1>9 DEF UnlinkTicket, ArtInv, ArticleTypeOK, LinksLead
  <2> QED BY <1>9, <2>1, LinksChange DEF UnlinkTicket
<1>10. ASSUME UNCHANGED articleVars
       PROVE  ArtInv'
  BY <1>10, LinksAsTheyAre, LinksChange DEF articleVars
<1> QED BY <1>1, <1>2, <1>3, <1>4, <1>5, <1>6, <1>7, <1>8, <1>9, <1>10 DEF ArticleNext

LEMMA ArtHolds == ArtInv => ArticleTypeOK /\ ArticlesSound
<1> SUFFICES ASSUME ArtInv
             PROVE  ArticleTypeOK /\ ArticlesSound
  OBVIOUS
<1>1. ArticleTypeOK
  BY DEF ArtInv
<1>2. VersionsAreDense
  <2> SUFFICES ASSUME NEW a \in Articles
               PROVE  CASE article[a].status \in {"NONE", "DRAFT", "GONE"} -> Numbers(a) = {}
                        [] article[a].status = "PUBLISHED" -> Numbers(a) = 1..article[a].number
                        [] article[a].status = "ARCHIVED" ->
                             Numbers(a) \in {{}, 1..article[a].number}
    BY DEF VersionsAreDense
  <2>1. NumbersFit(article[a].status, article[a].number, Numbers(a))
    BY DEF ArtInv
  <2>2. article[a].status \in {"NONE", "DRAFT", "GONE", "PUBLISHED", "ARCHIVED"}
    BY <1>1 DEF ArticleTypeOK, Article, ArticleStatus
  <2>3. CASE article[a].status \in {"NONE", "DRAFT", "GONE"}
    BY <2>1, <2>3 DEF NumbersFit
  <2>4. CASE article[a].status = "PUBLISHED"
    BY <2>1, <2>4 DEF NumbersFit
  <2>5. CASE article[a].status = "ARCHIVED"
    BY <2>1, <2>5 DEF NumbersFit
  <2> QED BY <2>2, <2>3, <2>4, <2>5
<1>3. AnnouncedOnce
  <2> SUFFICES ASSUME NEW v \in snapshots
               PROVE  LET told    == {i \in DOMAIN news : /\ news[i].article = v.article
                                                          /\ news[i].number = v.number}
                          telling == {c \in Authors : /\ Reached(c, "publish", "committed")
                                                      /\ author[c].article = v.article
                                                      /\ author[c].number = v.number} IN
                      /\ \A i, j \in told : i = j
                      /\ told = {} <=> telling # {} \/ <<v.article, v.number>> \in unsaid
    BY DEF AnnouncedOnce
  <2>1. PICK a \in Articles, n \in Nat : a = v.article /\ n = v.number
    BY <1>1 DEF ArticleTypeOK, Snapshot
  <2>2. AnnouncementFits(a, n)
    BY DEF ArtInv, AnnouncedFits
  <2>3. n \in Numbers(a)
    BY <2>1 DEF Numbers
  <2> QED BY <2>1, <2>2, <2>3 DEF AnnouncementFits, ToldAs, Telling
<1> QED BY <1>1, <1>2, <1>3 DEF ArtInv, ArticlesSound

\* The number a publication has read is the next one of its article, or is taken, whatever
\* edits, archiving and other publications have done since (publishArticle of
\* kb-articles.repository.ts, and the calls of kb-articles.service.ts around it).
THEOREM ArticleInvariant == ArticleSpec => []ArtInv
BY ArtStart, ArtStep, PTL DEF ArticleSpec

\* The versions of an article are numbered without a gap, say what it said, and are
\* announced once or lost with a crash; links lead to articles.
THEOREM ArticlesAreSound == ArticleSpec => []ArticlesSound
BY ArticleInvariant, ArtHolds, PTL

-----------------------------------------------------------------------------
(* The components side by side                                             *)

ReadersInv ==
  /\ part = "articles" => ArtInv
  /\ part = "inbox"    => InboxInv

\* What is said of articles and of a person's notifications holds for all values of the
\* constants, as the run has it on a small instance.
THEOREM ReadersAreSound == MCSpec => []ReadersSound
<1>1. MCInit => ReadersInv
  BY ArtStart, InboxStart DEF MCInit, ReadersInv
<1>2. ReadersInv /\ [MCNext]_<<part, vars, articleVars, inboxVars>> => ReadersInv'
  <2> SUFFICES ASSUME ReadersInv, [MCNext]_<<part, vars, articleVars, inboxVars>>
               PROVE  ReadersInv'
    OBVIOUS
  <2>1. /\ UNCHANGED part
        /\ part = "articles" => [ArticleNext]_articleVars
        /\ part = "inbox" => [InboxNext]_inboxVars
    BY DEF MCNext
  <2> QED BY <2>1, ArtStep, InboxStep DEF ReadersInv
<1>3. ReadersInv => ReadersSound
  BY ArtHolds, InboxHolds DEF ReadersInv, ReadersSound
<1> QED BY <1>1, <1>2, <1>3, PTL DEF MCSpec

=============================================================================
