--------------------------- MODULE Processes_proofs ---------------------------
(***************************************************************************)
(* Service requests, accounts, rate limits and the publication of           *)
(* configuration, for any number of API requests in progress, of rows and   *)
(* of steps.  What their operations promise is conditional on a history:    *)
(* "unless calls have overlapped", "unless the process died".  The          *)
(* invariants say what a call in progress still knows as long as the        *)
(* history is clean.  Last, the four side by side, as MCProcesses runs      *)
(* them.                                                                    *)
(***************************************************************************)
EXTENDS MCProcesses, FiniteSetTheorems, SequenceTheorems, TLAPS

-----------------------------------------------------------------------------
(* Service requests: the invariant                                         *)

\* What an operation has checked by the time it writes.
CallChecked(w) ==
  /\ w.op \in {"answers", "cancel", "fulfil"} /\ w.pc \in {"loaded", "planned"} =>
       w.saw \in Accepts(w.op)
  /\ w.op = "answers" /\ w.pc = "updated" => NeedsApproval(w.service) /\ w.saw = "NONE"

\* What a call still knows while nobody has written since it loaded the request.
CallKnows(w) ==
  w.alone /\ ~history.overlapped =>
    /\ w.op = "fulfil" /\ w.pc = "planned" => GatePasses \/ history.edited
    /\ w.op = "decide" /\ w.pc \in {"loaded", "planned", "updated"} =>
         request.status = "AWAITING_APPROVAL"
    /\ w.op = "decide" /\ w.pc = "updated" => w.seen = [approvals EXCEPT ![w.step] = w.decision]
    /\ w.op = "decide" /\ w.pc = "committed" => w.seen = approvals

\* A decision has been committed, and its call has yet to move the request.
Moving(c, refusing) ==
  On(c, "decide", "committed") /\ (refusing => call[c].decision # "APPROVED")

\* A request that awaits approval has a pending step, or a call about to move
\* it; and one about to refuse it, once a step refuses.
NeverAbandoned ==
  \/ history.overlapped
  \/ history.died
  \/ request.status = "AWAITING_APPROVAL" =>
       /\ approvals # <<>>
       /\ ~Has(approvals, "PENDING") => \E c \in Requesters : Moving(c, FALSE)
       /\ Has(approvals, "REJECTED") \/ Has(approvals, "CHANGES_REQUESTED") =>
            \E c \in Requesters : Moving(c, TRUE)

RequestInv ==
  /\ RequestTypeOK
  /\ OneTicketPerRequest
  /\ FulfilmentIsApproved
  /\ NeverAbandoned
  /\ \A c \in Requesters : CallChecked(call[c]) /\ CallKnows(call[c])

-----------------------------------------------------------------------------
(* Service requests: helpers                                               *)

LEMMA RequestStatuses ==
  RequestStatus = {"SUBMITTED", "AWAITING_APPROVAL", "APPROVED", "REJECTED", "CHANGES_REQUESTED",
                   "IN_FULFILLMENT", "COMPLETED", "CANCELLED"}
BY DEF RequestStatus, RequestTransitions

LEMMA NoCallSound == NoCall \in Call /\ CallChecked(NoCall) /\ CallKnows(NoCall) /\ NoCall.pc = "idle"
<1>1. NoCall \in Call
  BY EmptySeq DEF NoCall, Call, Service, ApprovalMode, Decision
<1> QED BY <1>1 DEF NoCall, CallChecked, CallKnows

LEMMA PendingTyped ==
  ASSUME NEW n \in Nat
  PROVE  /\ Pending(n) \in Seq(StepStatus)
         /\ \A st \in Decision : ~Has(Pending(n), st)
         /\ n > 0 => Pending(n) # <<>> /\ Has(Pending(n), "PENDING")
<1>1. Pending(n) \in Seq(StepStatus)
  BY DEF Pending, StepStatus
<1>2. \A i \in DOMAIN Pending(n) : Pending(n)[i] = "PENDING"
  BY DEF Pending
<1>3. n > 0 => 1 \in DOMAIN Pending(n)
  BY DEF Pending
<1>4. n > 0 => Pending(n) # <<>>
  BY <1>3
<1> QED BY <1>1, <1>2, <1>3, <1>4 DEF Has, Decision

LEMMA DecidedTyped ==
  ASSUME NEW ss \in Seq(StepStatus), NEW i \in Nat, NEW d \in Decision
  PROVE  /\ [ss EXCEPT ![i] = d] \in Seq(StepStatus)
         /\ ss # <<>> => [ss EXCEPT ![i] = d] # <<>>
         /\ \A st \in StepStatus : Has([ss EXCEPT ![i] = d], st) => Has(ss, st) \/ st = d
<1> DEFINE q == [ss EXCEPT ![i] = d]
<1>1. DOMAIN q = DOMAIN ss /\ \A j \in DOMAIN ss : q[j] = IF j = i THEN d ELSE ss[j]
  OBVIOUS
<1>2. q \in Seq(StepStatus)
  <2>1. d \in StepStatus
    BY DEF StepStatus
  <2>2. CASE i \in 1..Len(ss)
    BY <2>1, <2>2, ExceptSeq
  <2>3. CASE i \notin 1..Len(ss)
    <3>1. q = ss
      BY <2>3
    <3> QED BY <3>1
  <2> QED BY <2>2, <2>3
<1>3. ss # <<>> => q # <<>>
  <2>1. Len(q) = Len(ss)
    OBVIOUS
  <2> QED BY <1>2, <2>1
<1> QED BY <1>1, <1>2, <1>3 DEF Has

\* The gate passes once every step has approved, in every mode.
LEMMA AllApprovedPasses ==
  ASSUME NEW ss \in Seq(StepStatus), ss # <<>>, NEW mode \in ApprovalMode,
         ~Has(ss, "PENDING"), ~Has(ss, "REJECTED"), ~Has(ss, "CHANGES_REQUESTED")
  PROVE  EvaluateApprovalGate(mode, ss) = "PASSED"
<1>1. \A i \in DOMAIN ss : ss[i] = "APPROVED"
  BY DEF Has, StepStatus, Decision
<1>2. 1 \in DOMAIN ss
  OBVIOUS
<1>3. First(ss, Decided) = "APPROVED"
  <2>1. /\ 1 \in DOMAIN ss /\ Decided(ss[1])
        /\ \A j \in 1..(1 - 1) : ~Decided(ss[j])
    BY <1>1, <1>2 DEF Decided
  <2>2. \E i \in DOMAIN ss : Decided(ss[i]) /\ \A j \in 1..(i - 1) : ~Decided(ss[j])
    BY <2>1
  <2>3. (CHOOSE i \in DOMAIN ss : Decided(ss[i]) /\ \A j \in 1..(i - 1) : ~Decided(ss[j])) \in DOMAIN ss
    BY <2>2
  <2> QED BY <1>1, <2>3 DEF First
<1>4. ~(\A i \in DOMAIN ss : ~Decided(ss[i]))
  BY <1>1, <1>2 DEF Decided
<1> QED BY <1>1, <1>3, <1>4 DEF EvaluateApprovalGate, ApprovalMode

\* A decision leads to itself, or an approval to "APPROVED" or to more waiting.
LEMMA OutcomeOf ==
  ASSUME NEW mode, NEW ss, NEW d \in Decision
  PROVE  /\ StepDecisionOutcome(mode, ss, d) \in Decision \cup {"AWAITING_APPROVAL"}
         /\ d # "APPROVED" => StepDecisionOutcome(mode, ss, d) = d
         /\ d = "APPROVED" /\ EvaluateApprovalGate(mode, ss) = "PASSED" =>
              StepDecisionOutcome(mode, ss, d) = "APPROVED"
BY DEF StepDecisionOutcome, Decision

\* What a committed write leaves of the calls: the writer goes on as next, and
\* no other call under way is alone any more.
LEMMA Noted ==
  ASSUME RequestTypeOK, NEW c \in Requesters, NEW next \in Call, NotedWrite(c, next)
  PROVE  /\ call' \in [Requesters -> Call]
         /\ history' \in [edited : BOOLEAN, overlapped : BOOLEAN, died : BOOLEAN]
         /\ history'.edited = history.edited /\ history'.died = history.died
         /\ ~history'.overlapped => ~history.overlapped /\ call[c].alone
         /\ call'[c].op = next.op /\ call'[c].pc = next.pc /\ call'[c].saw = next.saw
         /\ call'[c].service = next.service /\ call'[c].step = next.step
         /\ call'[c].decision = next.decision /\ call'[c].seen = next.seen
         /\ ~history'.overlapped /\ call'[c].alone => next.alone
         /\ \A d \in Requesters \ {c} :
              /\ call'[d].op = call[d].op /\ call'[d].pc = call[d].pc /\ call'[d].saw = call[d].saw
              /\ call'[d].service = call[d].service /\ call'[d].decision = call[d].decision
              /\ ~history'.overlapped /\ call'[d].alone => call[d].pc = "idle"
<1> DEFINE ov == history.overlapped \/ ~call[c].alone
<1>1. ov \in BOOLEAN /\ history.overlapped \in BOOLEAN /\ call[c].alone \in BOOLEAN
  BY DEF RequestTypeOK, Call
<1>2. /\ call' = [d \in Requesters |->
                    [(IF d = c THEN next ELSE call[d]) EXCEPT
                       !.alone = ov \/ (@ /\ (d = c \/ call[d].pc = "idle"))]]
      /\ history' = [history EXCEPT !.overlapped = ov]
  BY DEF NotedWrite
<1>3. ~ov => ~history.overlapped /\ call[c].alone
  BY <1>1
<1> HIDE DEF ov
<1>4. /\ history' \in [edited : BOOLEAN, overlapped : BOOLEAN, died : BOOLEAN]
      /\ history'.edited = history.edited /\ history'.died = history.died
      /\ history'.overlapped = ov
  BY <1>1, <1>2 DEF RequestTypeOK
<1>5. ASSUME NEW w \in Call, NEW alone \in BOOLEAN
      PROVE  /\ [w EXCEPT !.alone = alone] \in Call
             /\ [w EXCEPT !.alone = alone].alone = alone
             /\ [w EXCEPT !.alone = alone].op = w.op /\ [w EXCEPT !.alone = alone].pc = w.pc
             /\ [w EXCEPT !.alone = alone].saw = w.saw
             /\ [w EXCEPT !.alone = alone].service = w.service
             /\ [w EXCEPT !.alone = alone].step = w.step
             /\ [w EXCEPT !.alone = alone].decision = w.decision
             /\ [w EXCEPT !.alone = alone].seen = w.seen
  BY DEF Call
<1> DEFINE AloneOf(d) == ov \/ ((IF d = c THEN next ELSE call[d]).alone /\ (d = c \/ call[d].pc = "idle"))
<1>6. ASSUME NEW d \in Requesters
      PROVE  /\ AloneOf(d) \in BOOLEAN
             /\ (IF d = c THEN next ELSE call[d]) \in Call
             /\ call'[d] = [(IF d = c THEN next ELSE call[d]) EXCEPT !.alone = AloneOf(d)]
  <2>1. (IF d = c THEN next ELSE call[d]) \in Call
    BY DEF RequestTypeOK
  <2>2. AloneOf(d) \in BOOLEAN
    BY <1>1 DEF ov
  <2>3. call'[d] = [(IF d = c THEN next ELSE call[d]) EXCEPT !.alone = AloneOf(d)]
    BY <1>2
  <2> QED BY <2>1, <2>2, <2>3
<1>7. AloneOf(c) <=> (ov \/ next.alone)
  OBVIOUS
<1>8. \A d \in Requesters \ {c} : AloneOf(d) => ov \/ call[d].pc = "idle"
  OBVIOUS
<1> HIDE DEF AloneOf
<1>9. call' \in [Requesters -> Call]
  <2>1. ASSUME NEW d \in Requesters PROVE call'[d] \in Call
    <3> DEFINE w == IF d = c THEN next ELSE call[d]
    <3>1. w \in Call /\ AloneOf(d) \in BOOLEAN /\ call'[d] = [w EXCEPT !.alone = AloneOf(d)]
      BY <1>6
    <3> HIDE DEF w
    <3> QED BY <1>5, <3>1
  <2>2. call' = [d \in Requesters |-> call'[d]]
    <3> DEFINE F(d) == [(IF d = c THEN next ELSE call[d]) EXCEPT
                          !.alone = ov \/ (@ /\ (d = c \/ call[d].pc = "idle"))]
    <3>1. call' = [d \in Requesters |-> F(d)]
      BY <1>2
    <3> HIDE DEF F
    <3> QED BY <3>1
  <2> QED BY <2>1, <2>2
<1>10. call'[c] = [next EXCEPT !.alone = AloneOf(c)] /\ AloneOf(c) \in BOOLEAN
  BY <1>6
<1>11. \A d \in Requesters \ {c} : /\ call'[d] = [call[d] EXCEPT !.alone = AloneOf(d)]
                                   /\ AloneOf(d) \in BOOLEAN /\ call[d] \in Call
  BY <1>6 DEF RequestTypeOK
<1>12. /\ call'[c].op = next.op /\ call'[c].pc = next.pc /\ call'[c].saw = next.saw
       /\ call'[c].service = next.service /\ call'[c].step = next.step
       /\ call'[c].decision = next.decision /\ call'[c].seen = next.seen
       /\ call'[c].alone = AloneOf(c)
  BY <1>5, <1>10
<1>13. \A d \in Requesters \ {c} :
         /\ call'[d].op = call[d].op /\ call'[d].pc = call[d].pc /\ call'[d].saw = call[d].saw
         /\ call'[d].service = call[d].service /\ call'[d].decision = call[d].decision
         /\ call'[d].alone = AloneOf(d)
  <2> SUFFICES ASSUME NEW d \in Requesters \ {c}
               PROVE  /\ call'[d].op = call[d].op /\ call'[d].pc = call[d].pc
                      /\ call'[d].saw = call[d].saw /\ call'[d].service = call[d].service
                      /\ call'[d].decision = call[d].decision /\ call'[d].alone = AloneOf(d)
    OBVIOUS
  <2>1. call'[d] = [call[d] EXCEPT !.alone = AloneOf(d)] /\ AloneOf(d) \in BOOLEAN /\ call[d] \in Call
    BY <1>11
  <2> QED BY <1>5, <2>1
<1>14. ~history'.overlapped => ~history.overlapped /\ call[c].alone
  BY <1>3, <1>4
<1>15. ~history'.overlapped /\ call'[c].alone => next.alone
  BY <1>4, <1>7, <1>12
<1>16. \A d \in Requesters \ {c} : ~history'.overlapped /\ call'[d].alone => call[d].pc = "idle"
  BY <1>4, <1>8, <1>13
<1> QED BY <1>4, <1>9, <1>12, <1>13, <1>14, <1>15, <1>16

-----------------------------------------------------------------------------
(* Service requests: steps                                                 *)

\* A step that only reads: the call's next record says all of it.
LEMMA RequestRead ==
  ASSUME RequestInv, NEW c \in Requesters, NEW q \in Call, CallChecked(q), CallKnows(q),
         call[c].pc # "committed", call' = [call EXCEPT ![c] = q],
         UNCHANGED <<service, request, approvals, tickets, edits, history>>
  PROVE  RequestInv'
<1>1. call'[c] = q /\ \A d \in Requesters \ {c} : call'[d] = call[d]
  BY DEF RequestInv, RequestTypeOK
<1>2. RequestTypeOK'
  BY DEF RequestInv, RequestTypeOK
<1>3. OneTicketPerRequest' /\ FulfilmentIsApproved'
  BY DEF RequestInv, OneTicketPerRequest, FulfilmentIsApproved, GatePasses
<1>4. \A d \in Requesters, r \in BOOLEAN : Moving(d, r) => Moving(d, r)'
  BY <1>1 DEF Moving, On
<1>5. NeverAbandoned'
  BY <1>4 DEF RequestInv, NeverAbandoned
<1>6. ASSUME NEW d \in Requesters PROVE CallChecked(call[d])' /\ CallKnows(call[d])'
  <2>1. CallChecked(call'[d]) /\ CallKnows(call'[d])
    BY <1>1 DEF RequestInv
  <2> QED BY <2>1 DEF CallChecked, CallKnows, GatePasses
<1> QED BY <1>2, <1>3, <1>5, <1>6 DEF RequestInv

\* A step that writes, with what is particular to it.
LEMMA RequestWrite ==
  ASSUME RequestInv, NEW c \in Requesters, NEW next \in Call, NotedWrite(c, next), CallChecked(next),
         next.op # "fulfil",
         next.op = "decide" => /\ next.pc = "committed"
                               /\ ~history'.overlapped /\ next.alone => next.seen = approvals',
         request' \in [status : RequestStatus \cup {"NONE"}, cycle : Nat, ticket : BOOLEAN],
         approvals' \in Seq(StepStatus), tickets' \in Nat, service' = service, edits' = edits,
         OneTicketPerRequest', FulfilmentIsApproved', NeverAbandoned'
  PROVE  RequestInv'
<1>1. RequestTypeOK
  BY DEF RequestInv
<1>2. RequestTypeOK'
  BY <1>1, Noted DEF RequestTypeOK
<1>3. CallChecked(call[c])'
  BY <1>1, Noted DEF CallChecked
<1>4. CallKnows(call[c])'
  BY <1>1, Noted DEF CallKnows
<1>5. ASSUME NEW d \in Requesters, d # c PROVE CallChecked(call[d])' /\ CallKnows(call[d])'
  <2>1. /\ call'[d].op = call[d].op /\ call'[d].pc = call[d].pc /\ call'[d].saw = call[d].saw
        /\ call'[d].service = call[d].service
        /\ ~history'.overlapped /\ call'[d].alone => call[d].pc = "idle"
    BY <1>1, <1>5, Noted
  <2>2. CallChecked(call[d])
    BY DEF RequestInv
  <2>3. CallChecked(call[d])'
    BY <2>1, <2>2 DEF CallChecked
  <2>4. CallKnows(call[d])'
    BY <2>1 DEF CallKnows
  <2> QED BY <2>3, <2>4
<1> QED BY <1>2, <1>3, <1>4, <1>5 DEF RequestInv

\* Calls about to move the request are not stopped by what another call writes.
LEMMA OthersMove ==
  ASSUME RequestTypeOK, NEW c \in Requesters, NEW next \in Call, NotedWrite(c, next),
         NEW d \in Requesters, d # c, NEW r \in BOOLEAN, Moving(d, r)
  PROVE  Moving(d, r)'
BY Noted DEF Moving, On

\* Writes that leave the steps alone, and the request where it is or elsewhere
\* than awaiting approval, abandon nothing.
LEMMA GateKept ==
  ASSUME RequestInv, NEW c \in Requesters, NEW next \in Call, NotedWrite(c, next),
         call[c].pc # "committed", approvals' = approvals,
         request'.status = request.status \/ request'.status # "AWAITING_APPROVAL"
  PROVE  NeverAbandoned'
<1>1. RequestTypeOK /\ NeverAbandoned
  BY DEF RequestInv
<1>2. history'.died = history.died /\ (~history'.overlapped => ~history.overlapped)
  BY <1>1, Noted
<1>3. ASSUME NEW d \in Requesters, NEW r \in BOOLEAN, Moving(d, r) PROVE Moving(d, r)'
  <2>1. d # c
    BY <1>3 DEF Moving, On
  <2> QED BY <1>1, <1>3, <2>1, OthersMove
<1> QED BY <1>1, <1>2, <1>3 DEF NeverAbandoned

\* The gate of a request that has started stays satisfied.
LEMMA FulfilmentKept ==
  ASSUME RequestInv, NEW c \in Requesters, NEW next \in Call, NotedWrite(c, next),
         service' = service,
         \/ request'.status \notin {"IN_FULFILLMENT", "COMPLETED"}
         \/ /\ approvals' = approvals
            /\ request.status \in {"IN_FULFILLMENT", "COMPLETED"}
         \/ approvals' = approvals /\ (history'.overlapped \/ GatePasses \/ history.edited)
  PROVE  FulfilmentIsApproved'
<1>1. RequestTypeOK /\ FulfilmentIsApproved
  BY DEF RequestInv
<1>2. history'.edited = history.edited /\ (~history'.overlapped => ~history.overlapped)
  BY <1>1, Noted
<1>3. approvals' = approvals => (GatePasses' <=> GatePasses)
  BY DEF GatePasses
<1> QED BY <1>1, <1>2, <1>3 DEF FulfilmentIsApproved

\* transitionStatus moves the request or leaves it.
LEMMA TransitionTypes ==
  ASSUME RequestTypeOK, NEW from, NEW to \in RequestStatus, TransitionStatus(from, to)
  PROVE  /\ request' \in [status : RequestStatus \cup {"NONE"}, cycle : Nat, ticket : BOOLEAN]
         /\ request'.cycle = request.cycle /\ request'.ticket = request.ticket
         /\ request'.status = IF request.status = from THEN to ELSE request.status
BY DEF RequestTypeOK, TransitionStatus

LEMMA LoadSound ==
  ASSUME RequestInv, NEW c \in Requesters,
         NEW op \in {"answers", "cancel", "decide", "fulfil", "ticket", "complete"}, Load(c, op)
  PROVE  RequestInv'
<1> DEFINE q == [NoCall EXCEPT !.op = op, !.pc = "loaded", !.saw = request.status]
<1>1. /\ q.op = op /\ q.pc = "loaded" /\ q.saw = request.status /\ q \in Call
  BY NoCallSound DEF NoCall, Call, RequestInv, RequestTypeOK
<1>2. request.status \in Accepts(op) /\ call' = [call EXCEPT ![c] = q] /\ call[c].pc = "idle"
      /\ UNCHANGED <<service, request, approvals, tickets, edits, history>>
  BY DEF Load
<1> HIDE DEF q
<1>3. CallChecked(q)
  BY <1>1, <1>2 DEF CallChecked
<1>4. CallKnows(q)
  BY <1>1, <1>2 DEF CallKnows, Accepts
<1> QED BY <1>1, <1>2, <1>3, <1>4, RequestRead

LEMMA SubmitReadSound ==
  ASSUME RequestInv, NEW c \in Requesters, SubmitRead(c)
  PROVE  RequestInv'
<1> DEFINE q == [NoCall EXCEPT !.op = "submit", !.pc = "planned", !.service = service]
<1>1. q.op = "submit" /\ q \in Call
  BY NoCallSound DEF NoCall, Call, RequestInv, RequestTypeOK
<1>2. call' = [call EXCEPT ![c] = q] /\ call[c].pc = "idle"
      /\ UNCHANGED <<service, request, approvals, tickets, edits, history>>
  BY DEF SubmitRead
<1> HIDE DEF q
<1>3. CallChecked(q) /\ CallKnows(q)
  BY <1>1 DEF CallChecked, CallKnows
<1> QED BY <1>1, <1>2, <1>3, RequestRead

LEMMA AnswersReadSound ==
  ASSUME RequestInv, NEW c \in Requesters, AnswersRead(c)
  PROVE  RequestInv'
<1> DEFINE q == [call[c] EXCEPT !.pc = "planned", !.service = service]
<1>1. call[c] \in Call /\ service \in Service /\ CallChecked(call[c])
  BY DEF RequestInv, RequestTypeOK
<1>2. q.op = call[c].op /\ q.pc = "planned" /\ q.saw = call[c].saw /\ q \in Call
  BY <1>1 DEF Call
<1>3. call' = [call EXCEPT ![c] = q]
      /\ UNCHANGED <<service, request, approvals, tickets, edits, history>>
      /\ call[c].op = "answers" /\ call[c].pc = "loaded"
  BY <1>1 DEF AnswersRead, On, Call
<1> HIDE DEF q
<1>4. CallChecked(q) /\ CallKnows(q)
  BY <1>1, <1>2, <1>3 DEF CallChecked, CallKnows
<1> QED BY <1>2, <1>3, <1>4, RequestRead

LEMMA DecideReadSound ==
  ASSUME RequestInv, NEW c \in Requesters, NEW i \in 1..MaxSteps, NEW d \in Decision,
         DecideRead(c, i, d)
  PROVE  RequestInv'
<1> DEFINE q == [NoCall EXCEPT !.op = "decide", !.pc = "planned", !.step = i, !.cycle = request.cycle,
                               !.decision = d, !.alone = call[c].alone]
<1>1. call[c].alone \in BOOLEAN /\ request.cycle \in Nat /\ i \in Nat /\ CallKnows(call[c])
  BY DEF RequestInv, RequestTypeOK, Call
<1>2. q.op = "decide" /\ q.pc = "planned" /\ q.alone = call[c].alone /\ q \in Call
  BY <1>1, NoCallSound DEF NoCall, Call
<1>3. call' = [call EXCEPT ![c] = q]
      /\ UNCHANGED <<service, request, approvals, tickets, edits, history>>
      /\ call[c].op = "decide" /\ call[c].pc = "loaded"
  BY DEF DecideRead, On
<1> HIDE DEF q
<1>4. CallChecked(q) /\ CallKnows(q)
  BY <1>1, <1>2, <1>3 DEF CallChecked, CallKnows
<1> QED BY <1>2, <1>3, <1>4, RequestRead

LEMMA DecideUpdateSound ==
  ASSUME RequestInv, NEW c \in Requesters, DecideUpdate(c)
  PROVE  RequestInv'
<1> DEFINE seen == [approvals EXCEPT ![call[c].step] = call[c].decision]
           q == [call[c] EXCEPT !.pc = "updated", !.seen = seen]
<1>1. /\ call[c] \in Call /\ approvals \in Seq(StepStatus) /\ CallKnows(call[c])
      /\ call[c].step \in Nat /\ call[c].decision \in Decision
  BY DEF RequestInv, RequestTypeOK, Call
<1>2. seen \in Seq(StepStatus)
  BY <1>1, DecidedTyped
<1>3. call' = [call EXCEPT ![c] = q]
      /\ UNCHANGED <<service, request, approvals, tickets, edits, history>>
      /\ call[c].op = "decide" /\ call[c].pc = "planned"
  BY <1>1 DEF DecideUpdate, On, Call
<1> HIDE DEF seen
<1>4. /\ q.op = "decide" /\ q.pc = "updated" /\ q.alone = call[c].alone /\ q.seen = seen
      /\ q.step = call[c].step /\ q.decision = call[c].decision /\ q \in Call
  BY <1>1, <1>2, <1>3 DEF Call
<1> HIDE DEF q
<1>5. CallChecked(q) /\ CallKnows(q)
  BY <1>1, <1>3, <1>4 DEF CallChecked, CallKnows, seen
<1> QED BY <1>3, <1>4, <1>5, RequestRead

\* A gate that passes is still the gate when the request starts.
LEMMA FulfilGateSound ==
  ASSUME RequestInv, NEW c \in Requesters, FulfilGate(c)
  PROVE  RequestInv'
<1> DEFINE q == [call[c] EXCEPT !.pc = "planned"]
<1>1. call[c] \in Call /\ CallChecked(call[c])
  BY DEF RequestInv, RequestTypeOK
<1>2. q.op = call[c].op /\ q.pc = "planned" /\ q.saw = call[c].saw /\ q \in Call
  BY <1>1 DEF Call
<1>3. call' = [call EXCEPT ![c] = q] /\ GatePasses
      /\ UNCHANGED <<service, request, approvals, tickets, edits, history>>
      /\ call[c].op = "fulfil" /\ call[c].pc = "loaded"
  BY <1>1 DEF FulfilGate, On, Call
<1> HIDE DEF q
<1>4. CallChecked(q) /\ CallKnows(q)
  BY <1>1, <1>2, <1>3 DEF CallChecked, CallKnows
<1> QED BY <1>2, <1>3, <1>4, RequestRead

LEMMA TicketGateSound ==
  ASSUME RequestInv, NEW c \in Requesters, TicketGate(c)
  PROVE  RequestInv'
<1> DEFINE q == [call[c] EXCEPT !.pc = "planned", !.saw = "NONE"]
<1>1. call[c] \in Call
  BY DEF RequestInv, RequestTypeOK
<1>2. call' = [call EXCEPT ![c] = q]
      /\ UNCHANGED <<service, request, approvals, tickets, edits, history>>
      /\ call[c].op = "ticket" /\ call[c].pc = "loaded"
  BY <1>1 DEF TicketGate, On, Call
<1>3. q.op = "ticket" /\ q.pc = "planned" /\ q \in Call
  BY <1>1, <1>2 DEF Call
<1> HIDE DEF q
<1>4. CallChecked(q) /\ CallKnows(q)
  BY <1>3 DEF CallChecked, CallKnows
<1> QED BY <1>2, <1>3, <1>4, RequestRead

LEMMA RefuseSound ==
  ASSUME RequestInv, NEW c \in Requesters, Refuse(c)
  PROVE  RequestInv'
<1>1. call[c].pc # "committed" /\ call' = [call EXCEPT ![c] = NoCall]
      /\ UNCHANGED <<service, request, approvals, tickets, edits, history>>
  BY DEF Refuse
<1> QED BY <1>1, NoCallSound, RequestRead

\* A death is remembered; what else is known stays.
LEMMA DieSound ==
  ASSUME RequestInv, NEW c \in Requesters, Die(c)
  PROVE  RequestInv'
<1>1. /\ call' = [call EXCEPT ![c] = NoCall] /\ history' = [history EXCEPT !.died = TRUE]
      /\ UNCHANGED <<service, request, approvals, tickets, edits>>
  BY DEF Die
<1>2. /\ history'.died /\ history'.edited = history.edited
      /\ history'.overlapped = history.overlapped
      /\ history' \in [edited : BOOLEAN, overlapped : BOOLEAN, died : BOOLEAN]
  BY <1>1 DEF RequestInv, RequestTypeOK
<1>3. RequestTypeOK'
  BY <1>1, <1>2, NoCallSound DEF RequestInv, RequestTypeOK
<1>4. OneTicketPerRequest' /\ FulfilmentIsApproved' /\ NeverAbandoned'
  BY <1>1, <1>2 DEF RequestInv, OneTicketPerRequest, FulfilmentIsApproved, GatePasses, NeverAbandoned
<1>5. ASSUME NEW d \in Requesters PROVE CallChecked(call[d])' /\ CallKnows(call[d])'
  <2>1. CallChecked(call'[d]) /\ CallKnows(call'[d])
    BY <1>1, NoCallSound DEF RequestInv, RequestTypeOK
  <2> QED BY <1>1, <1>2, <2>1 DEF CallChecked, CallKnows, GatePasses
<1> QED BY <1>3, <1>4, <1>5 DEF RequestInv

LEMMA EditServiceSound ==
  ASSUME RequestInv, NEW s \in [mode : Modes, steps : 0..MaxSteps], EditService(s)
  PROVE  RequestInv'
<1>1. /\ service' = s /\ edits' = edits + 1 /\ history' = [history EXCEPT !.edited = TRUE]
      /\ UNCHANGED <<request, approvals, tickets, call>>
  BY DEF EditService
<1>2. /\ history'.edited /\ history'.died = history.died
      /\ history'.overlapped = history.overlapped
      /\ history' \in [edited : BOOLEAN, overlapped : BOOLEAN, died : BOOLEAN]
  BY <1>1 DEF RequestInv, RequestTypeOK
<1>3. RequestTypeOK'
  BY <1>1, <1>2, RequestConstants DEF RequestInv, RequestTypeOK, Service
<1>4. OneTicketPerRequest' /\ FulfilmentIsApproved'
  BY <1>1, <1>2 DEF RequestInv, OneTicketPerRequest, FulfilmentIsApproved
<1>5. NeverAbandoned'
  BY <1>1, <1>2 DEF RequestInv, NeverAbandoned, Moving, On
<1>6. ASSUME NEW d \in Requesters PROVE CallChecked(call[d])' /\ CallKnows(call[d])'
  <2>1. CallChecked(call[d]) /\ CallKnows(call[d])
    BY DEF RequestInv
  <2> QED BY <1>1, <1>2, <2>1 DEF CallChecked, CallKnows
<1> QED BY <1>3, <1>4, <1>5, <1>6 DEF RequestInv

LEMMA SubmitWriteSound ==
  ASSUME RequestInv, NEW c \in Requesters, SubmitWrite(c)
  PROVE  RequestInv'
<1> DEFINE s == call[c].service
<1>1. /\ RequestTypeOK /\ s.steps \in Nat /\ call[c].op = "submit" /\ request.status = "NONE"
  BY DEF RequestInv, RequestTypeOK, Call, Service, SubmitWrite, On
<1>2. /\ request' = [request EXCEPT !.status = IF NeedsApproval(s) THEN "AWAITING_APPROVAL"
                                               ELSE "SUBMITTED"]
      /\ approvals' = IF NeedsApproval(s) THEN Pending(s.steps) ELSE <<>>
      /\ NotedWrite(c, NoCall) /\ UNCHANGED <<service, tickets, edits>>
  BY DEF SubmitWrite
<1> HIDE DEF s
<1>3. /\ request' \in [status : RequestStatus \cup {"NONE"}, cycle : Nat, ticket : BOOLEAN]
      /\ request'.ticket = request.ticket
      /\ request'.status = IF NeedsApproval(s) THEN "AWAITING_APPROVAL" ELSE "SUBMITTED"
  BY <1>1, <1>2, RequestStatuses DEF RequestTypeOK
<1>4. approvals' \in Seq(StepStatus)
  BY <1>1, <1>2, PendingTyped, EmptySeq
<1>5. OneTicketPerRequest' /\ tickets' \in Nat
  BY <1>1, <1>2, <1>3 DEF RequestInv, OneTicketPerRequest, RequestTypeOK
<1>6. FulfilmentIsApproved'
  BY <1>2, <1>3, NoCallSound, FulfilmentKept
<1>7. NeverAbandoned'
  <2>1. CASE NeedsApproval(s)
    <3>1. approvals' = Pending(s.steps) /\ s.steps > 0
      BY <1>2, <2>1 DEF NeedsApproval
    <3>2. /\ approvals' # <<>> /\ Has(approvals', "PENDING")
          /\ ~Has(approvals', "REJECTED") /\ ~Has(approvals', "CHANGES_REQUESTED")
      BY <1>1, <3>1, PendingTyped DEF Decision
    <3> QED BY <3>2 DEF NeverAbandoned
  <2>2. CASE ~NeedsApproval(s)
    BY <1>3, <2>2 DEF NeverAbandoned
  <2> QED BY <2>1, <2>2
<1>8. NoCall.op = "none"
  BY DEF NoCall
<1> QED BY <1>2, <1>3, <1>4, <1>5, <1>6, <1>7, <1>8, NoCallSound, RequestWrite

LEMMA AnswersWriteSound ==
  ASSUME RequestInv, NEW c \in Requesters, AnswersWrite(c)
  PROVE  RequestInv'
<1> DEFINE resubmits == call[c].saw = "CHANGES_REQUESTED" /\ NeedsApproval(call[c].service)
           next == IF resubmits THEN [call[c] EXCEPT !.pc = "updated", !.saw = "NONE"] ELSE NoCall
<1>1. /\ RequestTypeOK /\ call[c] \in Call /\ call[c].op = "answers" /\ call[c].pc = "planned"
      /\ CallChecked(call[c])
  BY DEF RequestInv, RequestTypeOK, AnswersWrite, On
<1>2. call[c].saw \in {"SUBMITTED", "CHANGES_REQUESTED"}
  BY <1>1 DEF CallChecked, Accepts
<1>3. /\ request' = [request EXCEPT !.status = call[c].saw]
      /\ NotedWrite(c, next) /\ UNCHANGED <<service, approvals, tickets, edits>>
  BY DEF AnswersWrite
<1>4. next \in Call /\ CallChecked(next) /\ next.op # "fulfil" /\ next.op # "decide"
  <2>1. CASE resubmits
    <3> DEFINE w == [call[c] EXCEPT !.pc = "updated", !.saw = "NONE"]
    <3>1. w \in Call /\ w.op = "answers" /\ w.pc = "updated" /\ w.saw = "NONE"
          /\ w.service = call[c].service
      BY <1>1 DEF Call
    <3>2. next = w
      BY <2>1
    <3> HIDE DEF w, next
    <3> QED BY <2>1, <3>1, <3>2 DEF CallChecked
  <2>2. CASE ~resubmits
    BY <2>2, NoCallSound DEF NoCall
  <2> QED BY <2>1, <2>2
<1> HIDE DEF next, resubmits
<1>5. /\ request' \in [status : RequestStatus \cup {"NONE"}, cycle : Nat, ticket : BOOLEAN]
      /\ request'.ticket = request.ticket /\ request'.status = call[c].saw
  BY <1>1, <1>2, <1>3, RequestStatuses DEF RequestTypeOK
<1>6. OneTicketPerRequest' /\ tickets' \in Nat /\ approvals' \in Seq(StepStatus)
  BY <1>1, <1>3, <1>5 DEF RequestInv, OneTicketPerRequest, RequestTypeOK
<1>7. FulfilmentIsApproved'
  BY <1>2, <1>3, <1>4, <1>5, FulfilmentKept
<1>8. NeverAbandoned'
  BY <1>1, <1>2, <1>3, <1>4, <1>5, GateKept
<1> QED BY <1>3, <1>4, <1>5, <1>6, <1>7, <1>8, RequestWrite

LEMMA ResetSound ==
  ASSUME RequestInv, NEW c \in Requesters, ResetApprovalCycle(c)
  PROVE  RequestInv'
<1> DEFINE s == call[c].service
<1>1. /\ RequestTypeOK /\ s.steps \in Nat /\ call[c].op = "answers" /\ call[c].pc = "updated"
      /\ CallChecked(call[c])
  BY DEF RequestInv, RequestTypeOK, Call, Service, ResetApprovalCycle, On
<1>2. s.steps > 0
  BY <1>1 DEF CallChecked, NeedsApproval
<1>3. /\ request' = [request EXCEPT !.status = "AWAITING_APPROVAL", !.cycle = request.cycle + 1]
      /\ approvals' = Pending(s.steps)
      /\ NotedWrite(c, NoCall) /\ UNCHANGED <<service, tickets, edits>>
  BY DEF ResetApprovalCycle
<1> HIDE DEF s
<1>4. /\ request' \in [status : RequestStatus \cup {"NONE"}, cycle : Nat, ticket : BOOLEAN]
      /\ request'.ticket = request.ticket /\ request'.status = "AWAITING_APPROVAL"
  <2> DEFINE n == request.cycle + 1
  <2>1. /\ request \in [status : RequestStatus \cup {"NONE"}, cycle : Nat, ticket : BOOLEAN]
        /\ "AWAITING_APPROVAL" \in RequestStatus
    BY <1>1, RequestStatuses DEF RequestTypeOK
  <2>2. n \in Nat
    BY <2>1
  <2>3. request' = [request EXCEPT !.status = "AWAITING_APPROVAL", !.cycle = n]
    BY <1>3
  <2> HIDE DEF n
  <2> QED BY <2>1, <2>2, <2>3
<1>5. /\ approvals' \in Seq(StepStatus) /\ approvals' # <<>> /\ Has(approvals', "PENDING")
      /\ ~Has(approvals', "REJECTED") /\ ~Has(approvals', "CHANGES_REQUESTED")
  BY <1>1, <1>2, <1>3, PendingTyped DEF Decision
<1>6. OneTicketPerRequest' /\ tickets' \in Nat
  BY <1>1, <1>3, <1>4 DEF RequestInv, OneTicketPerRequest, RequestTypeOK
<1>7. FulfilmentIsApproved'
  BY <1>3, <1>4, NoCallSound, FulfilmentKept
<1>8. NeverAbandoned'
  BY <1>5 DEF NeverAbandoned
<1>9. NoCall.op = "none"
  BY DEF NoCall
<1> QED BY <1>3, <1>4, <1>5, <1>6, <1>7, <1>8, <1>9, NoCallSound, RequestWrite

\* A status change that names the status it starts from, and ends the call.
LEMMA MoveSound ==
  ASSUME RequestInv, NEW c \in Requesters, NEW from, NEW to \in RequestStatus,
         NEW next \in Call, NotedWrite(c, next), next.op \notin {"fulfil", "decide"},
         CallChecked(next), call[c].pc # "committed", TransitionStatus(from, to),
         to # "AWAITING_APPROVAL",
         \/ to \notin {"IN_FULFILLMENT", "COMPLETED"}
         \/ from = "IN_FULFILLMENT"
         \/ history'.overlapped \/ GatePasses \/ history.edited,
         UNCHANGED <<service, approvals, tickets, edits>>
  PROVE  RequestInv'
<1>1. RequestTypeOK
  BY DEF RequestInv
<1>2. /\ request' \in [status : RequestStatus \cup {"NONE"}, cycle : Nat, ticket : BOOLEAN]
      /\ request'.ticket = request.ticket
      /\ request'.status = IF request.status = from THEN to ELSE request.status
  BY <1>1, TransitionTypes
<1>3. OneTicketPerRequest' /\ tickets' \in Nat /\ approvals' \in Seq(StepStatus)
  BY <1>1, <1>2 DEF RequestInv, OneTicketPerRequest, RequestTypeOK
<1>4. FulfilmentIsApproved'
  BY <1>2, FulfilmentKept
<1>5. NeverAbandoned'
  BY <1>2, GateKept
<1> QED BY <1>2, <1>3, <1>4, <1>5, RequestWrite

LEMMA CancelSound ==
  ASSUME RequestInv, NEW c \in Requesters, CancelWrite(c)
  PROVE  RequestInv'
<1>1. NoCall.op = "none" /\ "CANCELLED" \in RequestStatus
  BY RequestStatuses DEF NoCall
<1>2. call[c].pc # "committed"
  BY DEF CancelWrite, On
<1> QED BY <1>1, <1>2, NoCallSound, MoveSound DEF CancelWrite

LEMMA CompleteSound ==
  ASSUME RequestInv, NEW c \in Requesters, CompleteWrite(c)
  PROVE  RequestInv'
<1>1. NoCall.op = "none" /\ "COMPLETED" \in RequestStatus
  BY RequestStatuses DEF NoCall
<1>2. call[c].pc # "committed"
  BY DEF CompleteWrite, On
<1> QED BY <1>1, <1>2, NoCallSound, MoveSound DEF CompleteWrite

LEMMA FulfilSound ==
  ASSUME RequestInv, NEW c \in Requesters, FulfilWrite(c)
  PROVE  RequestInv'
<1> DEFINE again == [NoCall EXCEPT !.op = "ticket", !.pc = "loaded", !.saw = "IN_FULFILLMENT"]
<1>1. again \in Call /\ again.op = "ticket" /\ NoCall.op = "none" /\ "IN_FULFILLMENT" \in RequestStatus
  BY NoCallSound, RequestStatuses DEF NoCall, Call
<1> HIDE DEF again
<1>2. PICK next \in {again, NoCall} : NotedWrite(c, next)
  BY DEF FulfilWrite, again
<1>3. next \in Call /\ next.op \notin {"fulfil", "decide"} /\ CallChecked(next)
  BY <1>1, NoCallSound DEF CallChecked
<1>4. /\ TransitionStatus(call[c].saw, "IN_FULFILLMENT") /\ call[c].op = "fulfil"
      /\ call[c].pc = "planned" /\ UNCHANGED <<service, approvals, tickets, edits>>
  BY DEF FulfilWrite, On
<1>5. RequestTypeOK /\ CallKnows(call[c])
  BY DEF RequestInv
<1>6. ~history'.overlapped => ~history.overlapped /\ call[c].alone
  BY <1>2, <1>3, <1>5, Noted
<1>7. history'.overlapped \/ GatePasses \/ history.edited
  BY <1>4, <1>5, <1>6 DEF CallKnows
<1> QED BY <1>1, <1>2, <1>3, <1>4, <1>7, MoveSound

LEMMA TicketSound ==
  ASSUME RequestInv, NEW c \in Requesters, TicketWrite(c)
  PROVE  RequestInv'
<1>1. /\ RequestTypeOK /\ OneTicketPerRequest /\ FulfilmentIsApproved
  BY DEF RequestInv
<1>2. /\ tickets' = IF request.ticket THEN tickets ELSE tickets + 1
      /\ request' = [request EXCEPT !.ticket = TRUE] /\ NotedWrite(c, NoCall)
      /\ UNCHANGED <<service, approvals, edits>> /\ call[c].pc = "planned"
  BY DEF TicketWrite, On
<1>3. /\ request' \in [status : RequestStatus \cup {"NONE"}, cycle : Nat, ticket : BOOLEAN]
      /\ request'.ticket = TRUE /\ request'.status = request.status
  BY <1>1, <1>2 DEF RequestTypeOK
<1>4. tickets' = 1 /\ approvals' \in Seq(StepStatus)
  BY <1>1, <1>2 DEF RequestTypeOK, OneTicketPerRequest
<1>5. OneTicketPerRequest'
  BY <1>3, <1>4 DEF OneTicketPerRequest
<1>6. FulfilmentIsApproved'
  BY <1>2, <1>3, NoCallSound, FulfilmentKept
<1>7. NeverAbandoned'
  BY <1>2, <1>3, NoCallSound, GateKept
<1>8. NoCall.op = "none" /\ tickets' \in Nat
  BY <1>4 DEF NoCall
<1> QED BY <1>2, <1>3, <1>4, <1>5, <1>6, <1>7, <1>8, NoCallSound, RequestWrite

\* A decision of a call that is alone decides a request that still awaits it.
LEMMA DecideCommitSound ==
  ASSUME RequestInv, NEW c \in Requesters, DecideCommit(c)
  PROVE  RequestInv'
<1> DEFINE w == call[c]
           next == [w EXCEPT !.pc = "committed", !.step = 0, !.cycle = 0]
           seen == [approvals EXCEPT ![w.step] = w.decision]
<1>1. /\ RequestTypeOK /\ w \in Call /\ CallKnows(w) /\ w.op = "decide" /\ w.pc = "updated"
      /\ w.step \in Nat /\ w.decision \in Decision /\ approvals \in Seq(StepStatus)
  BY DEF RequestInv, RequestTypeOK, Call, DecideCommit, On
<1>2. /\ approvals' = seen /\ NotedWrite(c, next) /\ UNCHANGED <<service, request, tickets, edits>>
  BY DEF DecideCommit
<1>3. /\ next \in Call /\ next.op = "decide" /\ next.pc = "committed" /\ next.alone = w.alone
      /\ next.seen = w.seen /\ next.decision = w.decision
  BY <1>1 DEF Call
<1>4. /\ seen \in Seq(StepStatus) /\ (approvals # <<>> => seen # <<>>)
      /\ \A st \in StepStatus : Has(seen, st) => Has(approvals, st) \/ st = w.decision
  BY <1>1, DecidedTyped
<1> HIDE DEF next, seen, w
<1>5. ~history'.overlapped => ~history.overlapped /\ w.alone
  BY <1>1, <1>2, <1>3, Noted DEF w
<1>6. ~history'.overlapped => request.status = "AWAITING_APPROVAL" /\ w.seen = seen
  BY <1>1, <1>5 DEF CallKnows, seen
<1>7. FulfilmentIsApproved'
  <2>1. request' = request
    BY <1>2
  <2> QED BY <1>6, <2>1 DEF FulfilmentIsApproved
<1>8. Moving(c, FALSE)' /\ (w.decision # "APPROVED" => Moving(c, TRUE)')
  BY <1>1, <1>2, <1>3, Noted DEF Moving, On
<1>9. NeverAbandoned'
  <2>1. SUFFICES ASSUME ~history'.overlapped, ~history'.died, request'.status = "AWAITING_APPROVAL"
                 PROVE  /\ approvals' # <<>>
                        /\ ~Has(approvals', "PENDING") => \E d \in Requesters : Moving(d, FALSE)'
                        /\ Has(approvals', "REJECTED") \/ Has(approvals', "CHANGES_REQUESTED") =>
                             \E d \in Requesters : Moving(d, TRUE)'
    BY DEF NeverAbandoned
  <2>2. history'.died = history.died
    BY <1>1, <1>2, <1>3, Noted
  <2>3. request' = request
    BY <1>2
  <2>4. /\ approvals # <<>>
        /\ Has(approvals, "REJECTED") \/ Has(approvals, "CHANGES_REQUESTED") =>
             \E d \in Requesters : Moving(d, TRUE)
    BY <1>5, <2>1, <2>2, <2>3 DEF RequestInv, NeverAbandoned
  <2>5. ASSUME NEW d \in Requesters, Moving(d, TRUE) PROVE Moving(d, TRUE)'
    <3>1. d # c
      BY <1>1, <2>5 DEF Moving, On, w
    <3> QED BY <1>1, <1>2, <1>3, <2>5, <3>1, OthersMove
  <2>6. Has(seen, "REJECTED") \/ Has(seen, "CHANGES_REQUESTED") =>
          \/ Has(approvals, "REJECTED") \/ Has(approvals, "CHANGES_REQUESTED")
          \/ w.decision # "APPROVED"
    BY <1>4 DEF StepStatus, Decision
  <2> QED BY <1>2, <1>4, <1>8, <2>4, <2>5, <2>6
<1>10. OneTicketPerRequest' /\ tickets' \in Nat
  BY <1>1, <1>2 DEF RequestInv, OneTicketPerRequest, RequestTypeOK
<1>11. request' \in [status : RequestStatus \cup {"NONE"}, cycle : Nat, ticket : BOOLEAN]
  BY <1>1, <1>2 DEF RequestTypeOK
<1>12. CallChecked(next)
  BY <1>3 DEF CallChecked
<1>13. ~history'.overlapped /\ next.alone => next.seen = approvals'
  BY <1>2, <1>3, <1>6
<1> QED BY <1>2, <1>3, <1>4, <1>7, <1>9, <1>10, <1>11, <1>12, <1>13, RequestWrite

\* The last decision moves the request: a refusal at once, an approval when the
\* gate passes; otherwise a pending step, or another call, will.
LEMMA DecideTransitionSound ==
  ASSUME RequestInv, NEW c \in Requesters, DecideTransition(c)
  PROVE  RequestInv'
<1> DEFINE w == call[c]
           to == StepDecisionOutcome(service.mode, w.seen, w.decision)
<1>1. /\ RequestTypeOK /\ w \in Call /\ CallKnows(w) /\ w.op = "decide" /\ w.pc = "committed"
      /\ w.decision \in Decision /\ approvals \in Seq(StepStatus) /\ service.mode \in ApprovalMode
  BY DEF RequestInv, RequestTypeOK, Call, Service, DecideTransition, On
<1>2. /\ TransitionStatus("AWAITING_APPROVAL", to) /\ NotedWrite(c, NoCall)
      /\ UNCHANGED <<service, approvals, tickets, edits>>
  BY DEF DecideTransition
<1>3. /\ to \in Decision \cup {"AWAITING_APPROVAL"}
      /\ w.decision # "APPROVED" => to = w.decision
      /\ w.decision = "APPROVED" /\ EvaluateApprovalGate(service.mode, w.seen) = "PASSED" => to = "APPROVED"
  BY <1>1, OutcomeOf
<1> HIDE DEF to, w
<1>4. to \in RequestStatus
  BY <1>3, RequestStatuses DEF Decision
<1>5. /\ request' \in [status : RequestStatus \cup {"NONE"}, cycle : Nat, ticket : BOOLEAN]
      /\ request'.ticket = request.ticket
      /\ request'.status = IF request.status = "AWAITING_APPROVAL" THEN to ELSE request.status
  BY <1>1, <1>2, <1>4, TransitionTypes
<1>6. OneTicketPerRequest' /\ tickets' \in Nat /\ approvals' \in Seq(StepStatus)
  BY <1>1, <1>2, <1>5 DEF RequestInv, OneTicketPerRequest, RequestTypeOK
<1>7. FulfilmentIsApproved'
  BY <1>2, <1>3, <1>5, NoCallSound, FulfilmentKept DEF Decision
<1>8. NeverAbandoned'
  <2>1. SUFFICES ASSUME ~history'.overlapped, ~history'.died, request'.status = "AWAITING_APPROVAL"
                 PROVE  /\ approvals' # <<>>
                        /\ ~Has(approvals', "PENDING") => \E d \in Requesters : Moving(d, FALSE)'
                        /\ Has(approvals', "REJECTED") \/ Has(approvals', "CHANGES_REQUESTED") =>
                             \E d \in Requesters : Moving(d, TRUE)'
    BY DEF NeverAbandoned
  <2>2. ~history.overlapped /\ w.alone /\ ~history.died
    BY <1>1, <1>2, <2>1, NoCallSound, Noted DEF w
  <2>3. request.status = "AWAITING_APPROVAL" /\ to = "AWAITING_APPROVAL"
    BY <1>5, <2>1
  <2>4. w.decision = "APPROVED" /\ EvaluateApprovalGate(service.mode, w.seen) # "PASSED"
    BY <1>1, <1>3, <2>3 DEF Decision
  <2>5. w.seen = approvals
    BY <1>1, <2>2 DEF CallKnows
  <2>6. /\ approvals # <<>>
        /\ Has(approvals, "REJECTED") \/ Has(approvals, "CHANGES_REQUESTED") =>
             \E d \in Requesters : Moving(d, TRUE)
    BY <2>2, <2>3 DEF RequestInv, NeverAbandoned
  <2>7. ASSUME NEW d \in Requesters, Moving(d, TRUE) PROVE Moving(d, TRUE)' /\ Moving(d, FALSE)'
    <3>1. d # c
      BY <2>4, <2>7 DEF Moving, w
    <3>2. Moving(d, TRUE)'
      BY <1>1, <1>2, <2>7, <3>1, NoCallSound, OthersMove
    <3> QED BY <3>2 DEF Moving
  <2>8. \/ Has(approvals, "PENDING")
        \/ Has(approvals, "REJECTED") \/ Has(approvals, "CHANGES_REQUESTED")
    BY <1>1, <2>4, <2>5, <2>6, AllApprovedPasses
  <2> QED BY <1>2, <2>6, <2>7, <2>8
<1>9. NoCall.op = "none"
  BY DEF NoCall
<1> QED BY <1>2, <1>5, <1>6, <1>7, <1>8, <1>9, NoCallSound, RequestWrite

-----------------------------------------------------------------------------
(* Service requests: theorems                                              *)

LEMMA RequestStarts == RequestInit => RequestInv
<1> SUFFICES ASSUME RequestInit PROVE RequestInv
  OBVIOUS
<1>1. RequestTypeOK
  BY RequestConstants, NoCallSound, EmptySeq DEF RequestInit, RequestTypeOK, Service
<1>2. OneTicketPerRequest /\ FulfilmentIsApproved /\ NeverAbandoned
  BY DEF RequestInit, OneTicketPerRequest, FulfilmentIsApproved, NeverAbandoned
<1>3. \A c \in Requesters : CallChecked(call[c]) /\ CallKnows(call[c])
  BY NoCallSound DEF RequestInit
<1> QED BY <1>1, <1>2, <1>3 DEF RequestInv

LEMMA RequestStep == RequestInv /\ RequestNext => RequestInv'
<1> SUFFICES ASSUME RequestInv, RequestNext PROVE RequestInv'
  OBVIOUS
<1>1. ASSUME NEW c \in Requesters,
             \/ \E op \in {"answers", "cancel", "decide", "fulfil", "ticket", "complete"} : Load(c, op)
             \/ \E i \in 1..MaxSteps, d \in Decision : DecideRead(c, i, d)
             \/ SubmitRead(c) \/ AnswersRead(c) \/ DecideUpdate(c) \/ FulfilGate(c) \/ TicketGate(c)
             \/ Refuse(c) \/ Die(c)
      PROVE  RequestInv'
  BY <1>1, LoadSound, DecideReadSound, SubmitReadSound, AnswersReadSound, DecideUpdateSound,
     FulfilGateSound, TicketGateSound, RefuseSound, DieSound
<1>2. ASSUME NEW c \in Requesters,
             \/ SubmitWrite(c) \/ AnswersWrite(c) \/ ResetApprovalCycle(c) \/ CancelWrite(c)
             \/ DecideCommit(c) \/ DecideTransition(c) \/ FulfilWrite(c) \/ TicketWrite(c)
             \/ CompleteWrite(c)
      PROVE  RequestInv'
  BY <1>2, SubmitWriteSound, AnswersWriteSound, ResetSound, CancelSound, DecideCommitSound,
     DecideTransitionSound, FulfilSound, TicketSound, CompleteSound
<1> QED BY <1>1, <1>2, EditServiceSound DEF RequestNext

LEMMA RequestStutter == RequestInv /\ UNCHANGED requestVars => RequestInv'
BY DEF RequestInv, RequestTypeOK, OneTicketPerRequest, FulfilmentIsApproved, GatePasses, NeverAbandoned,
   Moving, On, CallChecked, CallKnows, requestVars

\* The inductive invariant of a service request: what calls in progress know, and
\* that a decided request has a call about to move it.
THEOREM RequestInvariant == RequestSpec => []RequestInv
<1>1. RequestInv /\ [RequestNext]_requestVars => RequestInv'
  BY RequestStep, RequestStutter
<1> QED BY RequestStarts, <1>1, PTL DEF RequestSpec

\* One ticket at most, fulfilment after approval and no request that waits for
\* nobody, for any number of requesters, steps, edits and approval cycles.
THEOREM RequestsAreSound == RequestSpec => []RequestsSound
<1>1. RequestInv => RequestsSound
  <2> SUFFICES ASSUME RequestInv PROVE RequestNeverStuck
    BY DEF RequestInv, RequestsSound
  <2> QED BY DEF RequestInv, RequestTypeOK, NeverAbandoned, RequestNeverStuck, Moving, On
<1> QED BY RequestInvariant, <1>1, PTL

\* A move of the request, as RequestFollowsTable has it.
Follows ==
  LET old == request.status
      new == request'.status IN
  old # new /\ old # "NONE" =>
    \/ new \in RequestTransitions[old]
    \/ old = "CHANGES_REQUESTED" /\ request'.cycle = request.cycle + 1
    \/ \E c \in Requesters : call[c].op = "answers" /\ call[c].saw # old /\ call'[c] # call[c]

\* A conditional change of status along the table.
LEMMA MoveFollows ==
  ASSUME RequestTypeOK, NEW from \in RequestStatus, NEW to \in RequestStatus,
         TransitionStatus(from, to), to = from \/ to \in RequestTransitions[from]
  PROVE  Follows
<1>1. request'.status = IF request.status = from THEN to ELSE request.status
  BY TransitionTypes
<1> QED BY <1>1 DEF Follows

LEMMA StepFollows == RequestInv /\ RequestNext => Follows
<1> SUFFICES ASSUME RequestInv, RequestNext PROVE Follows
  OBVIOUS
<1>0. RequestTypeOK
  BY DEF RequestInv
<1>1. CASE request'.status = request.status
  BY <1>1 DEF Follows
<1>2. ASSUME NEW c \in Requesters,
             \/ SubmitWrite(c) \/ AnswersWrite(c) \/ ResetApprovalCycle(c) \/ CancelWrite(c)
             \/ DecideTransition(c) \/ FulfilWrite(c) \/ CompleteWrite(c)
      PROVE  Follows
  <2>1. CallChecked(call[c])
    BY DEF RequestInv
  <2>2. CASE SubmitWrite(c)
    BY <2>2 DEF SubmitWrite, Follows
  <2>3. CASE AnswersWrite(c)
    <3>1. request'.status = call[c].saw /\ call[c].op = "answers" /\ call[c].pc = "planned"
      BY <1>0, <2>3 DEF AnswersWrite, On, RequestTypeOK
    <3>2. call'[c].pc # "planned"
      <4> DEFINE u == [call[c] EXCEPT !.pc = "updated", !.saw = "NONE"]
      <4>1. call[c] \in Call
        BY <1>0 DEF RequestTypeOK
      <4>2. u \in Call /\ u.pc = "updated" /\ NoCall \in Call /\ NoCall.pc = "idle"
        BY <4>1, NoCallSound DEF Call
      <4> HIDE DEF u
      <4>3. NotedWrite(c, u) \/ NotedWrite(c, NoCall)
        BY <2>3 DEF AnswersWrite, u
      <4> QED BY <1>0, <4>2, <4>3, Noted
    <3> QED BY <3>1, <3>2 DEF Follows
  <2>4. CASE ResetApprovalCycle(c)
    <3>1. call[c].op = "answers" /\ call[c].pc = "updated" /\ NotedWrite(c, NoCall)
      BY <2>4 DEF ResetApprovalCycle, On
    <3>2. call'[c].pc = "idle"
      BY <1>0, <3>1, NoCallSound, Noted
    <3>3. call[c].saw = "NONE"
      BY <2>1, <3>1 DEF CallChecked
    <3> QED BY <3>1, <3>2, <3>3 DEF Follows
  <2>5. CASE CancelWrite(c)
    <3>1. TransitionStatus(call[c].saw, "CANCELLED") /\ call[c].saw \in Accepts("cancel")
      BY <2>1, <2>5 DEF CancelWrite, On, CallChecked
    <3>2. /\ call[c].saw \in RequestStatus /\ "CANCELLED" \in RequestStatus
          /\ "CANCELLED" \in RequestTransitions[call[c].saw]
      BY <3>1, RequestStatuses DEF Accepts, RequestTransitions
    <3> QED BY <1>0, <3>1, <3>2, MoveFollows
  <2>6. CASE DecideTransition(c)
    <3> DEFINE to == StepDecisionOutcome(service.mode, call[c].seen, call[c].decision)
    <3>1. TransitionStatus("AWAITING_APPROVAL", to)
      BY <2>6 DEF DecideTransition
    <3>2. to \in Decision \cup {"AWAITING_APPROVAL"}
      BY <1>0, OutcomeOf DEF RequestTypeOK, Call
    <3> HIDE DEF to
    <3>3. /\ to \in RequestStatus /\ "AWAITING_APPROVAL" \in RequestStatus
          /\ to = "AWAITING_APPROVAL" \/ to \in RequestTransitions["AWAITING_APPROVAL"]
      BY <3>2, RequestStatuses DEF Decision, RequestTransitions
    <3> QED BY <1>0, <3>1, <3>3, MoveFollows
  <2>7. CASE FulfilWrite(c)
    <3>1. TransitionStatus(call[c].saw, "IN_FULFILLMENT") /\ call[c].saw \in Accepts("fulfil")
      BY <2>1, <2>7 DEF FulfilWrite, On, CallChecked
    <3>2. /\ call[c].saw \in RequestStatus /\ "IN_FULFILLMENT" \in RequestStatus
          /\ "IN_FULFILLMENT" \in RequestTransitions[call[c].saw]
      BY <3>1, RequestStatuses DEF Accepts, RequestTransitions
    <3> QED BY <1>0, <3>1, <3>2, MoveFollows
  <2>8. CASE CompleteWrite(c)
    <3>1. TransitionStatus("IN_FULFILLMENT", "COMPLETED")
      BY <2>8 DEF CompleteWrite
    <3>2. /\ "IN_FULFILLMENT" \in RequestStatus /\ "COMPLETED" \in RequestStatus
          /\ "COMPLETED" \in RequestTransitions["IN_FULFILLMENT"]
      BY RequestStatuses DEF RequestTransitions
    <3> QED BY <1>0, <3>1, <3>2, MoveFollows
  <2> QED BY <1>2, <2>2, <2>3, <2>4, <2>5, <2>6, <2>7, <2>8
<1>3. ASSUME NEW c \in Requesters,
             \/ \E op \in {"answers", "cancel", "decide", "fulfil", "ticket", "complete"} : Load(c, op)
             \/ \E i \in 1..MaxSteps, d \in Decision : DecideRead(c, i, d)
             \/ SubmitRead(c) \/ AnswersRead(c) \/ DecideUpdate(c) \/ FulfilGate(c) \/ TicketGate(c)
             \/ Refuse(c) \/ Die(c) \/ DecideCommit(c) \/ TicketWrite(c)
      PROVE  request'.status = request.status
  BY <1>0, <1>3 DEF Load, DecideRead, SubmitRead, AnswersRead, DecideUpdate, FulfilGate, TicketGate,
     Refuse, Die, DecideCommit, TicketWrite, RequestTypeOK
<1>4. ASSUME NEW s \in [mode : Modes, steps : 0..MaxSteps], EditService(s)
      PROVE  request'.status = request.status
  BY <1>4 DEF EditService
<1> QED BY <1>1, <1>2, <1>3, <1>4 DEF RequestNext

\* The status moves along the table, but for resubmission into a new approval
\* cycle and for answers written over a status their author did not see.
THEOREM RequestMovesAlongTable == RequestSpec => RequestFollowsTable
<1>1. RequestInv /\ [RequestNext]_requestVars => [Follows]_requestVars
  BY StepFollows
<1>2. RequestSpec => [][Follows]_requestVars
  BY RequestInvariant, <1>1, PTL DEF RequestSpec
<1> QED BY <1>2 DEF RequestFollowsTable, Follows

-----------------------------------------------------------------------------
(* Accounts: the invariant                                                 *)

LiveOf(s) == {t \in RefreshTokens : refresh[t].session = s /\ refresh[t].state = "ACTIVE"}

\* A session whose refresh tokens are watched: it lives and nobody forked it.
Watched(s) == session[s].state = "ACTIVE" /\ ~session[s].forked

\* A login that has a session and still has to issue its first token.
Opening(w) == w.op = "login" /\ w.pc = "written"

\* What a call under way relies on.
AuthCallOk(w) ==
  /\ w.op = "login" /\ w.pc \in {"read", "cleared"} => w.raced \/ w.password = account.password
  /\ w.op = "fail" /\ ~w.raced => account.failures <= w.failed
  /\ w.op = "confirm" => w.oneTime \in OneTimeTokens
  /\ Opening(w) \/ w.op \in {"refresh", "reuse"} =>
       w.session \in Sessions /\ session[w.session].state # "NONE"
  /\ Opening(w) => \A t \in RefreshTokens : refresh[t].session # w.session
  /\ w.op = "refresh" => \E t \in RefreshTokens : refresh[t].session = w.session
  /\ w.op = "refresh" /\ w.pc = "read" =>
       /\ w.token \in RefreshTokens /\ refresh[w.token].state # "NONE"
       /\ refresh[w.token].session = w.session
       /\ Watched(w.session) => LiveOf(w.session) \subseteq {w.token}
  /\ w.op = "refresh" /\ w.pc # "read" => (Watched(w.session) => LiveOf(w.session) = {})

\* Two calls do not open one session, and do not refresh one that is watched.
Apart(v, w) ==
  /\ Opening(v) /\ Opening(w) => v.session # w.session
  /\ v.op = "refresh" /\ w.op = "refresh" /\ v.session = w.session => ~Watched(v.session)

TokensPlaced ==
  \A t \in RefreshTokens :
    /\ refresh[t].state # "NONE" <=> refresh[t].session \in Sessions
    /\ refresh[t].session \in Sessions => session[refresh[t].session].state # "NONE"

LiveUnique == \A s \in Sessions : Watched(s) => \A t, u \in LiveOf(s) : t = u

\* The counter that locks is never behind the failures counted one at a time.
CounterLeads == account.failures <= account.failed /\ LockoutHolds

AccountInv ==
  /\ AccountTypeOK
  /\ SessionsFollowPassword
  /\ CounterLeads
  /\ TokensPlaced
  /\ LiveUnique
  /\ \A c \in AuthCalls : AuthCallOk(authCall[c])
  /\ \A c, d \in AuthCalls : c # d => Apart(authCall[c], authCall[d])

-----------------------------------------------------------------------------
(* Accounts: helpers                                                       *)

LEMMA NoAuthCallTyped ==
  NoAuthCall \in AuthCall /\ NoAuthCall.op = "none" /\ NoAuthCall.pc = "idle"
BY DEF NoAuthCall, AuthCall

\* Rows as a step that issues no refresh token leaves them.
RowsGoOn ==
  /\ \A s \in Sessions :
       session[s].state # "NONE" =>
         /\ session'[s].state # "NONE"
         /\ session'[s].state = "ACTIVE" => session[s].state = "ACTIVE"
         /\ session[s].forked /\ session'[s].state = "ACTIVE" => session'[s].forked
  /\ \A t \in RefreshTokens :
       /\ refresh'[t].session = refresh[t].session
       /\ refresh'[t].state = "NONE" <=> refresh[t].state = "NONE"
       /\ refresh'[t].state = "ACTIVE" => refresh[t].state = "ACTIVE"

\* What a step of one call leaves of another.
Carried(v, w) ==
  /\ w.op = v.op /\ w.pc = v.pc /\ w.session = v.session /\ w.token = v.token
  /\ w.oneTime = v.oneTime /\ w.password = v.password /\ w.failed = v.failed
  /\ v.raced => w.raced
  /\ w.op = "login" /\ w.pc # "written" => w.raced \/ account'.password = account.password
  /\ w.op = "fail" => w.raced \/ account'.failures <= account.failures

\* The call c goes on as q, and the others are carried.
EndsAs(q, c) ==
  /\ authCall'[c] = q
  /\ \A d \in AuthCalls \ {c} : Carried(authCall[d], authCall'[d])

LEMMA RowsKept == UNCHANGED <<session, refresh>> => RowsGoOn
BY DEF RowsGoOn

\* Watched sessions were watched, or are new; their live tokens were live.
LEMMA WatchedBefore ==
  ASSUME AccountTypeOK, TokensPlaced, RowsGoOn, NEW s \in Sessions
  PROVE  /\ LiveOf(s)' \subseteq LiveOf(s)
         /\ Watched(s)' => Watched(s) \/ LiveOf(s)' = {}
         /\ session[s].state # "NONE" /\ Watched(s)' => Watched(s)
<1>1. LiveOf(s)' \subseteq LiveOf(s)
  BY DEF RowsGoOn, LiveOf
<1>2. session[s].state # "NONE" /\ Watched(s)' => Watched(s)
  BY DEF RowsGoOn, Watched
<1>3. session[s].state = "NONE" => LiveOf(s) = {}
  BY DEF TokensPlaced, LiveOf
<1> QED BY <1>1, <1>2, <1>3

LEMMA CallCarried ==
  ASSUME AccountTypeOK, account' \in Account, TokensPlaced, RowsGoOn,
         NEW v \in AuthCall, NEW w \in AuthCall, AuthCallOk(v), Carried(v, w)
  PROVE  AuthCallOk(w)'
<1>1. /\ w.op = "login" /\ w.pc \in {"read", "cleared"} => w.raced \/ w.password = account'.password
      /\ w.op = "confirm" => w.oneTime \in OneTimeTokens
  BY DEF AuthCallOk, Carried
<1>2. w.op = "fail" /\ ~w.raced => account'.failures <= w.failed
  <2>1. account.failures \in Nat /\ account'.failures \in Nat /\ v.failed \in Nat
    BY DEF AccountTypeOK, Account, AuthCall
  <2>2. w.op = "fail" /\ ~w.raced => account.failures <= v.failed /\ w.failed = v.failed
    BY DEF AuthCallOk, Carried
  <2>3. w.op = "fail" /\ ~w.raced => account'.failures <= account.failures
    BY DEF Carried
  <2> QED BY <2>1, <2>2, <2>3
<1>3. Opening(w) \/ w.op \in {"refresh", "reuse"} =>
        w.session \in Sessions /\ session'[w.session].state # "NONE" /\ session[w.session].state # "NONE"
  BY DEF AuthCallOk, Carried, Opening, RowsGoOn
<1>4. Opening(w) => \A t \in RefreshTokens : refresh'[t].session # w.session
  BY DEF AuthCallOk, Carried, Opening, RowsGoOn
<1>5. w.op = "refresh" => \E t \in RefreshTokens : refresh'[t].session = w.session
  BY DEF AuthCallOk, Carried, RowsGoOn
<1>6. ASSUME w.op = "refresh"
      PROVE  /\ w.pc = "read" =>
                  /\ w.token \in RefreshTokens /\ refresh'[w.token].state # "NONE"
                  /\ refresh'[w.token].session = w.session
                  /\ Watched(w.session)' => LiveOf(w.session)' \subseteq {w.token}
             /\ w.pc # "read" => (Watched(w.session)' => LiveOf(w.session)' = {})
  <2>1. /\ w.session \in Sessions /\ session[w.session].state # "NONE"
        /\ v.op = "refresh" /\ v.session = w.session /\ v.token = w.token /\ v.pc = w.pc
    BY <1>3, <1>6 DEF Carried
  <2>2. LiveOf(w.session)' \subseteq LiveOf(w.session) /\ (Watched(w.session)' => Watched(w.session))
    BY <2>1, WatchedBefore
  <2>3. w.pc = "read" => /\ w.token \in RefreshTokens /\ refresh'[w.token].state # "NONE"
                         /\ refresh'[w.token].session = w.session
    BY <2>1 DEF AuthCallOk, RowsGoOn
  <2>4. /\ w.pc = "read" /\ Watched(w.session) => LiveOf(w.session) \subseteq {w.token}
        /\ w.pc # "read" /\ Watched(w.session) => LiveOf(w.session) = {}
    BY <2>1 DEF AuthCallOk
  <2> QED BY <2>2, <2>3, <2>4
<1>7. /\ w.op = "refresh" /\ w.pc = "read" =>
           /\ w.token \in RefreshTokens /\ refresh'[w.token].state # "NONE"
           /\ refresh'[w.token].session = w.session
           /\ Watched(w.session)' => LiveOf(w.session)' \subseteq {w.token}
      /\ w.op = "refresh" /\ w.pc # "read" => (Watched(w.session)' => LiveOf(w.session)' = {})
  BY <1>6
<1> QED BY <1>1, <1>2, <1>3, <1>4, <1>5, <1>7 DEF AuthCallOk, Opening, Watched, LiveOf

\* Calls that a step carries on stay apart.
LEMMA ApartCarried ==
  ASSUME RowsGoOn, NEW v \in AuthCall, NEW w \in AuthCall, NEW v2 \in AuthCall, NEW w2 \in AuthCall,
         AuthCallOk(v), Apart(v, w),
         v2.op = v.op, v2.pc = v.pc \/ v.op # "login", v2.session = v.session,
         w2.op = w.op, w2.pc = w.pc \/ w.op # "login", w2.session = w.session
  PROVE  Apart(v2, w2)'
<1>1. v.op = "refresh" => v.session \in Sessions /\ session[v.session].state # "NONE"
  BY DEF AuthCallOk
<1>2. v.op = "refresh" /\ ~Watched(v.session) => ~Watched(v.session)'
  BY <1>1 DEF RowsGoOn, Watched
<1>3. v.op = "refresh" /\ w.op = "refresh" /\ v.session = w.session => ~Watched(v2.session)'
  BY <1>2 DEF Apart, Watched
<1> QED BY <1>3 DEF Apart, Opening, Watched

\* A step of the calls in own that issues no refresh token.
LEMMA AccountKeeps ==
  ASSUME AccountInv, AccountTypeOK', RowsGoOn, SessionsFollowPassword', CounterLeads',
         NEW own \in SUBSET AuthCalls,
         \A d \in AuthCalls \ own : Carried(authCall[d], authCall'[d]),
         \A d \in own : /\ AuthCallOk(authCall[d])'
                        /\ \A e \in AuthCalls \ {d} :
                             Apart(authCall[d], authCall[e])' /\ Apart(authCall[e], authCall[d])'
  PROVE  AccountInv'
<1>0. /\ AccountTypeOK /\ account' \in Account /\ TokensPlaced
      /\ \A d \in AuthCalls : authCall[d] \in AuthCall /\ authCall'[d] \in AuthCall
  BY DEF AccountInv, AccountTypeOK
<1>1. TokensPlaced'
  BY <1>0 DEF TokensPlaced, RowsGoOn
<1>2. LiveUnique'
  <2>1. ASSUME NEW s \in Sessions, Watched(s)' PROVE \A t, u \in LiveOf(s)' : t = u
    BY <1>0, <2>1, WatchedBefore DEF AccountInv, LiveUnique
  <2> QED BY <2>1 DEF LiveUnique
<1>3. ASSUME NEW d \in AuthCalls PROVE AuthCallOk(authCall[d])'
  <2>1. CASE d \notin own
    <3>1. AuthCallOk(authCall[d]) /\ Carried(authCall[d], authCall'[d])
      BY <2>1 DEF AccountInv
    <3>2. PICK v \in AuthCall : v = authCall[d]
      BY <1>0
    <3>3. PICK w \in AuthCall : w = authCall'[d]
      BY <1>0
    <3>4. AuthCallOk(v) /\ Carried(v, w)
      BY <3>1, <3>2, <3>3
    <3>5. AuthCallOk(w)'
      BY <1>0, <3>4, CallCarried
    <3> QED BY <3>3, <3>5 DEF AuthCallOk, Opening, Watched, LiveOf
  <2> QED BY <2>1
<1>4. ASSUME NEW d \in AuthCalls, NEW e \in AuthCalls, d # e PROVE Apart(authCall[d], authCall[e])'
  <2>1. CASE d \in own \/ e \in own
    BY <1>4, <2>1
  <2>2. CASE d \notin own /\ e \notin own
    <3>1. /\ AuthCallOk(authCall[d]) /\ Apart(authCall[d], authCall[e])
          /\ Carried(authCall[d], authCall'[d]) /\ Carried(authCall[e], authCall'[e])
      BY <1>4, <2>2 DEF AccountInv
    <3>2. PICK v \in AuthCall, w \in AuthCall : v = authCall[d] /\ w = authCall[e]
      BY <1>0
    <3>3. PICK v2 \in AuthCall, w2 \in AuthCall : v2 = authCall'[d] /\ w2 = authCall'[e]
      BY <1>0
    <3>4. AuthCallOk(v) /\ Apart(v, w) /\ Carried(v, v2) /\ Carried(w, w2)
      BY <3>1, <3>2, <3>3
    <3>5. Apart(v2, w2)'
      BY <3>4, ApartCarried DEF Carried
    <3> QED BY <3>3, <3>5 DEF Apart, Opening, Watched
  <2> QED BY <2>1, <2>2
<1> QED BY <1>1, <1>2, <1>3, <1>4 DEF AccountInv

-----------------------------------------------------------------------------
(* Accounts: steps                                                         *)

LEMMA CarriedOn ==
  ASSUME NEW v \in AuthCall, account \in Account, account' \in Account,
         account'.password = account.password, account'.failures <= account.failures
  PROVE  Carried(v, v)
BY DEF Carried

\* A step of one call that goes on as q, neither opening nor refreshing a session.
LEMMA OneCallKeeps ==
  ASSUME AccountInv, NEW c \in AuthCalls, NEW q \in AuthCall,
         authCall' = [authCall EXCEPT ![c] = q], AuthCallOk(q)', ~Opening(q), q.op # "refresh",
         account' \in Account, account'.password = account.password,
         account'.failures <= account.failures,
         session' \in [Sessions -> Session], refresh' \in [RefreshTokens -> Refresh],
         oneTime' \in [OneTimeTokens -> OneTime], RowsGoOn, SessionsFollowPassword', CounterLeads'
  PROVE  AccountInv'
<1>1. authCall'[c] = q /\ \A d \in AuthCalls \ {c} : authCall'[d] = authCall[d]
  BY DEF AccountInv, AccountTypeOK
<1>2. AccountTypeOK'
  BY DEF AccountInv, AccountTypeOK
<1>3. \A d \in AuthCalls \ {c} : Carried(authCall[d], authCall'[d])
  BY <1>1, CarriedOn DEF AccountInv, AccountTypeOK
<1>4. AuthCallOk(authCall[c])'
  BY <1>1 DEF AuthCallOk, Opening, Watched, LiveOf
<1>5. \A e \in AuthCalls \ {c} : Apart(authCall[c], authCall[e])' /\ Apart(authCall[e], authCall[c])'
  BY <1>1 DEF Apart, Opening
<1>6. PICK own \in SUBSET AuthCalls : own = {c}
  OBVIOUS
<1>7. /\ \A d \in AuthCalls \ own : Carried(authCall[d], authCall'[d])
      /\ \A d \in own : /\ AuthCallOk(authCall[d])'
                       /\ \A e \in AuthCalls \ {d} :
                            Apart(authCall[d], authCall[e])' /\ Apart(authCall[e], authCall[d])'
  BY <1>3, <1>4, <1>5, <1>6
<1> QED BY <1>2, <1>7, AccountKeeps

\* A step of no call that leaves the sessions and refresh tokens alone.
LEMMA NoCallKeeps ==
  ASSUME AccountInv, authCall' = authCall, account' \in Account,
         account'.password = account.password, account'.failures <= account.failures,
         UNCHANGED <<session, refresh>>,
         oneTime' \in [OneTimeTokens -> OneTime], CounterLeads'
  PROVE  AccountInv'
<1>1. AccountTypeOK'
  BY DEF AccountInv, AccountTypeOK
<1>2. \A d \in AuthCalls : Carried(authCall[d], authCall'[d])
  BY CarriedOn DEF AccountInv, AccountTypeOK
<1>3. SessionsFollowPassword'
  BY DEF AccountInv, SessionsFollowPassword
<1>4. PICK own \in SUBSET AuthCalls : own = {}
  OBVIOUS
<1>5. RowsGoOn
  BY RowsKept
<1> QED BY <1>1, <1>2, <1>3, <1>4, <1>5, AccountKeeps

\* What the account's history says when only other columns change.
LEMMA CounterKept ==
  ASSUME CounterLeads, account'.failures = account.failures, account'.failed = account.failed,
         account'.locked = account.locked
  PROVE  CounterLeads'
BY DEF CounterLeads, LockoutHolds

LEMMA SessionsKept ==
  ASSUME AccountInv, UNCHANGED session, account'.password = account.password
  PROVE  SessionsFollowPassword'
BY DEF AccountInv, SessionsFollowPassword

LEMMA ClearedTyped ==
  ASSUME NEW a \in Account
  PROVE  /\ Cleared(a) \in Account /\ Cleared(a).password = a.password /\ Cleared(a).state = a.state
         /\ Cleared(a).failures = 0 /\ Cleared(a).failed = 0 /\ Cleared(a).locked = FALSE
BY DEF Cleared, Account

LEMMA ZeroLeads ==
  ASSUME account' \in Account, account'.failures = 0 PROVE CounterLeads'
BY AccountConstants DEF CounterLeads, LockoutHolds, Account

LEMMA NoCallOk == AuthCallOk(NoAuthCall)' /\ ~Opening(NoAuthCall) /\ NoAuthCall.op # "refresh"
BY NoAuthCallTyped DEF AuthCallOk, Opening

\* A call that ends, while the account keeps its password and its counter.
LEMMA CallEnds ==
  ASSUME AccountInv, NEW c \in AuthCalls, EndAuth(c),
         account' \in Account, account'.password = account.password,
         account'.failures <= account.failures,
         session' \in [Sessions -> Session], refresh' \in [RefreshTokens -> Refresh],
         oneTime' \in [OneTimeTokens -> OneTime], RowsGoOn, SessionsFollowPassword', CounterLeads'
  PROVE  AccountInv'
BY NoAuthCallTyped, NoCallOk, OneCallKeeps DEF EndAuth

LEMMA Typed ==
  ASSUME AccountInv
  PROVE  /\ account \in Account /\ session \in [Sessions -> Session]
         /\ refresh \in [RefreshTokens -> Refresh] /\ oneTime \in [OneTimeTokens -> OneTime]
         /\ account.failures \in Nat /\ account.failed \in Nat /\ account.password \in Nat
         /\ CounterLeads /\ SessionsFollowPassword
BY DEF AccountInv, AccountTypeOK, Account

LEMMA SpentTyped ==
  ASSUME AccountInv, NEW k
  PROVE  [oneTime EXCEPT ![k].state = "SPENT"] \in [OneTimeTokens -> OneTime]
BY DEF AccountInv, AccountTypeOK, OneTime

LEMMA NewOneTimeTyped ==
  ASSUME AccountInv, NEW p \in {"EMAIL_VERIFICATION", "PASSWORD_RESET"}, NewOneTime(p)
  PROVE  oneTime' \in [OneTimeTokens -> OneTime]
BY DEF AccountInv, AccountTypeOK, OneTime, NewOneTime

LEMMA RegisterSound == ASSUME AccountInv, Register PROVE AccountInv'
<1>1. /\ account' = [account EXCEPT !.state = "INVITED"] /\ NewOneTime("EMAIL_VERIFICATION")
      /\ UNCHANGED <<session, refresh, authCall>>
  BY DEF Register, CreatePendingUserRegistration
<1>2. /\ account' \in Account /\ account'.password = account.password
      /\ account'.failures = account.failures /\ account'.failed = account.failed
      /\ account'.locked = account.locked
  BY <1>1, Typed DEF Account
<1>3. account'.failures <= account.failures
  BY <1>2, Typed
<1> QED BY <1>1, <1>2, <1>3, Typed, CounterKept, NewOneTimeTyped, NoCallKeeps

LEMMA RequestResetSound == ASSUME AccountInv, RequestReset PROVE AccountInv'
<1>1. NewOneTime("PASSWORD_RESET") /\ UNCHANGED <<account, session, refresh, authCall>>
  BY DEF RequestReset
<1>2. account'.failures <= account.failures /\ CounterLeads'
  BY <1>1, Typed, CounterKept
<1> QED BY <1>1, <1>2, Typed, NewOneTimeTyped, NoCallKeeps

LEMMA WindowEndsSound == ASSUME AccountInv, WindowEnds PROVE AccountInv'
<1>1. /\ account' = [account EXCEPT !.window = FALSE]
      /\ UNCHANGED <<session, refresh, oneTime, authCall>>
  BY DEF WindowEnds
<1>2. /\ account' \in Account /\ account'.password = account.password
      /\ account'.failures = account.failures /\ account'.failed = account.failed
      /\ account'.locked = account.locked
  BY <1>1, Typed DEF Account
<1>3. account'.failures <= account.failures
  BY <1>2, Typed
<1> QED BY <1>1, <1>2, <1>3, Typed, CounterKept, NoCallKeeps

LEMMA LockEndsSound == ASSUME AccountInv, LockEnds PROVE AccountInv'
<1>1. /\ account' = [account EXCEPT !.locked = FALSE, !.failures = 0]
      /\ UNCHANGED <<session, refresh, oneTime, authCall>>
  BY DEF LockEnds
<1>2. account' \in Account /\ account'.password = account.password /\ account'.failures = 0
  BY <1>1, Typed DEF Account
<1>3. account'.failures <= account.failures
  BY <1>2, Typed
<1> QED BY <1>1, <1>2, <1>3, Typed, ZeroLeads, NoCallKeeps

\* A call that starts, or goes on, and writes nothing.
LEMMA CallReads ==
  ASSUME AccountInv, NEW c \in AuthCalls, NEW q \in AuthCall, AuthCallOk(q), ~Opening(q),
         q.op # "refresh", authCall' = [authCall EXCEPT ![c] = q],
         UNCHANGED <<account, session, refresh, oneTime>>
  PROVE  AccountInv'
<1>1. AuthCallOk(q)'
  BY DEF AuthCallOk, Opening, Watched, LiveOf
<1>2. account'.failures <= account.failures /\ CounterLeads'
  BY Typed, CounterKept
<1> QED BY <1>1, <1>2, Typed, RowsKept, SessionsKept, OneCallKeeps

LEMMA ConfirmReadSound ==
  ASSUME AccountInv, NEW c \in AuthCalls, NEW k \in OneTimeTokens, ConfirmRead(c, k)
  PROVE  AccountInv'
<1> DEFINE q == [NoAuthCall EXCEPT !.op = "confirm", !.pc = "read", !.oneTime = k]
<1>1. q \in AuthCall /\ q.op = "confirm" /\ q.oneTime = k
  BY NoAuthCallTyped DEF AuthCall, NoAuthCall
<1>2. authCall' = [authCall EXCEPT ![c] = q] /\ UNCHANGED <<account, session, refresh, oneTime>>
  BY DEF ConfirmRead
<1> HIDE DEF q
<1>3. AuthCallOk(q) /\ ~Opening(q)
  BY <1>1 DEF AuthCallOk, Opening
<1> QED BY <1>1, <1>2, <1>3, CallReads

LEMMA ConfirmExpiredSound ==
  ASSUME AccountInv, NEW c \in AuthCalls, ConfirmExpired(c)
  PROVE  AccountInv'
<1>1. /\ oneTime' = [oneTime EXCEPT ![authCall[c].oneTime].state = "SPENT"] /\ EndAuth(c)
      /\ UNCHANGED <<account, session, refresh>>
  BY DEF ConfirmExpired
<1>2. account'.failures <= account.failures /\ CounterLeads'
  BY <1>1, Typed, CounterKept
<1> QED BY <1>1, <1>2, Typed, SpentTyped, RowsKept, SessionsKept, CallEnds

LEMMA VerifySound ==
  ASSUME AccountInv, NEW c \in AuthCalls, VerifyWrite(c)
  PROVE  AccountInv'
<1>1. /\ oneTime' = [oneTime EXCEPT ![authCall[c].oneTime].state = "SPENT"] /\ EndAuth(c)
      /\ account' = [account EXCEPT !.state = "ACTIVE"] /\ UNCHANGED <<session, refresh>>
  BY DEF VerifyWrite, CompleteEmailVerification
<1>2. /\ account' \in Account /\ account'.password = account.password
      /\ account'.failures = account.failures /\ account'.failed = account.failed
      /\ account'.locked = account.locked
  BY <1>1, Typed DEF Account
<1>3. account'.failures <= account.failures /\ CounterLeads'
  BY <1>2, Typed, CounterKept
<1> QED BY <1>1, <1>2, <1>3, Typed, SpentTyped, RowsKept, SessionsKept, CallEnds

LEMMA ChangeReadSound ==
  ASSUME AccountInv, NEW c \in AuthCalls, NEW s \in Sessions, ChangeRead(c, s)
  PROVE  AccountInv'
<1> DEFINE q == [NoAuthCall EXCEPT !.op = "change", !.pc = "read"]
<1>1. q \in AuthCall /\ q.op = "change"
  BY NoAuthCallTyped DEF AuthCall, NoAuthCall
<1>2. authCall' = [authCall EXCEPT ![c] = q] /\ UNCHANGED <<account, session, refresh, oneTime>>
  BY DEF ChangeRead
<1> HIDE DEF q
<1>3. AuthCallOk(q) /\ ~Opening(q)
  BY <1>1 DEF AuthCallOk, Opening
<1> QED BY <1>1, <1>2, <1>3, CallReads

LEMMA LoginReadSound ==
  ASSUME AccountInv, NEW c \in AuthCalls, LoginRead(c)
  PROVE  AccountInv'
<1> DEFINE q == [NoAuthCall EXCEPT !.op = "login", !.pc = "read", !.password = account.password]
<1>1. q \in AuthCall /\ q.op = "login" /\ q.pc = "read" /\ q.password = account.password
  BY NoAuthCallTyped, Typed DEF AuthCall, NoAuthCall
<1>2. authCall' = [authCall EXCEPT ![c] = q] /\ UNCHANGED <<account, session, refresh, oneTime>>
  BY DEF LoginRead
<1> HIDE DEF q
<1>3. AuthCallOk(q) /\ ~Opening(q)
  BY <1>1 DEF AuthCallOk, Opening
<1> QED BY <1>1, <1>2, <1>3, CallReads

LEMMA LoginFailsSound ==
  ASSUME AccountInv, NEW c \in AuthCalls, LoginFails(c)
  PROVE  AccountInv'
<1> DEFINE q == [NoAuthCall EXCEPT !.op = "fail", !.pc = "counted", !.failed = account.failed,
                                   !.window = account.window, !.locked = account.locked]
<1>1. q \in AuthCall /\ q.op = "fail" /\ q.failed = account.failed
  BY NoAuthCallTyped, Typed DEF AuthCall, NoAuthCall, Account
<1>2. authCall' = [authCall EXCEPT ![c] = q] /\ UNCHANGED <<account, session, refresh, oneTime>>
  BY DEF LoginFails
<1> HIDE DEF q
<1>3. AuthCallOk(q) /\ ~Opening(q)
  BY <1>1, Typed DEF AuthCallOk, Opening, CounterLeads
<1> QED BY <1>1, <1>2, <1>3, CallReads

LEMMA LoginClearsSound ==
  ASSUME AccountInv, NEW c \in AuthCalls, LoginClears(c)
  PROVE  AccountInv'
<1>1. /\ authCall[c] \in AuthCall /\ AuthCallOk(authCall[c])
      /\ authCall[c].op = "login" /\ authCall[c].pc = "read"
  BY DEF AccountInv, AccountTypeOK, LoginClears, OnAuth
<1>0. PICK q \in AuthCall : q = [authCall[c] EXCEPT !.pc = "cleared"]
  BY <1>1 DEF AuthCall
<1>2. /\ q.op = "login" /\ q.pc = "cleared" /\ q.password = authCall[c].password
      /\ q.raced = authCall[c].raced
  BY <1>0, <1>1 DEF AuthCall
<1>3. /\ authCall' = [authCall EXCEPT ![c] = q] /\ account' = Cleared(account)
      /\ UNCHANGED <<session, refresh, oneTime>>
  BY <1>0 DEF LoginClears
<1>4. /\ account' \in Account /\ account'.password = account.password /\ account'.failures = 0
  BY <1>3, Typed, ClearedTyped
<1>5. account'.failures <= account.failures /\ CounterLeads'
  BY <1>4, Typed, ZeroLeads
<1>6. AuthCallOk(q)' /\ ~Opening(q) /\ q.op # "refresh"
  <2>1. authCall[c].raced \/ authCall[c].password = account.password
    BY <1>1 DEF AuthCallOk
  <2>2. q.raced \/ q.password = account'.password
    BY <1>2, <1>4, <2>1
  <2>3. ~Opening(q) /\ q.op = "login"
    BY <1>2 DEF Opening
  <2> QED BY <2>2, <2>3 DEF AuthCallOk, Opening
<1>7. RowsGoOn /\ SessionsFollowPassword'
  BY <1>3, <1>4, RowsKept, SessionsKept
<1>8. /\ session' \in [Sessions -> Session] /\ refresh' \in [RefreshTokens -> Refresh]
      /\ oneTime' \in [OneTimeTokens -> OneTime]
  BY <1>3, Typed
<1> QED BY <1>2, <1>3, <1>4, <1>5, <1>6, <1>7, <1>8, OneCallKeeps

LEMMA DenySound ==
  ASSUME AccountInv, NEW c \in AuthCalls, Deny(c)
  PROVE  AccountInv'
<1>1. EndAuth(c) /\ UNCHANGED <<account, session, refresh, oneTime>>
  BY DEF Deny
<1>2. account'.failures <= account.failures /\ CounterLeads'
  BY <1>1, Typed, CounterKept
<1> QED BY <1>1, <1>2, Typed, RowsKept, SessionsKept, CallEnds

\* A step of one call after which the others go on as Carried has it.
LEMMA CallsKeep ==
  ASSUME AccountInv, NEW c \in AuthCalls, EndsAs(NoAuthCall, c), AccountTypeOK',
         RowsGoOn, SessionsFollowPassword', CounterLeads'
  PROVE  AccountInv'
<1>1. PICK own \in SUBSET AuthCalls : own = {c}
  OBVIOUS
<1>2. authCall'[c] = NoAuthCall /\ \A d \in AuthCalls \ own : Carried(authCall[d], authCall'[d])
  BY <1>1 DEF EndsAs
<1>3. AuthCallOk(authCall[c])'
  BY <1>2, NoCallOk DEF AuthCallOk, Opening, Watched, LiveOf
<1>4. \A e \in AuthCalls \ {c} : Apart(authCall[c], authCall[e])' /\ Apart(authCall[e], authCall[c])'
  BY <1>2, NoCallOk DEF Apart, Opening
<1>5. \A d \in own : /\ AuthCallOk(authCall[d])'
                     /\ \A e \in AuthCalls \ {d} :
                          Apart(authCall[d], authCall[e])' /\ Apart(authCall[e], authCall[d])'
  BY <1>1, <1>3, <1>4
<1> QED BY <1>2, <1>5, AccountKeeps

LEMMA RacedTyped ==
  ASSUME AccountInv, NEW d \in AuthCalls
  PROVE  authCall[d] \in AuthCall /\ [authCall[d] EXCEPT !.raced = TRUE] \in AuthCall
<1>1. PICK v \in AuthCall : v = authCall[d]
  BY DEF AccountInv, AccountTypeOK
<1>2. [v EXCEPT !.raced = TRUE] \in AuthCall
  BY DEF AuthCall
<1> QED BY <1>1, <1>2

\* A failure that is recorded: those being recorded at the same time count as raced.
LEMMA LoginCountedSound ==
  ASSUME AccountInv, NEW c \in AuthCalls, LoginCounted(c)
  PROVE  AccountInv'
<1>1. PICK w \in AuthCall : w = authCall[c]
  BY DEF AccountInv, AccountTypeOK
<1>2. AuthCallOk(w) /\ w.op = "fail"
  BY <1>1 DEF AccountInv, LoginCounted, OnAuth
<1>3. PICK failed \in Nat : failed = IF w.window THEN w.failed + 1 ELSE 1
  BY DEF AuthCall
<1>4. PICK locked \in BOOLEAN : locked = (w.locked \/ (LocksAt(failed) /\ ~w.locked))
  OBVIOUS
<1>5. PICK others \in SUBSET AuthCalls : others = {d \in AuthCalls \ {c} : authCall[d].op = "fail"}
  OBVIOUS
<1>6. PICK failures \in Nat : failures = IF w.raced \/ others # {} THEN 0
                                         ELSE IF w.window THEN account.failures + 1 ELSE 1
  BY Typed
<1>7. /\ account' = [account EXCEPT !.failed = failed, !.window = TRUE, !.locked = locked,
                                    !.failures = failures]
      /\ authCall' = [d \in AuthCalls |-> IF d = c THEN NoAuthCall
                                          ELSE IF d \in others THEN [authCall[d] EXCEPT !.raced = TRUE]
                                          ELSE authCall[d]]
      /\ UNCHANGED <<session, refresh, oneTime>>
  BY <1>1, <1>3, <1>4, <1>5, <1>6 DEF LoginCounted
<1>8. /\ account' \in Account /\ account'.password = account.password
      /\ account'.failures = failures /\ account'.failed = failed /\ account'.locked = locked
  BY <1>7, Typed DEF Account
<1>9. failures <= failed
  <2>1. ~w.raced => account.failures <= w.failed /\ w.failed \in Nat
    BY <1>2 DEF AuthCallOk, AuthCall
  <2> QED BY <1>3, <1>6, <2>1, Typed
<1>10. CounterLeads'
  <2>1. LocksAt(failed) => locked
    BY <1>4
  <2>2. failures >= LockoutThreshold => locked
    BY <1>9, <2>1, AccountConstants DEF LocksAt
  <2> QED BY <1>8, <1>9, <2>2 DEF CounterLeads, LockoutHolds
<1>11. \A d \in AuthCalls : authCall[d] \in AuthCall /\ [authCall[d] EXCEPT !.raced = TRUE] \in AuthCall
  BY RacedTyped
<1>12. authCall' \in [AuthCalls -> AuthCall]
  BY <1>7, <1>11, NoAuthCallTyped
<1>13. \A d \in AuthCalls \ {c} : Carried(authCall[d], authCall'[d])
  <2> SUFFICES ASSUME NEW d \in AuthCalls \ {c} PROVE Carried(authCall[d], authCall'[d])
    OBVIOUS
  <2>1. CASE d \in others
    <3>1. authCall'[d] = [authCall[d] EXCEPT !.raced = TRUE] /\ authCall[d].op = "fail"
      BY <1>5, <1>7, <2>1
    <3> QED BY <1>11, <3>1 DEF Carried, AuthCall
  <2>2. CASE d \notin others
    <3>1. authCall'[d] = authCall[d] /\ authCall[d].op # "fail"
      BY <1>5, <1>7, <2>2
    <3> QED BY <1>8, <3>1 DEF Carried
  <2> QED BY <2>1, <2>2
<1>14. EndsAs(NoAuthCall, c) /\ AccountTypeOK'
  BY <1>7, <1>8, <1>12, <1>13, Typed DEF EndsAs, AccountTypeOK
<1>15. RowsGoOn /\ SessionsFollowPassword'
  BY <1>7, <1>8, RowsKept, SessionsKept
<1> QED BY <1>10, <1>14, <1>15, CallsKeep

\* A new password ends every session, and whoever is logging in has raced it.
LEMMA NewPasswordSound ==
  ASSUME AccountInv, NEW c \in AuthCalls, NewPassword(c), oneTime' \in [OneTimeTokens -> OneTime]
  PROVE  AccountInv'
<1>1. PICK n \in Nat : n = account.password + 1
  BY Typed
<1>2. PICK a \in Account : a = [account EXCEPT !.password = n]
  BY Typed DEF Account
<1>3. account' = Cleared(a)
  BY <1>1, <1>2 DEF NewPassword
<1>4. account' \in Account /\ account'.failures = 0
  BY <1>3, ClearedTyped
<1>5. authCall' = [d \in AuthCalls |->
                     IF d = c THEN NoAuthCall
                     ELSE IF authCall[d].op = "login" /\ authCall[d].pc # "written"
                     THEN [authCall[d] EXCEPT !.raced = TRUE] ELSE authCall[d]]
  BY DEF NewPassword
<1>6. \A d \in AuthCalls : authCall[d] \in AuthCall /\ [authCall[d] EXCEPT !.raced = TRUE] \in AuthCall
  BY RacedTyped
<1>7. authCall' \in [AuthCalls -> AuthCall]
  BY <1>5, <1>6, NoAuthCallTyped
<1>8. account'.failures <= account.failures
  BY <1>4, Typed
<1>9. \A d \in AuthCalls \ {c} : Carried(authCall[d], authCall'[d])
  <2> SUFFICES ASSUME NEW d \in AuthCalls \ {c} PROVE Carried(authCall[d], authCall'[d])
    OBVIOUS
  <2>1. CASE authCall[d].op = "login" /\ authCall[d].pc # "written"
    <3>1. authCall'[d] = [authCall[d] EXCEPT !.raced = TRUE]
      BY <1>5, <2>1
    <3> QED BY <1>6, <1>8, <3>1 DEF Carried, AuthCall
  <2>2. CASE ~(authCall[d].op = "login" /\ authCall[d].pc # "written")
    <3>1. authCall'[d] = authCall[d]
      BY <1>5, <2>2
    <3> QED BY <1>8, <2>2, <3>1 DEF Carried
  <2> QED BY <2>1, <2>2
<1>10. /\ session' = [s \in Sessions |-> IF session[s].state = "ACTIVE" THEN Revoked ELSE session[s]]
       /\ refresh' = [t \in RefreshTokens |-> IF refresh[t].state \in {"ACTIVE", "ROTATED"}
                                              THEN [refresh[t] EXCEPT !.state = "REVOKED"] ELSE refresh[t]]
  BY DEF NewPassword, EndSessions
<1>11. Revoked \in Session /\ Revoked.state = "REVOKED"
  BY DEF Revoked, Session
<1>12. \A t \in RefreshTokens : /\ [refresh[t] EXCEPT !.state = "REVOKED"] \in Refresh
                                /\ [refresh[t] EXCEPT !.state = "REVOKED"].state = "REVOKED"
                                /\ [refresh[t] EXCEPT !.state = "REVOKED"].session = refresh[t].session
  BY Typed DEF Refresh
<1>13. session' \in [Sessions -> Session] /\ \A s \in Sessions : session'[s].state # "ACTIVE"
  BY <1>10, <1>11, Typed
<1>14. refresh' \in [RefreshTokens -> Refresh]
  BY <1>10, <1>12, Typed
<1>15. \A s \in Sessions : session[s].state # "NONE" => session'[s].state # "NONE"
  BY <1>10, <1>11
<1>16. \A t \in RefreshTokens :
         /\ refresh'[t].session = refresh[t].session
         /\ refresh'[t].state = "NONE" <=> refresh[t].state = "NONE"
         /\ refresh'[t].state = "ACTIVE" => refresh[t].state = "ACTIVE"
  BY <1>10, <1>12
<1>17. RowsGoOn /\ SessionsFollowPassword'
  BY <1>13, <1>15, <1>16 DEF RowsGoOn, SessionsFollowPassword
<1>18. EndsAs(NoAuthCall, c) /\ AccountTypeOK' /\ CounterLeads'
  BY <1>4, <1>5, <1>7, <1>9, <1>13, <1>14, ZeroLeads DEF EndsAs, AccountTypeOK
<1> QED BY <1>17, <1>18, CallsKeep

LEMMA ResetWriteSound ==
  ASSUME AccountInv, NEW c \in AuthCalls, ResetWrite(c)
  PROVE  AccountInv'
BY SpentTyped, NewPasswordSound DEF ResetWrite

LEMMA ChangeWriteSound ==
  ASSUME AccountInv, NEW c \in AuthCalls, ChangeWrite(c)
  PROVE  AccountInv'
BY Typed, NewPasswordSound DEF ChangeWrite

-----------------------------------------------------------------------------
(* Accounts: sessions and refresh tokens                                   *)

LEMMA LogoutSound ==
  ASSUME AccountInv, NEW s \in Sessions, Logout(s)
  PROVE  AccountInv'
<1>1. /\ session' = [session EXCEPT ![s] = Revoked] /\ session[s].state = "ACTIVE"
      /\ UNCHANGED <<account, refresh, oneTime, authCall>>
  BY DEF Logout, FindActiveSession
<1>2. Revoked \in Session /\ Revoked.state = "REVOKED"
  BY DEF Revoked, Session
<1>3. /\ session' \in [Sessions -> Session] /\ session'[s] = Revoked
      /\ \A x \in Sessions \ {s} : session'[x] = session[x]
  BY <1>1, <1>2, Typed
<1>4. RowsGoOn /\ SessionsFollowPassword'
  BY <1>1, <1>2, <1>3, Typed DEF RowsGoOn, SessionsFollowPassword
<1>5. AccountTypeOK' /\ CounterLeads'
  BY <1>1, <1>3, Typed, CounterKept DEF AccountInv, AccountTypeOK
<1>6. account'.failures <= account.failures
  BY <1>1, Typed
<1>7. \A d \in AuthCalls : Carried(authCall[d], authCall'[d])
  BY <1>1, <1>6, CarriedOn DEF AccountInv, AccountTypeOK
<1>8. PICK own \in SUBSET AuthCalls : own = {}
  OBVIOUS
<1> QED BY <1>4, <1>5, <1>7, <1>8, AccountKeeps

\* The step of a call that opens or refreshes a session.
LEMMA RowCallKeeps ==
  ASSUME AccountInv, NEW c \in AuthCalls, NEW q \in AuthCall,
         authCall' = [authCall EXCEPT ![c] = q], AuthCallOk(q)',
         \A e \in AuthCalls \ {c} : Apart(q, authCall[e])' /\ Apart(authCall[e], q)',
         \A e \in AuthCalls \ {c} : authCall'[e] = authCall[e],
         UNCHANGED <<account, oneTime>>,
         session' \in [Sessions -> Session], refresh' \in [RefreshTokens -> Refresh],
         RowsGoOn, SessionsFollowPassword'
  PROVE  AccountInv'
<1>1. authCall'[c] = q
  BY DEF AccountInv, AccountTypeOK
<1>2. AccountTypeOK' /\ CounterLeads'
  BY Typed, CounterKept DEF AccountInv, AccountTypeOK
<1>3. account'.failures <= account.failures
  BY Typed
<1>4. \A d \in AuthCalls \ {c} : Carried(authCall[d], authCall'[d])
  BY <1>3, CarriedOn DEF AccountInv, AccountTypeOK
<1>5. AuthCallOk(authCall[c])'
  BY <1>1 DEF AuthCallOk, Opening, Watched, LiveOf
<1>6. \A e \in AuthCalls \ {c} : Apart(authCall[c], authCall[e])' /\ Apart(authCall[e], authCall[c])'
  BY <1>1 DEF Apart, Opening, Watched
<1>7. PICK own \in SUBSET AuthCalls : own = {c}
  OBVIOUS
<1>8. /\ \A d \in AuthCalls \ own : Carried(authCall[d], authCall'[d])
      /\ \A d \in own : /\ AuthCallOk(authCall[d])'
                        /\ \A e \in AuthCalls \ {d} :
                             Apart(authCall[d], authCall[e])' /\ Apart(authCall[e], authCall[d])'
  BY <1>4, <1>5, <1>6, <1>7
<1> QED BY <1>2, <1>8, AccountKeeps

LEMMA UnusedRow ==
  ASSUME NEW rows, Unused(rows) # {}
  PROVE  NewRow(rows) \in DOMAIN rows /\ rows[NewRow(rows)].state = "NONE"
BY DEF NewRow, Unused

\* A session that is opened is one that nobody has opened before.
LEMMA LoginCreatesSound ==
  ASSUME AccountInv, NEW c \in AuthCalls, LoginCreates(c)
  PROVE  AccountInv'
<1>1. PICK w \in AuthCall : w = authCall[c]
  BY DEF AccountInv, AccountTypeOK
<1>2. PICK s \in Sessions : s = NewRow(session) /\ session[s].state = "NONE"
  BY UnusedRow, Typed DEF LoginCreates
<1>3. AuthCallOk(w) /\ w.op = "login" /\ w.pc = "cleared"
  BY <1>1 DEF AccountInv, LoginCreates, OnAuth
<1>4. PICK q \in AuthCall : q = [NoAuthCall EXCEPT !.op = "login", !.pc = "written", !.session = s]
  BY DEF NoAuthCall, AuthCall
<1>5. q.op = "login" /\ q.pc = "written" /\ q.session = s
  BY <1>4 DEF NoAuthCall
<1>6. PICK r \in Session : r = [state |-> "ACTIVE", password |-> w.password, raced |-> w.raced,
                                forked |-> FALSE]
  BY DEF Session, AuthCall
<1>7. /\ session' = [session EXCEPT ![s] = r] /\ authCall' = [authCall EXCEPT ![c] = q]
      /\ UNCHANGED <<account, refresh, oneTime>>
  BY <1>1, <1>2, <1>4, <1>6 DEF LoginCreates
<1>8. /\ session' \in [Sessions -> Session] /\ session'[s] = r
      /\ \A x \in Sessions \ {s} : session'[x] = session[x]
      /\ \A e \in AuthCalls \ {c} : authCall'[e] = authCall[e]
  BY <1>7, Typed DEF AccountInv, AccountTypeOK
<1>9. r.state = "ACTIVE" /\ r.raced = w.raced /\ r.password = w.password
  BY <1>6
<1>10. RowsGoOn
  BY <1>2, <1>7, <1>8 DEF RowsGoOn
<1>11. SessionsFollowPassword'
  <2>1. r.raced \/ r.password = account.password
    BY <1>3, <1>9 DEF AuthCallOk
  <2> QED BY <1>7, <1>8, <2>1, Typed DEF SessionsFollowPassword
<1>12. \A t \in RefreshTokens : refresh[t].session # s
  BY <1>2 DEF AccountInv, TokensPlaced
<1>13. AuthCallOk(q)'
  <2>1. session'[s].state # "NONE" /\ \A t \in RefreshTokens : refresh'[t].session # s
    BY <1>7, <1>8, <1>9, <1>12
  <2> QED BY <1>5, <2>1 DEF AuthCallOk, Opening
<1>14. \A e \in AuthCalls \ {c} : Apart(q, authCall[e])' /\ Apart(authCall[e], q)'
  <2> SUFFICES ASSUME NEW e \in AuthCalls \ {c} PROVE Apart(q, authCall[e])' /\ Apart(authCall[e], q)'
    OBVIOUS
  <2>1. AuthCallOk(authCall[e])
    BY DEF AccountInv
  <2>2. Opening(authCall[e]) => authCall[e].session # s
    BY <1>2, <2>1 DEF AuthCallOk
  <2>3. Opening(authCall'[e]) => authCall'[e].session # s
    BY <1>8, <2>2
  <2> QED BY <1>5, <2>3 DEF Apart, Opening
<1> QED BY <1>7, <1>8, <1>10, <1>11, <1>13, <1>14, Typed, RowCallKeeps

\* A refresh that starts forks the session if another one is under way.
LEMMA RefreshReadSound ==
  ASSUME AccountInv, NEW c \in AuthCalls, NEW t \in RefreshTokens, RefreshRead(c, t)
  PROVE  AccountInv'
<1>1. PICK s \in Sessions : s = refresh[t].session
  BY DEF AccountInv, TokensPlaced, RefreshRead
<1>2. refresh[t].state = "ACTIVE" /\ session[s].state = "ACTIVE"
  BY <1>1 DEF RefreshRead
<1>3. PICK q \in AuthCall : q = [NoAuthCall EXCEPT !.op = "refresh", !.pc = "read",
                                                   !.token = t, !.session = s]
  BY DEF NoAuthCall, AuthCall
<1>4. q.op = "refresh" /\ q.pc = "read" /\ q.token = t /\ q.session = s
  BY <1>3 DEF NoAuthCall
<1>5. PICK f \in BOOLEAN : f = (session[s].forked \/ Refreshing(s))
  OBVIOUS
<1>6. /\ session' = [session EXCEPT ![s].forked = f] /\ authCall' = [authCall EXCEPT ![c] = q]
      /\ UNCHANGED <<account, refresh, oneTime>>
  BY <1>1, <1>3, <1>5 DEF RefreshRead
<1>7. /\ [session[s] EXCEPT !.forked = f] \in Session
      /\ [session[s] EXCEPT !.forked = f].state = session[s].state
      /\ [session[s] EXCEPT !.forked = f].password = session[s].password
      /\ [session[s] EXCEPT !.forked = f].raced = session[s].raced
      /\ [session[s] EXCEPT !.forked = f].forked = f
  <2>1. session[s] \in Session
    BY Typed
  <2> QED BY <2>1 DEF Session
<1>8. /\ session' \in [Sessions -> Session]
      /\ session'[s].state = session[s].state /\ session'[s].password = session[s].password
      /\ session'[s].raced = session[s].raced /\ session'[s].forked = f
      /\ \A x \in Sessions \ {s} : session'[x] = session[x]
  BY <1>6, <1>7, Typed
<1>9. \A e \in AuthCalls \ {c} : authCall'[e] = authCall[e]
  BY <1>6 DEF AccountInv, AccountTypeOK
<1>10. RowsGoOn
  BY <1>5, <1>6, <1>8 DEF RowsGoOn
<1>11. SessionsFollowPassword'
  BY <1>6, <1>8, Typed DEF SessionsFollowPassword
<1>12. AuthCallOk(q)'
  <2>1. Watched(s)' => LiveOf(s)' \subseteq {t}
    <3>1. Watched(s)' => Watched(s)
      BY <1>5, <1>8 DEF Watched
    <3>2. Watched(s) => \A u \in LiveOf(s) : u = t
      BY <1>1, <1>2 DEF AccountInv, LiveUnique, LiveOf
    <3>3. LiveOf(s)' = LiveOf(s)
      BY <1>6 DEF LiveOf
    <3> QED BY <3>1, <3>2, <3>3
  <2>2. session'[s].state # "NONE" /\ refresh'[t].state # "NONE" /\ refresh'[t].session = s
    BY <1>1, <1>2, <1>6, <1>8
  <2> QED BY <1>4, <2>1, <2>2 DEF AuthCallOk, Opening
<1>13. \A e \in AuthCalls \ {c} : Apart(q, authCall[e])' /\ Apart(authCall[e], q)'
  <2> SUFFICES ASSUME NEW e \in AuthCalls \ {c} PROVE Apart(q, authCall[e])' /\ Apart(authCall[e], q)'
    OBVIOUS
  <2>1. authCall'[e].op = "refresh" /\ authCall'[e].session = s => ~Watched(s)'
    BY <1>5, <1>8, <1>9 DEF Refreshing, Watched
  <2> QED BY <1>4, <2>1 DEF Apart, Opening, Watched
<1> QED BY <1>6, <1>8, <1>9, <1>10, <1>11, <1>12, <1>13, Typed, RowCallKeeps

\* Once its token is rotated, the session refreshed has no live one, if it is watched.
LEMMA RefreshRotatesSound ==
  ASSUME AccountInv, NEW c \in AuthCalls, RefreshRotates(c)
  PROVE  AccountInv'
<1>1. PICK w \in AuthCall : w = authCall[c]
  BY DEF AccountInv, AccountTypeOK
<1>2. AuthCallOk(w) /\ w.op = "refresh" /\ w.pc = "read"
  BY <1>1 DEF AccountInv, RefreshRotates, OnAuth
<1>3. PICK t \in RefreshTokens : t = w.token /\ refresh[t].state # "NONE"
                                 /\ refresh[t].session = w.session
                                 /\ (Watched(w.session) => LiveOf(w.session) \subseteq {t})
  BY <1>2 DEF AuthCallOk
<1>4. PICK s \in Sessions : s = w.session /\ session[s].state # "NONE"
  BY <1>2 DEF AuthCallOk
<1>5. PICK q \in AuthCall : q = [w EXCEPT !.pc = "written", !.token = NoRefresh]
  BY DEF AuthCall
<1>6. q.op = "refresh" /\ q.pc = "written" /\ q.session = s
  BY <1>2, <1>4, <1>5 DEF AuthCall
<1>7. refresh' = [refresh EXCEPT ![t].state = "ROTATED"] /\ UNCHANGED <<account, session, oneTime>>
  BY <1>1, <1>3 DEF RefreshRotates
<1>8. authCall' = [authCall EXCEPT ![c] = q]
  BY <1>1, <1>5 DEF RefreshRotates, AccountInv, AccountTypeOK
<1>9. /\ refresh' \in [RefreshTokens -> Refresh] /\ refresh'[t].state = "ROTATED"
      /\ refresh'[t].session = refresh[t].session
      /\ \A u \in RefreshTokens \ {t} : refresh'[u] = refresh[u]
      /\ \A e \in AuthCalls \ {c} : authCall'[e] = authCall[e]
  BY <1>7, <1>8, Typed DEF Refresh, AccountInv, AccountTypeOK
<1>10. RowsGoOn /\ SessionsFollowPassword'
  BY <1>3, <1>7, <1>9, SessionsKept DEF RowsGoOn
<1>11. AuthCallOk(q)'
  <2>1. Watched(s)' => LiveOf(s)' = {}
    BY <1>3, <1>4, <1>7, <1>9 DEF Watched, LiveOf
  <2>2. session'[s].state # "NONE" /\ refresh'[t].session = s
    BY <1>3, <1>4, <1>7, <1>9
  <2> QED BY <1>6, <2>1, <2>2 DEF AuthCallOk, Opening
<1>12. \A e \in AuthCalls \ {c} : Apart(q, authCall[e])' /\ Apart(authCall[e], q)'
  <2> SUFFICES ASSUME NEW e \in AuthCalls \ {c} PROVE Apart(q, authCall[e])' /\ Apart(authCall[e], q)'
    OBVIOUS
  <2>1. authCall[e].op = "refresh" /\ authCall[e].session = s => ~Watched(s)
    BY <1>1, <1>2, <1>4 DEF AccountInv, Apart
  <2>2. authCall'[e].op = "refresh" /\ authCall'[e].session = s => ~Watched(s)'
    BY <1>7, <1>9, <2>1 DEF Watched
  <2> QED BY <1>6, <2>2 DEF Apart, Opening, Watched
<1> QED BY <1>7, <1>8, <1>9, <1>10, <1>11, <1>12, Typed, RowCallKeeps

LEMMA ReuseRevokesSound ==
  ASSUME AccountInv, NEW c \in AuthCalls, NEW t \in RefreshTokens, ReuseRevokes(c, t)
  PROVE  AccountInv'
<1>1. PICK s \in Sessions : s = refresh[t].session /\ session[s].state # "NONE"
  BY DEF AccountInv, TokensPlaced, ReuseRevokes
<1>2. PICK q \in AuthCall : q = [NoAuthCall EXCEPT !.op = "reuse", !.pc = "written", !.session = s]
  BY DEF NoAuthCall, AuthCall
<1>3. q.op = "reuse" /\ q.session = s
  BY <1>2 DEF NoAuthCall
<1>4. /\ refresh' = [u \in RefreshTokens |->
                       IF refresh[u].session = s /\ refresh[u].state \in {"ACTIVE", "ROTATED"}
                       THEN [refresh[u] EXCEPT !.state = "REVOKED"] ELSE refresh[u]]
      /\ authCall' = [authCall EXCEPT ![c] = q] /\ UNCHANGED <<account, session, oneTime>>
  BY <1>1, <1>2 DEF ReuseRevokes
<1>5. \A u \in RefreshTokens : /\ [refresh[u] EXCEPT !.state = "REVOKED"] \in Refresh
                               /\ [refresh[u] EXCEPT !.state = "REVOKED"].state = "REVOKED"
                               /\ [refresh[u] EXCEPT !.state = "REVOKED"].session = refresh[u].session
  BY Typed DEF Refresh
<1>6. refresh' \in [RefreshTokens -> Refresh]
  BY <1>4, <1>5, Typed
<1>7. RowsGoOn /\ SessionsFollowPassword'
  BY <1>4, <1>5, SessionsKept DEF RowsGoOn
<1>8. AuthCallOk(q)' /\ ~Opening(q)
  BY <1>1, <1>3, <1>4 DEF AuthCallOk, Opening
<1>9. account'.failures <= account.failures /\ CounterLeads'
  BY <1>4, Typed, CounterKept
<1> QED BY <1>3, <1>4, <1>6, <1>7, <1>8, <1>9, Typed, OneCallKeeps

LEMMA ReuseEndsSound ==
  ASSUME AccountInv, NEW c \in AuthCalls, ReuseEnds(c)
  PROVE  AccountInv'
<1>1. PICK s \in Sessions : s = authCall[c].session /\ session[s].state # "NONE"
  BY DEF AccountInv, AuthCallOk, ReuseEnds, OnAuth
<1>2. /\ session' = [session EXCEPT ![s] = Revoked] /\ EndAuth(c)
      /\ UNCHANGED <<account, refresh, oneTime>>
  BY <1>1 DEF ReuseEnds
<1>3. Revoked \in Session /\ Revoked.state = "REVOKED"
  BY DEF Revoked, Session
<1>4. /\ session' \in [Sessions -> Session] /\ session'[s] = Revoked
      /\ \A x \in Sessions \ {s} : session'[x] = session[x]
  BY <1>2, <1>3, Typed
<1>5. RowsGoOn /\ SessionsFollowPassword'
  BY <1>2, <1>3, <1>4, Typed DEF RowsGoOn, SessionsFollowPassword
<1>6. account'.failures <= account.failures /\ CounterLeads'
  BY <1>2, Typed, CounterKept
<1> QED BY <1>2, <1>4, <1>5, <1>6, Typed, CallEnds

-----------------------------------------------------------------------------
(* Accounts: the next refresh token of a session                           *)

\* What another call relies on, once the session s has the new token t.
LEMMA OtherCallIssue ==
  ASSUME AccountInv, NEW s \in Sessions, NEW t \in RefreshTokens, refresh[t].state = "NONE",
         refresh'[t].session = s, \A u \in RefreshTokens \ {t} : refresh'[u] = refresh[u],
         UNCHANGED <<account, session>>,
         NEW w \in AuthCall, AuthCallOk(w), Opening(w) => w.session # s,
         w.op = "refresh" /\ w.session = s => ~Watched(s)
  PROVE  AuthCallOk(w)'
<1>1. /\ w.op = "login" /\ w.pc \in {"read", "cleared"} => w.raced \/ w.password = account'.password
      /\ w.op = "fail" /\ ~w.raced => account'.failures <= w.failed
      /\ w.op = "confirm" => w.oneTime \in OneTimeTokens
      /\ Opening(w) \/ w.op \in {"refresh", "reuse"} =>
           w.session \in Sessions /\ session'[w.session].state # "NONE"
  BY DEF AuthCallOk
<1>2. Opening(w) => \A u \in RefreshTokens : refresh'[u].session # w.session
  BY DEF AuthCallOk
<1>3. \A u \in RefreshTokens : refresh[u].session \in Sessions => u # t
  BY DEF AccountInv, TokensPlaced
<1>4. ASSUME w.op = "refresh"
      PROVE  /\ \E u \in RefreshTokens : refresh'[u].session = w.session
             /\ w.pc = "read" =>
                  /\ w.token \in RefreshTokens /\ refresh'[w.token].state # "NONE"
                  /\ refresh'[w.token].session = w.session
                  /\ Watched(w.session)' => LiveOf(w.session)' \subseteq {w.token}
             /\ w.pc # "read" => (Watched(w.session)' => LiveOf(w.session)' = {})
  <2>1. w.session \in Sessions /\ \E u \in RefreshTokens : refresh[u].session = w.session
    BY <1>4 DEF AuthCallOk
  <2>2. \E u \in RefreshTokens : refresh'[u].session = w.session
    BY <1>3, <2>1
  <2>3. w.pc = "read" => /\ w.token \in RefreshTokens /\ refresh'[w.token].state # "NONE"
                         /\ refresh'[w.token].session = w.session
    BY <1>3, <1>4, <2>1 DEF AuthCallOk
  <2>4. Watched(w.session)' => Watched(w.session) /\ w.session # s
    BY <1>4 DEF Watched
  <2>5. w.session # s => LiveOf(w.session)' \subseteq LiveOf(w.session)
    BY DEF LiveOf
  <2>6. /\ w.pc = "read" /\ Watched(w.session) => LiveOf(w.session) \subseteq {w.token}
        /\ w.pc # "read" /\ Watched(w.session) => LiveOf(w.session) = {}
    BY <1>4 DEF AuthCallOk
  <2> QED BY <2>2, <2>3, <2>4, <2>5, <2>6
<1>5. /\ w.op = "refresh" => \E u \in RefreshTokens : refresh'[u].session = w.session
      /\ w.op = "refresh" /\ w.pc = "read" =>
           /\ w.token \in RefreshTokens /\ refresh'[w.token].state # "NONE"
           /\ refresh'[w.token].session = w.session
           /\ Watched(w.session)' => LiveOf(w.session)' \subseteq {w.token}
      /\ w.op = "refresh" /\ w.pc # "read" => (Watched(w.session)' => LiveOf(w.session)' = {})
  BY <1>4
<1> QED BY <1>1, <1>2, <1>5 DEF AuthCallOk, Opening, Watched, LiveOf

LEMMA IssueKeeps ==
  ASSUME AccountInv, NEW c \in AuthCalls, EndAuth(c), NEW s \in Sessions,
         session[s].state # "NONE", Watched(s) => LiveOf(s) = {}, NewRefresh(s),
         \A d \in AuthCalls \ {c} :
           /\ Opening(authCall[d]) => authCall[d].session # s
           /\ authCall[d].op = "refresh" /\ authCall[d].session = s => ~Watched(s),
         UNCHANGED <<account, session, oneTime>>
  PROVE  AccountInv'
<1>1. PICK t \in RefreshTokens : t = NewRow(refresh) /\ refresh[t].state = "NONE"
  BY UnusedRow, Typed DEF NewRefresh
<1>2. PICK r \in Refresh : r = [state |-> "ACTIVE", session |-> s]
  BY DEF Refresh
<1>3. refresh' = [refresh EXCEPT ![t] = r] /\ r.state = "ACTIVE" /\ r.session = s
  BY <1>1, <1>2 DEF NewRefresh
<1>4. /\ refresh' \in [RefreshTokens -> Refresh] /\ refresh'[t] = r
      /\ \A u \in RefreshTokens \ {t} : refresh'[u] = refresh[u]
  BY <1>3, Typed
<1>5. authCall'[c] = NoAuthCall /\ \A d \in AuthCalls \ {c} : authCall'[d] = authCall[d]
  BY DEF EndAuth, AccountInv, AccountTypeOK
<1>6. authCall' \in [AuthCalls -> AuthCall]
  BY NoAuthCallTyped DEF EndAuth, AccountInv, AccountTypeOK
<1>7. AccountTypeOK' /\ SessionsFollowPassword' /\ CounterLeads'
  BY <1>4, <1>6, Typed, SessionsKept, CounterKept DEF AccountTypeOK
<1>8. TokensPlaced'
  BY <1>3, <1>4 DEF AccountInv, TokensPlaced
<1>9. LiveUnique'
  <2> SUFFICES ASSUME NEW x \in Sessions, Watched(x)' PROVE \A u, v \in LiveOf(x)' : u = v
    BY DEF LiveUnique
  <2>1. Watched(x) /\ \A u, v \in LiveOf(x) : u = v
    BY DEF AccountInv, LiveUnique, Watched
  <2>2. CASE x = s
    <3>1. LiveOf(x)' \subseteq {t}
      BY <1>4, <2>1, <2>2 DEF LiveOf
    <3> QED BY <3>1
  <2>3. CASE x # s
    <3>1. LiveOf(x)' \subseteq LiveOf(x)
      BY <1>3, <1>4, <2>3 DEF LiveOf
    <3> QED BY <2>1, <3>1
  <2> QED BY <2>2, <2>3
<1>10. ASSUME NEW d \in AuthCalls PROVE AuthCallOk(authCall[d])'
  <2>1. CASE d = c
    BY <1>5, <2>1, NoCallOk DEF AuthCallOk, Opening, Watched, LiveOf
  <2>2. CASE d # c
    <3>1. PICK w \in AuthCall : w = authCall[d]
      BY DEF AccountInv, AccountTypeOK
    <3>2. /\ AuthCallOk(w) /\ (Opening(w) => w.session # s)
          /\ w.op = "refresh" /\ w.session = s => ~Watched(s)
      BY <2>2, <3>1 DEF AccountInv
    <3>3. AuthCallOk(w)'
      BY <1>1, <1>3, <1>4, <3>2, OtherCallIssue
    <3>4. authCall'[d] = w
      BY <1>5, <2>2, <3>1
    <3> QED BY <3>3, <3>4 DEF AuthCallOk, Opening, Watched, LiveOf
  <2> QED BY <2>1, <2>2
<1>11. ASSUME NEW d \in AuthCalls, NEW e \in AuthCalls, d # e PROVE Apart(authCall[d], authCall[e])'
  <2>1. CASE d = c \/ e = c
    BY <1>5, <2>1, NoCallOk DEF Apart, Opening
  <2>2. CASE d # c /\ e # c
    <3>1. Apart(authCall[d], authCall[e])
      BY <1>11 DEF AccountInv
    <3> QED BY <1>5, <2>2, <3>1 DEF Apart, Opening, Watched
  <2> QED BY <2>1, <2>2
<1> QED BY <1>7, <1>8, <1>9, <1>10, <1>11 DEF AccountInv

\* The first token of a session that nobody else opens, or refreshes yet.
LEMMA LoginIssuesSound ==
  ASSUME AccountInv, NEW c \in AuthCalls, LoginIssues(c)
  PROVE  AccountInv'
<1>1. /\ AuthCallOk(authCall[c]) /\ Opening(authCall[c]) /\ EndAuth(c)
      /\ NewRefresh(authCall[c].session) /\ UNCHANGED <<account, session, oneTime>>
  BY DEF AccountInv, LoginIssues, OnAuth, Opening
<1>2. PICK s \in Sessions : /\ s = authCall[c].session /\ session[s].state # "NONE"
                            /\ \A t \in RefreshTokens : refresh[t].session # s
  BY <1>1 DEF AuthCallOk
<1>3. LiveOf(s) = {}
  BY <1>2 DEF LiveOf
<1>4. ASSUME NEW d \in AuthCalls \ {c}
      PROVE  /\ Opening(authCall[d]) => authCall[d].session # s
             /\ ~(authCall[d].op = "refresh" /\ authCall[d].session = s)
  <2>1. AuthCallOk(authCall[d]) /\ Apart(authCall[c], authCall[d])
    BY DEF AccountInv
  <2>2. Opening(authCall[d]) => authCall[d].session # s
    BY <1>1, <1>2, <2>1 DEF Apart
  <2>3. ~(authCall[d].op = "refresh" /\ authCall[d].session = s)
    BY <1>2, <2>1 DEF AuthCallOk
  <2> QED BY <2>2, <2>3
<1> QED BY <1>1, <1>2, <1>3, <1>4, IssueKeeps

LEMMA RefreshIssuesSound ==
  ASSUME AccountInv, NEW c \in AuthCalls, RefreshIssues(c)
  PROVE  AccountInv'
<1>1. /\ AuthCallOk(authCall[c]) /\ authCall[c].op = "refresh" /\ authCall[c].pc = "written"
      /\ EndAuth(c) /\ NewRefresh(authCall[c].session) /\ UNCHANGED <<account, session, oneTime>>
  BY DEF AccountInv, RefreshIssues, OnAuth
<1>2. PICK s \in Sessions : /\ s = authCall[c].session /\ session[s].state # "NONE"
                            /\ Watched(s) => LiveOf(s) = {}
                            /\ \E t \in RefreshTokens : refresh[t].session = s
  BY <1>1 DEF AuthCallOk
<1>3. ASSUME NEW d \in AuthCalls \ {c}
      PROVE  /\ Opening(authCall[d]) => authCall[d].session # s
             /\ authCall[d].op = "refresh" /\ authCall[d].session = s => ~Watched(s)
  <2>1. AuthCallOk(authCall[d]) /\ Apart(authCall[c], authCall[d])
    BY DEF AccountInv
  <2>2. Opening(authCall[d]) => authCall[d].session # s
    BY <1>2, <2>1 DEF AuthCallOk
  <2>3. authCall[d].op = "refresh" /\ authCall[d].session = s => ~Watched(s)
    BY <1>1, <1>2, <2>1 DEF Apart
  <2> QED BY <2>2, <2>3
<1> QED BY <1>1, <1>2, <1>3, IssueKeeps

-----------------------------------------------------------------------------
(* Accounts: the theorems                                                  *)

LEMMA AccountStarts == AccountInit => AccountInv
<1> SUFFICES ASSUME AccountInit PROVE AccountInv
  OBVIOUS
<1>1. AccountTypeOK
  BY NoAuthCallTyped DEF AccountInit, AccountTypeOK, Account, Session, Refresh, OneTime
<1>2. /\ \A s \in Sessions : session[s].state = "NONE"
      /\ \A t \in RefreshTokens : refresh[t].state = "NONE" /\ refresh[t].session = NoSession
      /\ \A c \in AuthCalls : authCall[c] = NoAuthCall
      /\ account.failures = 0 /\ account.failed = 0
  BY DEF AccountInit
<1>3. SessionsFollowPassword /\ LiveUnique /\ TokensPlaced /\ CounterLeads
  BY <1>2, AccountConstants
  DEF SessionsFollowPassword, LiveUnique, LiveOf, TokensPlaced, CounterLeads, LockoutHolds
<1>4. \A c \in AuthCalls : AuthCallOk(authCall[c])
  BY <1>2, NoAuthCallTyped DEF AuthCallOk, Opening
<1>5. \A c, d \in AuthCalls : c # d => Apart(authCall[c], authCall[d])
  BY <1>2, NoAuthCallTyped DEF Apart, Opening
<1> QED BY <1>1, <1>3, <1>4, <1>5 DEF AccountInv

LEMMA AccountStep == AccountInv /\ AccountNext => AccountInv'
<1> SUFFICES ASSUME AccountInv, AccountNext PROVE AccountInv'
  OBVIOUS
<1>1. CASE Register \/ RequestReset \/ WindowEnds \/ LockEnds \/ \E s \in Sessions : Logout(s)
  BY <1>1, RegisterSound, RequestResetSound, WindowEndsSound, LockEndsSound, LogoutSound
<1>2. CASE \E c \in AuthCalls : \/ \E k \in OneTimeTokens : ConfirmRead(c, k)
                                \/ ConfirmExpired(c) \/ VerifyWrite(c) \/ ResetWrite(c)
                                \/ \E s \in Sessions : ChangeRead(c, s)
                                \/ ChangeWrite(c)
  BY <1>2, ConfirmReadSound, ConfirmExpiredSound, VerifySound, ResetWriteSound, ChangeReadSound,
     ChangeWriteSound
<1>3. CASE \E c \in AuthCalls : \/ LoginRead(c) \/ LoginFails(c) \/ LoginCounted(c)
                                \/ LoginClears(c) \/ LoginCreates(c) \/ LoginIssues(c) \/ Deny(c)
  BY <1>3, LoginReadSound, LoginFailsSound, LoginCountedSound, LoginClearsSound, LoginCreatesSound,
     LoginIssuesSound, DenySound
<1>4. CASE \E c \in AuthCalls : \/ \E t \in RefreshTokens : RefreshRead(c, t) \/ ReuseRevokes(c, t)
                                \/ RefreshRotates(c) \/ RefreshIssues(c) \/ ReuseEnds(c)
  BY <1>4, RefreshReadSound, ReuseRevokesSound, RefreshRotatesSound, RefreshIssuesSound, ReuseEndsSound
<1> QED BY <1>1, <1>2, <1>3, <1>4 DEF AccountNext

LEMMA AccountStutter == AccountInv /\ UNCHANGED accountVars => AccountInv'
<1> SUFFICES ASSUME AccountInv, UNCHANGED accountVars PROVE AccountInv'
  OBVIOUS
<1>1. UNCHANGED <<account, session, refresh, oneTime, authCall>>
  BY DEF accountVars
<1>2. account'.failures <= account.failures /\ CounterLeads'
  BY <1>1, Typed, CounterKept
<1> QED BY <1>1, <1>2, Typed, NoCallKeeps

\* The rows have their types; a session follows the password unless its login
\* raced a change; tokens belong to sessions that exist; a session that lives and
\* that nobody refreshed twice at a time has at most one live token, none while a
\* login or a refresh still owes it one; the counter that locks is never behind the
\* failures recorded one at a time (auth-session.repository.ts, auth-token.service.ts).
THEOREM AccountInvariant == AccountSpec => []AccountInv
<1>1. AccountInit => AccountInv
  BY AccountStarts
<1>2. AccountInv /\ [AccountNext]_accountVars => AccountInv'
  BY AccountStep, AccountStutter
<1> QED BY <1>1, <1>2, PTL DEF AccountSpec

LEMMA OneLive ==
  ASSUME AccountInv, NEW s \in Sessions, Watched(s)
  PROVE  Cardinality(LiveOf(s)) <= 1
<1>1. \A t, u \in LiveOf(s) : t = u
  BY DEF AccountInv, LiveUnique
<1>2. CASE LiveOf(s) = {}
  BY <1>2, FS_EmptySet
<1>3. CASE LiveOf(s) # {}
  <2>1. PICK t \in LiveOf(s) : TRUE
    BY <1>3
  <2>2. LiveOf(s) = {t}
    BY <1>1, <2>1
  <2> QED BY <2>2, FS_Singleton
<1> QED BY <1>2, <1>3

\* After a new password no session opened with an old one lives on, but those whose
\* login was under way; a session has one live refresh token unless it was refreshed
\* twice at a time; as many wrong passwords as the threshold lock the account
\* (recordFailedLoginAttempt of auth-session.repository.ts, rotation in auth-token.service.ts).
THEOREM AccountsAreSound == AccountSpec => []AccountsSound
<1>1. AccountInv => AccountsSound
  <2> SUFFICES ASSUME AccountInv PROVE AccountsSound
    OBVIOUS
  <2>1. SessionsFollowPassword /\ LockoutHolds
    BY DEF AccountInv, CounterLeads
  <2>2. OneLiveToken
    BY OneLive DEF OneLiveToken, LiveOf, Watched
  <2> QED BY <2>1, <2>2 DEF AccountsSound
<1> QED BY <1>1, AccountInvariant, PTL

-----------------------------------------------------------------------------
(* Rate limits: the invariant                                              *)

WaitsFor(q, b) == q.pc = "counted" /\ q.bucket = b

Waiting(b) == {a \in Attempts : WaitsFor(attempt[a], b)}

\* Every request a bucket has counted was allowed, was refused or still waits.
Tally ==
  \A b \in Buckets :
    bucket[b].allowed + bucket[b].refused + Cardinality(Waiting(b)) = bucket[b].count

\* The bucket of the map is the last of its key: the others ended before it began.
Succession ==
  /\ \A k \in RateKeys :
       bucketOf[k] # NoBucket => Made(bucketOf[k]) /\ bucket[bucketOf[k]].key = k
  /\ \A b \in Buckets : Made(b) =>
       LET k == bucket[b].key IN
       /\ k \in RateKeys /\ bucketOf[k] # NoBucket
       /\ b = bucketOf[k] \/ bucket[b].expiresAt + WindowSeconds <= bucket[bucketOf[k]].expiresAt
  /\ \A b \in Buckets : bucket[b].expiresAt <= time + WindowSeconds

\* Requests under way hold a bucket that was made.
HoldsBucket(q) ==
  /\ q.pc # "idle" => q.bucket \in Buckets /\ Made(q.bucket)
  /\ q.pc = "refused" => bucket[q.bucket].expiresAt <= q.retryAt

RateInv ==
  /\ RateTypeOK
  /\ Tally
  /\ Succession
  /\ WithinLimit /\ RefusedForCause /\ WindowsApart
  /\ \A a \in Attempts : HoldsBucket(attempt[a])

-----------------------------------------------------------------------------
(* Rate limits: helpers                                                    *)

LEMMA LimitTyped == ASSUME NEW k \in RateKeys PROVE Limit(k) \in Nat \ {0}
BY RateConstants DEF Limit, RateKeys

LEMMA RateTyped ==
  ASSUME RateInv
  PROVE  /\ \A a \in Attempts : attempt[a] \in Attempt
         /\ \A b \in Buckets : /\ bucket[b] \in Bucket /\ bucket[b].count \in Nat
                               /\ bucket[b].allowed \in Nat /\ bucket[b].refused \in Nat
                               /\ bucket[b].expiresAt \in Nat
         /\ \A k \in RateKeys : bucketOf[k] \in Buckets \cup {NoBucket}
         /\ time \in Nat /\ WindowSeconds \in Nat /\ WindowSeconds > 0
BY RateConstants DEF RateInv, RateTypeOK, Bucket

LEMMA WaitingFinite ==
  \A b \in Buckets : IsFiniteSet(Waiting(b)) /\ Cardinality(Waiting(b)) \in Nat
<1> SUFFICES ASSUME NEW b \in Buckets
             PROVE  IsFiniteSet(Waiting(b)) /\ Cardinality(Waiting(b)) \in Nat
  OBVIOUS
<1>1. Waiting(b) \subseteq Attempts /\ IsFiniteSet(Attempts)
  BY RateConstants DEF Waiting
<1>2. IsFiniteSet(Waiting(b))
  BY <1>1, FS_Subset
<1> QED BY <1>2, FS_CardinalityType

\* One request that goes on: who waits for which bucket.
LEMMA WaitingMoves ==
  ASSUME RateInv, NEW a \in Attempts, NEW q \in Attempt, attempt' = [attempt EXCEPT ![a] = q],
         NEW b \in Buckets
  PROVE  /\ (WaitsFor(attempt[a], b) <=> WaitsFor(q, b)) => Waiting(b)' = Waiting(b)
         /\ ~WaitsFor(attempt[a], b) /\ WaitsFor(q, b) =>
              Cardinality(Waiting(b)') = Cardinality(Waiting(b)) + 1
         /\ WaitsFor(attempt[a], b) /\ ~WaitsFor(q, b) =>
              Cardinality(Waiting(b)') = Cardinality(Waiting(b)) - 1 /\ Cardinality(Waiting(b)) > 0
<1>1. /\ attempt'[a] = q /\ \A d \in Attempts \ {a} : attempt'[d] = attempt[d]
      /\ IsFiniteSet(Waiting(b)) /\ Cardinality(Waiting(b)) \in Nat
  BY WaitingFinite DEF RateInv, RateTypeOK
<1>2. (WaitsFor(attempt[a], b) <=> WaitsFor(q, b)) => Waiting(b)' = Waiting(b)
  BY <1>1 DEF Waiting, WaitsFor
<1>3. ASSUME ~WaitsFor(attempt[a], b), WaitsFor(q, b)
      PROVE  Cardinality(Waiting(b)') = Cardinality(Waiting(b)) + 1
  <2>1. Waiting(b)' = Waiting(b) \cup {a} /\ a \notin Waiting(b)
    BY <1>1, <1>3 DEF Waiting, WaitsFor
  <2> QED BY <1>1, <2>1, FS_AddElement
<1>4. ASSUME WaitsFor(attempt[a], b), ~WaitsFor(q, b)
      PROVE  Cardinality(Waiting(b)') = Cardinality(Waiting(b)) - 1 /\ Cardinality(Waiting(b)) > 0
  <2>1. Waiting(b)' = Waiting(b) \ {a} /\ a \in Waiting(b)
    BY <1>1, <1>4 DEF Waiting, WaitsFor
  <2>2. Cardinality(Waiting(b)') = Cardinality(Waiting(b)) - 1
    BY <1>1, <2>1, FS_RemoveElement
  <2>3. Cardinality(Waiting(b)) # 0
    BY <1>1, <2>1, FS_EmptySet
  <2> QED BY <1>1, <2>2, <2>3
<1> QED BY <1>2, <1>3, <1>4

-----------------------------------------------------------------------------
(* Rate limits: steps                                                      *)

\* Buckets that keep their keys and windows, and go on being made.
BucketsGoOn ==
  \A b \in Buckets : /\ bucket'[b].key = bucket[b].key
                     /\ bucket'[b].expiresAt = bucket[b].expiresAt
                     /\ Made(b)' <=> Made(b)

\* A request that goes on as q, while one bucket counts: the windows stay.
LEMMA WindowsStay ==
  ASSUME RateInv, BucketsGoOn, UNCHANGED <<bucketOf, time>>
  PROVE  Succession' /\ WindowsApart'
<1>1. Succession'
  <2>1. Succession /\ bucketOf' = bucketOf /\ time' = time
    BY DEF RateInv
  <2>2. (\A k \in RateKeys :
           bucketOf[k] # NoBucket => bucketOf[k] \in Buckets /\ Made(bucketOf[k]) /\ bucket[bucketOf[k]].key = k)'
    BY <2>1, RateTyped DEF Succession, BucketsGoOn
  <2>3. \A b \in Buckets : bucket'[b].expiresAt <= time' + WindowSeconds
    BY <2>1 DEF Succession, BucketsGoOn
  <2>4. ASSUME NEW b \in Buckets, Made(b)', NEW k, k = bucket'[b].key
        PROVE  /\ k \in RateKeys /\ bucketOf'[k] # NoBucket
               /\ b = bucketOf'[k] \/ bucket'[b].expiresAt + WindowSeconds <= bucket'[bucketOf'[k]].expiresAt
    <3>1. Made(b) /\ k = bucket[b].key
      BY <2>4 DEF BucketsGoOn
    <3>2. k \in RateKeys /\ bucketOf[k] # NoBucket /\ bucketOf[k] \in Buckets
      BY <2>1, <3>1, RateTyped DEF Succession
    <3>3. b = bucketOf[k] \/ bucket[b].expiresAt + WindowSeconds <= bucket[bucketOf[k]].expiresAt
      BY <2>1, <3>1 DEF Succession
    <3> QED BY <2>1, <3>2, <3>3 DEF BucketsGoOn
  <2> QED BY <2>2, <2>3, <2>4 DEF Succession
<1>2. WindowsApart'
  BY DEF RateInv, WindowsApart, BucketsGoOn
<1> QED BY <1>1, <1>2

LEMMA OthersHold ==
  ASSUME RateInv, NEW a \in Attempts, NEW q \in Attempt, attempt' = [attempt EXCEPT ![a] = q],
         HoldsBucket(q)', NEW new, new \notin Buckets \/ ~Made(new),
         \A b \in Buckets \ {new} : bucket'[b].expiresAt = bucket[b].expiresAt /\ (Made(b) => Made(b)')
  PROVE  \A d \in Attempts : HoldsBucket(attempt[d])'
<1> SUFFICES ASSUME NEW d \in Attempts PROVE HoldsBucket(attempt[d])'
  OBVIOUS
<1>1. attempt'[a] = q /\ (d # a => attempt'[d] = attempt[d])
  BY DEF RateInv, RateTypeOK
<1>2. CASE d = a
  BY <1>1, <1>2 DEF HoldsBucket, Made
<1>3. CASE d # a
  <2>1. HoldsBucket(attempt[d])
    BY DEF RateInv
  <2>2. attempt[d].pc # "idle" => attempt[d].bucket \in Buckets \ {new}
    BY <2>1 DEF HoldsBucket
  <2> QED BY <1>1, <1>3, <2>1, <2>2 DEF HoldsBucket
<1> QED BY <1>2, <1>3

LEMMA NoAttemptTyped == NoAttempt \in Attempt /\ NoAttempt.pc = "idle"
BY DEF NoAttempt, Attempt

\* What Allows, Refuses and CountsOn do: one bucket goes from r to n.
LEMMA OneBucketKeeps ==
  ASSUME RateInv, NEW a \in Attempts, NEW q \in Attempt, attempt' = [attempt EXCEPT ![a] = q],
         HoldsBucket(q)', NEW b \in Buckets, Made(b), NEW n \in Bucket,
         bucket' = [bucket EXCEPT ![b] = n], UNCHANGED <<bucketOf, time>>,
         n.key = bucket[b].key, n.expiresAt = bucket[b].expiresAt, n.count > 0,
         n.allowed <= Limit(n.key), n.refused > 0 => n.count > Limit(n.key),
         n.allowed + n.refused + Cardinality(Waiting(b)') = n.count,
         \A d \in Buckets \ {b} : ~WaitsFor(attempt[a], d) /\ ~WaitsFor(q, d)
  PROVE  RateInv'
<1>1. /\ bucket' \in [Buckets -> Bucket] /\ bucket'[b] = n
      /\ \A d \in Buckets \ {b} : bucket'[d] = bucket[d]
  BY DEF RateInv, RateTypeOK
<1>2. RateTypeOK'
  BY <1>1 DEF RateInv, RateTypeOK
<1>3. BucketsGoOn
  BY <1>1 DEF BucketsGoOn, Made
<1>4. Tally'
  <2> SUFFICES ASSUME NEW d \in Buckets
               PROVE  (bucket[d].allowed + bucket[d].refused + Cardinality(Waiting(d)) = bucket[d].count)'
    BY DEF Tally
  <2>1. CASE d = b
    BY <1>1, <2>1
  <2>2. CASE d # b
    <3>1. Waiting(d)' = Waiting(d)
      BY <2>2, WaitingMoves
    <3> QED BY <1>1, <2>2, <3>1 DEF RateInv, Tally
  <2> QED BY <2>1, <2>2
<1>5. WithinLimit' /\ RefusedForCause'
  <2>1. \A d \in Buckets \ {b} : /\ Made(d) => bucket'[d].allowed <= Limit(bucket'[d].key)
                                 /\ bucket'[d].refused > 0 => bucket'[d].count > Limit(bucket'[d].key)
    BY <1>1 DEF RateInv, WithinLimit, RefusedForCause
  <2> QED BY <1>1, <1>3, <2>1 DEF WithinLimit, RefusedForCause, BucketsGoOn
<1>6. PICK none : none \notin Buckets
  BY RateConstants
<1>7. \A d \in Attempts : HoldsBucket(attempt[d])'
  BY <1>3, <1>6, OthersHold DEF BucketsGoOn
<1> QED BY <1>2, <1>3, <1>4, <1>5, <1>7, WindowsStay DEF RateInv

LEMMA CountsOnSound ==
  ASSUME RateInv, NEW a \in Attempts, NEW k \in RateKeys, CountsOn(a, k)
  PROVE  RateInv'
<1>1. PICK b \in Buckets : b = bucketOf[k] /\ Made(b) /\ bucket[b].key = k
  BY RateTyped DEF CountsOn, Open, RateInv, Succession
<1>2. PICK q \in Attempt : q = [NoAttempt EXCEPT !.pc = "counted", !.bucket = b, !.now = time]
  BY RateTyped DEF NoAttempt, Attempt
<1>3. q.pc = "counted" /\ q.bucket = b
  BY <1>2 DEF NoAttempt
<1>4. PICK m \in Nat : m = bucket[b].count + 1
  BY RateTyped
<1>5. PICK n \in Bucket : n = [bucket[b] EXCEPT !.count = m]
  BY RateTyped DEF Bucket
<1>6. /\ n.key = k /\ n.expiresAt = bucket[b].expiresAt /\ n.count = m
      /\ n.allowed = bucket[b].allowed /\ n.refused = bucket[b].refused
  BY <1>1, <1>5, RateTyped DEF Bucket
<1>7. /\ attempt[a].pc = "idle" /\ attempt' = [attempt EXCEPT ![a] = q]
      /\ bucket' = [bucket EXCEPT ![b] = n] /\ UNCHANGED <<bucketOf, time>>
  BY <1>1, <1>2, <1>4, <1>5 DEF CountsOn, Awaits
<1>8. ~WaitsFor(attempt[a], b) /\ WaitsFor(q, b)
  BY <1>3, <1>7 DEF WaitsFor
<1>9. Cardinality(Waiting(b)') = Cardinality(Waiting(b)) + 1
  BY <1>7, <1>8, WaitingMoves
<1>10. n.allowed + n.refused + Cardinality(Waiting(b)') = n.count
  BY <1>4, <1>6, <1>9, RateTyped, WaitingFinite DEF RateInv, Tally
<1>11. n.allowed <= Limit(n.key) /\ (n.refused > 0 => n.count > Limit(n.key)) /\ n.count > 0
  <2>1. /\ bucket[b].allowed <= Limit(k)
        /\ bucket[b].refused > 0 => bucket[b].count > Limit(k)
    BY <1>1 DEF RateInv, WithinLimit, RefusedForCause
  <2> QED BY <1>4, <1>6, <2>1, RateTyped, LimitTyped
<1>12. bucket'[b] = n
  BY <1>7 DEF RateInv, RateTypeOK
<1>13. HoldsBucket(q)'
  BY <1>3, <1>11, <1>12 DEF HoldsBucket, Made
<1>14. \A d \in Buckets \ {b} : ~WaitsFor(attempt[a], d) /\ ~WaitsFor(q, d)
  BY <1>3, <1>7 DEF WaitsFor
<1> QED BY <1>1, <1>6, <1>7, <1>10, <1>11, <1>13, <1>14, OneBucketKeeps

\* A request that has its answer waited for a bucket that had counted it.
LEMMA Answered ==
  ASSUME RateInv, NEW a \in Attempts, attempt[a].pc = "counted"
  PROVE  \E b \in Buckets : /\ b = attempt[a].bucket /\ Made(b) /\ bucket[b].key \in RateKeys
                            /\ WaitsFor(attempt[a], b)
                            /\ \A d \in Buckets \ {b} : ~WaitsFor(attempt[a], d)
BY DEF RateInv, HoldsBucket, Succession, WaitsFor

LEMMA AllowsSound ==
  ASSUME RateInv, NEW a \in Attempts, Allows(a)
  PROVE  RateInv'
<1>1. PICK b \in Buckets : /\ b = attempt[a].bucket /\ Made(b) /\ bucket[b].key \in RateKeys
                           /\ WaitsFor(attempt[a], b)
                           /\ \A d \in Buckets \ {b} : ~WaitsFor(attempt[a], d)
  BY Answered DEF Allows
<1>2. PICK m \in Nat : m = bucket[b].allowed + 1
  BY RateTyped
<1>3. PICK n \in Bucket : n = [bucket[b] EXCEPT !.allowed = m]
  BY RateTyped DEF Bucket
<1>4. /\ n.key = bucket[b].key /\ n.expiresAt = bucket[b].expiresAt /\ n.count = bucket[b].count
      /\ n.allowed = m /\ n.refused = bucket[b].refused
  BY <1>3, RateTyped DEF Bucket
<1>5. /\ attempt' = [attempt EXCEPT ![a] = NoAttempt] /\ bucket' = [bucket EXCEPT ![b] = n]
      /\ bucket[b].count <= Limit(bucket[b].key) /\ UNCHANGED <<bucketOf, time>>
  BY <1>1, <1>2, <1>3 DEF Allows
<1>6. \A d \in Buckets : ~WaitsFor(NoAttempt, d)
  BY NoAttemptTyped DEF WaitsFor
<1>7. Cardinality(Waiting(b)') = Cardinality(Waiting(b)) - 1 /\ Cardinality(Waiting(b)) > 0
  BY <1>1, <1>5, <1>6, NoAttemptTyped, WaitingMoves
<1>8. n.allowed + n.refused + Cardinality(Waiting(b)') = n.count
  BY <1>2, <1>4, <1>7, RateTyped, WaitingFinite DEF RateInv, Tally
<1>9. n.allowed <= Limit(n.key)
  <2>1. n.allowed <= n.count
    BY <1>8, <1>7, <1>4, RateTyped, WaitingFinite
  <2> QED BY <1>1, <1>4, <1>5, <2>1, RateTyped, LimitTyped
<1>10. (n.refused > 0 => n.count > Limit(n.key)) /\ n.count > 0
  BY <1>1, <1>4 DEF RateInv, RefusedForCause, Made
<1>11. HoldsBucket(NoAttempt)'
  BY NoAttemptTyped DEF HoldsBucket
<1> QED BY <1>1, <1>4, <1>5, <1>6, <1>8, <1>9, <1>10, <1>11, NoAttemptTyped, OneBucketKeeps

LEMMA RetryTyped ==
  ASSUME RateInv, NEW b \in Buckets, NEW now \in Nat
  PROVE  RetryAfter(b, now) \in Nat /\ bucket[b].expiresAt <= now + RetryAfter(b, now)
BY RateTyped DEF RetryAfter

LEMMA RefusesSound ==
  ASSUME RateInv, NEW a \in Attempts, Refuses(a)
  PROVE  RateInv'
<1>1. PICK b \in Buckets : /\ b = attempt[a].bucket /\ Made(b) /\ bucket[b].key \in RateKeys
                           /\ WaitsFor(attempt[a], b)
                           /\ \A d \in Buckets \ {b} : ~WaitsFor(attempt[a], d)
  BY Answered DEF Refuses
<1>2. PICK m \in Nat : m = bucket[b].refused + 1
  BY RateTyped
<1>3. PICK n \in Bucket : n = [bucket[b] EXCEPT !.refused = m]
  BY RateTyped DEF Bucket
<1>4. /\ n.key = bucket[b].key /\ n.expiresAt = bucket[b].expiresAt /\ n.count = bucket[b].count
      /\ n.allowed = bucket[b].allowed /\ n.refused = m
  BY <1>3, RateTyped DEF Bucket
<1>5. PICK retry \in Nat : retry = attempt[a].now + RetryAfter(b, attempt[a].now)
                           /\ bucket[b].expiresAt <= retry
  BY RetryTyped, RateTyped DEF Attempt
<1>6. PICK q \in Attempt : q = [attempt[a] EXCEPT !.pc = "refused", !.retryAt = retry]
  BY RateTyped DEF Attempt
<1>7. q.pc = "refused" /\ q.bucket = b /\ q.retryAt = retry
  BY <1>1, <1>6, RateTyped DEF Attempt
<1>8. /\ attempt' = [attempt EXCEPT ![a] = q] /\ bucket' = [bucket EXCEPT ![b] = n]
      /\ bucket[b].count > Limit(bucket[b].key) /\ UNCHANGED <<bucketOf, time>>
  BY <1>1, <1>2, <1>3, <1>5, <1>6 DEF Refuses, RateInv, RateTypeOK
<1>9. \A d \in Buckets : ~WaitsFor(q, d)
  BY <1>7 DEF WaitsFor
<1>10. Cardinality(Waiting(b)') = Cardinality(Waiting(b)) - 1 /\ Cardinality(Waiting(b)) > 0
  BY <1>1, <1>8, <1>9, WaitingMoves
<1>11. n.allowed + n.refused + Cardinality(Waiting(b)') = n.count
  BY <1>2, <1>4, <1>10, RateTyped, WaitingFinite DEF RateInv, Tally
<1>12. n.allowed <= Limit(n.key) /\ (n.refused > 0 => n.count > Limit(n.key)) /\ n.count > 0
  BY <1>1, <1>4, <1>8 DEF RateInv, WithinLimit, Made
<1>13. bucket'[b] = n
  BY <1>8 DEF RateInv, RateTypeOK
<1>14. HoldsBucket(q)'
  BY <1>4, <1>5, <1>7, <1>12, <1>13 DEF HoldsBucket, Made
<1> QED BY <1>1, <1>4, <1>8, <1>9, <1>11, <1>12, <1>14, OneBucketKeeps

\* A bucket nobody made has counted nobody, and nobody waits for it.
LEMMA UnmadeIsEmpty ==
  ASSUME RateInv, NEW b \in Buckets, ~Made(b)
  PROVE  Cardinality(Waiting(b)) = 0
BY RateTyped, WaitingFinite DEF RateInv, Tally, Made

LEMMA OpensWindowSound ==
  ASSUME RateInv, NEW a \in Attempts, NEW k \in RateKeys, OpensWindow(a, k)
  PROVE  RateInv'
<1>1. PICK b \in Buckets :
        /\ ~Made(b) /\ bucketOf' = [bucketOf EXCEPT ![k] = b]
        /\ bucket' = [bucket EXCEPT ![b] = NewBucket(k)] /\ Awaits(a, b)
  BY DEF OpensWindow, Unmade
<1>2. PICK q \in Attempt : q = [NoAttempt EXCEPT !.pc = "counted", !.bucket = b, !.now = time]
  BY RateTyped DEF NoAttempt, Attempt
<1>3. q.pc = "counted" /\ q.bucket = b
  BY <1>2 DEF NoAttempt
<1>4. PICK end \in Nat : end = time + WindowSeconds
  BY RateTyped
<1>5. PICK n \in Bucket : n = NewBucket(k)
  BY <1>4 DEF NewBucket, Bucket
<1>6. n.key = k /\ n.expiresAt = end /\ n.count = 1 /\ n.allowed = 0 /\ n.refused = 0
  BY <1>4, <1>5 DEF NewBucket
<1>7. /\ attempt[a].pc = "idle" /\ attempt' = [attempt EXCEPT ![a] = q] /\ time' = time
      /\ bucket' = [bucket EXCEPT ![b] = n]
  BY <1>1, <1>2, <1>5 DEF Awaits
<1>8. /\ bucket' \in [Buckets -> Bucket] /\ bucket'[b] = n
      /\ \A d \in Buckets \ {b} : bucket'[d] = bucket[d]
      /\ bucketOf' \in [RateKeys -> Buckets \cup {NoBucket}] /\ bucketOf'[k] = b
      /\ \A l \in RateKeys \ {k} : bucketOf'[l] = bucketOf[l]
  BY <1>1, <1>7 DEF RateInv, RateTypeOK
<1>9. Made(b)' /\ \A d \in Buckets \ {b} : Made(d)' <=> Made(d)
  BY <1>6, <1>8 DEF Made
\* The windows of the key are over.
<1>10. ASSUME NEW d \in Buckets, Made(d), bucket[d].key = k PROVE bucket[d].expiresAt <= time
  <2>1. bucketOf[k] # NoBucket /\ bucketOf[k] \in Buckets /\ bucket[bucketOf[k]].expiresAt <= time
    BY <1>10, RateTyped DEF RateInv, Succession, OpensWindow, Open
  <2>2. d = bucketOf[k] \/ bucket[d].expiresAt + WindowSeconds <= bucket[bucketOf[k]].expiresAt
    BY <1>10 DEF RateInv, Succession
  <2> QED BY <2>1, <2>2, RateTyped
<1>11. RateTypeOK'
  BY <1>7, <1>8 DEF RateInv, RateTypeOK
<1>12. Tally'
  <2> SUFFICES ASSUME NEW d \in Buckets
               PROVE  (bucket[d].allowed + bucket[d].refused + Cardinality(Waiting(d)) = bucket[d].count)'
    BY DEF Tally
  <2>1. CASE d = b
    <3>1. ~WaitsFor(attempt[a], b) /\ WaitsFor(q, b)
      BY <1>3, <1>7 DEF WaitsFor
    <3>2. Cardinality(Waiting(b)') = Cardinality(Waiting(b)) + 1 /\ Cardinality(Waiting(b)) = 0
      BY <1>1, <1>7, <3>1, WaitingMoves, UnmadeIsEmpty
    <3> QED BY <1>6, <1>8, <2>1, <3>2
  <2>2. CASE d # b
    <3>1. ~WaitsFor(attempt[a], d) /\ ~WaitsFor(q, d)
      BY <1>3, <1>7, <2>2 DEF WaitsFor
    <3>2. Waiting(d)' = Waiting(d)
      BY <1>7, <3>1, WaitingMoves
    <3> QED BY <1>8, <2>2, <3>2 DEF RateInv, Tally
  <2> QED BY <2>1, <2>2
<1>13. Succession'
  <2>1. (\A l \in RateKeys : bucketOf[l] # NoBucket => Made(bucketOf[l]) /\ bucket[bucketOf[l]].key = l)'
    <3> SUFFICES ASSUME NEW l \in RateKeys, bucketOf'[l] # NoBucket
                 PROVE  (Made(bucketOf[l]) /\ bucket[bucketOf[l]].key = l)'
      OBVIOUS
    <3>1. CASE l = k
      BY <1>6, <1>8, <1>9, <3>1 DEF Made
    <3>2. CASE l # k
      <4>1. bucketOf'[l] = bucketOf[l] /\ Made(bucketOf[l]) /\ bucket[bucketOf[l]].key = l
        BY <1>8, <3>2 DEF RateInv, Succession
      <4>2. bucketOf[l] \in Buckets \ {b}
        BY <1>1, <1>8, <4>1, RateTyped
      <4> QED BY <1>8, <4>1, <4>2 DEF Made
    <3> QED BY <3>1, <3>2
  <2>2. \A d \in Buckets : bucket'[d].expiresAt <= time' + WindowSeconds
    BY <1>4, <1>6, <1>7, <1>8 DEF RateInv, Succession
  <2>3. ASSUME NEW d \in Buckets, Made(d)', NEW l, l = bucket'[d].key
        PROVE  /\ l \in RateKeys /\ bucketOf'[l] # NoBucket
               /\ d = bucketOf'[l] \/ bucket'[d].expiresAt + WindowSeconds <= bucket'[bucketOf'[l]].expiresAt
    <3>1. CASE d = b
      BY <1>6, <1>8, <2>3, <3>1, RateConstants
    <3>2. CASE d # b /\ l = k
      <4>1. bucket'[d].expiresAt <= time
        BY <1>8, <1>9, <1>10, <2>3, <3>2
      <4> QED BY <1>4, <1>6, <1>8, <3>2, <4>1, RateConstants, RateTyped
    <3>3. CASE d # b /\ l # k
      <4>1. bucket'[d] = bucket[d] /\ Made(d) /\ l = bucket[d].key
        BY <1>8, <1>9, <2>3, <3>3
      <4>2. /\ l \in RateKeys /\ bucketOf[l] # NoBucket /\ bucketOf'[l] = bucketOf[l]
            /\ d = bucketOf[l] \/ bucket[d].expiresAt + WindowSeconds <= bucket[bucketOf[l]].expiresAt
        BY <1>8, <3>3, <4>1 DEF RateInv, Succession
      <4>3. bucketOf[l] \in Buckets \ {b}
        BY <1>1, <4>2, RateTyped DEF RateInv, Succession
      <4> QED BY <1>8, <4>1, <4>2, <4>3
    <3> QED BY <3>1, <3>2, <3>3
  <2> QED BY <2>1, <2>2, <2>3 DEF Succession
<1>14. WithinLimit' /\ RefusedForCause'
  <2>1. \A d \in Buckets \ {b} : /\ Made(d) => bucket'[d].allowed <= Limit(bucket'[d].key)
                                 /\ bucket'[d].refused > 0 => bucket'[d].count > Limit(bucket'[d].key)
    BY <1>8 DEF RateInv, WithinLimit, RefusedForCause
  <2>2. n.allowed <= Limit(k) /\ ~(n.refused > 0)
    BY <1>6, LimitTyped
  <2> QED BY <1>6, <1>8, <1>9, <2>1, <2>2 DEF WithinLimit, RefusedForCause
<1>15. WindowsApart'
  <2>1. ASSUME NEW d \in Buckets, d # b, Made(d)', bucket'[d].key = k
        PROVE  bucket'[d].expiresAt + WindowSeconds <= bucket'[b].expiresAt
    <3>1. bucket'[d] = bucket[d] /\ bucket[d].expiresAt <= time
      BY <1>8, <1>9, <1>10, <2>1
    <3> QED BY <1>4, <1>6, <1>8, <3>1, RateTyped
  <2>2. \A c, d \in Buckets \ {b} :
          /\ c # d /\ Made(c)' /\ Made(d)' /\ bucket'[c].key = bucket'[d].key
          => \/ bucket'[c].expiresAt + WindowSeconds <= bucket'[d].expiresAt
             \/ bucket'[d].expiresAt + WindowSeconds <= bucket'[c].expiresAt
    BY <1>8, <1>9 DEF RateInv, WindowsApart
  <2>3. bucket'[b].key = k
    BY <1>6, <1>8
  <2> QED BY <2>1, <2>2, <2>3 DEF WindowsApart
<1>16. HoldsBucket(q)'
  BY <1>3, <1>9 DEF HoldsBucket
<1>17. \A d \in Attempts : HoldsBucket(attempt[d])'
  BY <1>1, <1>7, <1>8, <1>9, <1>16, OthersHold
<1> QED BY <1>11, <1>12, <1>13, <1>14, <1>15, <1>17 DEF RateInv

LEMMA EndsSound ==
  ASSUME RateInv, NEW a \in Attempts, Ends(a)
  PROVE  RateInv'
<1>1. /\ attempt[a].pc = "refused" /\ attempt' = [attempt EXCEPT ![a] = NoAttempt]
      /\ UNCHANGED <<bucketOf, bucket, time>>
  BY DEF Ends
<1>2. \A d \in Buckets : ~WaitsFor(attempt[a], d) /\ ~WaitsFor(NoAttempt, d)
  BY <1>1, NoAttemptTyped DEF WaitsFor
<1>3. \A d \in Buckets : Waiting(d)' = Waiting(d)
  BY <1>1, <1>2, NoAttemptTyped, WaitingMoves
<1>4. Tally'
  BY <1>1, <1>3 DEF RateInv, Tally
<1>5. RateTypeOK'
  BY <1>1, NoAttemptTyped DEF RateInv, RateTypeOK
<1>6. BucketsGoOn
  BY <1>1 DEF BucketsGoOn, Made
<1>7. WithinLimit' /\ RefusedForCause'
  BY <1>1 DEF RateInv, WithinLimit, RefusedForCause, Made
<1>8. PICK none : none \notin Buckets
  BY RateConstants
<1>9. HoldsBucket(NoAttempt)'
  BY NoAttemptTyped DEF HoldsBucket
<1>10. \A d \in Attempts : HoldsBucket(attempt[d])'
  BY <1>1, <1>6, <1>8, <1>9, NoAttemptTyped, OthersHold DEF BucketsGoOn
<1> QED BY <1>1, <1>4, <1>5, <1>6, <1>7, <1>10, WindowsStay DEF RateInv

LEMMA TimePassesSound ==
  ASSUME RateInv, TimePasses
  PROVE  RateInv'
<1>1. UNCHANGED <<bucketOf, bucket, attempt>> /\ time' = time + 1
  BY DEF TimePasses
<1>2. RateTypeOK'
  BY <1>1 DEF RateInv, RateTypeOK
<1>3. Tally'
  BY <1>1 DEF RateInv, Tally, Waiting, WaitsFor
<1>4. Succession'
  <2>1. \A b \in Buckets : bucket'[b].expiresAt <= time' + WindowSeconds
    BY <1>1, RateTyped DEF RateInv, Succession
  <2> QED BY <1>1, <2>1 DEF RateInv, Succession, Made
<1>5. WithinLimit' /\ RefusedForCause' /\ WindowsApart'
  BY <1>1 DEF RateInv, WithinLimit, RefusedForCause, WindowsApart, Made
<1>6. \A d \in Attempts : HoldsBucket(attempt[d])'
  BY <1>1 DEF RateInv, HoldsBucket, Made
<1> QED BY <1>2, <1>3, <1>4, <1>5, <1>6 DEF RateInv

\* An empty store: at the start, and after a restart.
EmptyStore ==
  /\ bucketOf = [k \in RateKeys |-> NoBucket]
  /\ bucket = [b \in Buckets |-> NotMade]
  /\ attempt = [a \in Attempts |-> NoAttempt]
  /\ time \in Nat

LEMMA EmptyStoreSound == EmptyStore => RateInv
<1> SUFFICES ASSUME EmptyStore PROVE RateInv
  OBVIOUS
<1> USE DEF EmptyStore
<1>1. NotMade \in Bucket /\ \A b \in Buckets : bucket[b] = NotMade /\ ~Made(b)
  BY DEF NotMade, Bucket, Made
<1>2. \A a \in Attempts : attempt[a] = NoAttempt /\ attempt[a].pc = "idle"
  BY NoAttemptTyped
<1>3. RateTypeOK
  BY <1>1, NoAttemptTyped DEF RateTypeOK
<1>4. Tally
  <2> SUFFICES ASSUME NEW b \in Buckets
               PROVE  bucket[b].allowed + bucket[b].refused + Cardinality(Waiting(b)) = bucket[b].count
    BY DEF Tally
  <2>1. Waiting(b) = {}
    BY <1>2 DEF Waiting, WaitsFor
  <2>2. Cardinality(Waiting(b)) = 0
    BY <2>1, FS_EmptySet
  <2> QED BY <1>1, <2>2 DEF NotMade
<1>5. Succession
  <2>1. \A b \in Buckets : bucket[b].expiresAt <= time + WindowSeconds
    BY <1>1, RateConstants DEF NotMade
  <2> QED BY <1>1, <2>1 DEF Succession
<1>6. WithinLimit /\ WindowsApart
  BY <1>1 DEF WithinLimit, WindowsApart
<1>7. RefusedForCause
  BY <1>1 DEF RefusedForCause, NotMade
<1>8. \A a \in Attempts : HoldsBucket(attempt[a])
  BY <1>2 DEF HoldsBucket
<1> QED BY <1>3, <1>4, <1>5, <1>6, <1>7, <1>8 DEF RateInv

LEMMA RateStarts == RateInit => RateInv
BY EmptyStoreSound DEF RateInit, EmptyStore

LEMMA RestartsSound == ASSUME RateInv, Restarts PROVE RateInv'
<1>1. EmptyStore'
  BY DEF Restarts, EmptyStore, RateInv, RateTypeOK
<1>2. EmptyStore' => RateInv'
  BY EmptyStoreSound, PTL
<1> QED BY <1>1, <1>2

LEMMA RateStep == RateInv /\ [RateNext]_rateVars => RateInv'
<1> SUFFICES ASSUME RateInv, [RateNext]_rateVars PROVE RateInv'
  OBVIOUS
<1>1. CASE RateNext
  BY <1>1, OpensWindowSound, CountsOnSound, AllowsSound, RefusesSound, EndsSound, TimePassesSound,
     RestartsSound DEF RateNext
<1>2. CASE UNCHANGED rateVars
  <2>1. UNCHANGED <<bucketOf, bucket, attempt, time>>
    BY <1>2 DEF rateVars
  <2>2. Tally' /\ Succession'
    BY <2>1 DEF RateInv, Tally, Succession, Waiting, WaitsFor, Made
  <2>3. WithinLimit' /\ RefusedForCause' /\ WindowsApart' /\ RateTypeOK'
    BY <2>1 DEF RateInv, WithinLimit, RefusedForCause, WindowsApart, Made, RateTypeOK
  <2>4. \A d \in Attempts : HoldsBucket(attempt[d])'
    BY <2>1 DEF RateInv, HoldsBucket, Made
  <2> QED BY <2>2, <2>3, <2>4 DEF RateInv
<1> QED BY <1>1, <1>2

\* The store of the rate limits keeps its books: every request that a bucket has counted
\* (InMemoryAuthRateLimitStore.increment) was allowed, was refused or still waits for its
\* answer (consume), and the buckets of a key follow each other.
THEOREM RateInvariant == RateSpec => []RateInv
BY RateStarts, RateStep, PTL DEF RateSpec

\* No window allows more than the limit of its scope, although the count is read after an
\* await; nobody is refused in a window within its limit; the windows of a key do not
\* overlap; and whoever comes back when told to does not meet the same window.
THEOREM RateLimitsHold == RateSpec => []RateLimitsSound
<1>1. RateInv => RateLimitsSound
  BY DEF RateInv, RateLimitsSound, HoldsBucket, RetryIsNotInVain
<1> QED BY <1>1, RateInvariant, PTL

-----------------------------------------------------------------------------
(* Publication: the invariant                                              *)

\* A configuration that was never created has no version, others have one draft at
\* most; a policy's versions are all valid.
ConfigOk(d) ==
  /\ configs[d].state = "none" => configs[d].versions = <<>>
  /\ configs[d].active # 0 => configs[d].active \in VersionsIn(d, "PUBLISHED")
  /\ \A v, w \in VersionsIn(d, "DRAFT") : v = w
  /\ kind = "POLICY" => \A v \in DOMAIN configs[d].versions : configs[d].versions[v].sound

\* What a request has read is still there; it adds a version only while there is no draft.
EditReads(q) ==
  /\ q.pc = "idle" <=> q.op = "none"
  /\ q.op # "none" => q.config \in Configs
  /\ q.op \in {"update", "publish", "clone", "delete"} => configs[q.config].state # "none"
  /\ q.op = "publish" => q.draft # 0
  /\ q.draft # 0 => q.op \in {"update", "publish"} /\ q.draft \in DOMAIN configs[q.config].versions
  /\ q.op \in {"update", "clone"} /\ q.draft = 0 /\ q.pc \in {"loaded", "checked"} =>
       /\ q.latest <= Len(configs[q.config].versions)
       /\ q.latest = Len(configs[q.config].versions) => VersionsIn(q.config, "DRAFT") = {}
  /\ q.op = "create" \/ (kind = "POLICY" /\ q.op = "update") => q.rank # 0

\* What it still knows of the version it writes or publishes, unless requests have met.
EditKnows(q) ==
  /\ <<"draft", q.config>> \notin met =>
       /\ q.op = "update" /\ q.draft # 0 => configs[q.config].versions[q.draft].state = "DRAFT"
       /\ q.op = "publish" => configs[q.config].versions[q.draft].sound
  /\ <<"publications", q.config>> \notin met /\ q.op = "publish" =>
       /\ q.first => VersionsIn(q.config, "PUBLISHED") = {}
       /\ q.pc = "retiring" => VersionsIn(q.config, "PUBLISHED") \subseteq q.retire

\* The priority it gives is nobody else's, unless requests that check one have met.
EditRanks(q) ==
  <<"ranks", NoConfig>> \notin met =>
    /\ /\ kind = "WORKFLOW"
       /\ q.op = "create" \/ (q.op = "update" /\ q.pc \in {"checked", "written"} /\ q.rank # 0)
       => ~Taken(q.config, q.rank)
    /\ kind = "POLICY" /\ q.op = "publish" /\ <<"draft", q.config>> \notin met =>
         LET rank == configs[q.config].versions[q.draft].rank IN
         /\ q.pc = "loaded" => q.rank = rank
         /\ q.pc \in {"checked", "retiring"} =>
              \A d \in Configs \ {q.config} : <<"draft", d>> \notin met => rank \notin Claims(d)

EditOk(q) == EditReads(q) /\ EditKnows(q) /\ EditRanks(q)

\* The operations that check a priority.
Ranking == IF kind = "WORKFLOW" THEN {"create", "update"} ELSE {"publish"}

\* Requests that have not met are not under way together.
ApartFrom(e, f) ==
  /\ e # f /\ edit[e].op = "publish" /\ edit[f].op = "publish" /\ edit[e].config = edit[f].config =>
       <<"publications", edit[e].config>> \in met
  /\ edit[e].op = "publish" /\ edit[f].op = "update" /\ edit[e].config = edit[f].config =>
       <<"draft", edit[e].config>> \in met
  /\ e # f /\ edit[e].op \in Ranking /\ edit[f].op \in Ranking => <<"ranks", NoConfig>> \in met

EditsApart == \A e, f \in Editors : ApartFrom(e, f)

\* Two configurations whose drafts were left alone have different priorities.
RanksApart ==
  <<"ranks", NoConfig>> \notin met =>
    \A d1, d2 \in Configs :
      d1 # d2 /\ <<"draft", d1>> \notin met /\ <<"draft", d2>> \notin met => Claims(d1) \cap Claims(d2) = {}

PubInv ==
  /\ PublicationTypeOK
  /\ \A d \in Configs : ConfigOk(d)
  /\ OnlyActiveIsPublished /\ PublishedWasValidated /\ RanksApart
  /\ EditsApart
  /\ \A e \in Editors : EditOk(edit[e])

-----------------------------------------------------------------------------
(* Publication: helpers                                                    *)

LEMMA NoEditTyped ==
  NoEdit \in Edit /\ NoEdit.op = "none" /\ NoEdit.pc = "idle" /\ NoEdit.draft = 0 /\ NoEdit.latest = 0
  /\ NoEdit.first = FALSE /\ NoEdit.rank = 1 /\ NoEdit.config = NoConfig /\ NoEdit.sound = TRUE
BY DEF NoEdit, Edit, Ranks

LEMMA NoEditSound == EditOk(NoEdit)
BY NoEditTyped DEF EditOk, EditReads, EditKnows, EditRanks

LEMMA ConfigTyped ==
  ASSUME PublicationTypeOK, NEW d \in Configs
  PROVE  /\ configs[d] \in Config
         /\ configs[d].versions \in Seq(Version)
         /\ Len(configs[d].versions) \in Nat
         /\ DOMAIN configs[d].versions = 1..Len(configs[d].versions)
         /\ \A v \in DOMAIN configs[d].versions : configs[d].versions[v] \in Version
<1>1. configs[d] \in Config
  BY DEF PublicationTypeOK
<1>2. configs[d].versions \in Seq(Version)
  BY <1>1 DEF Config
<1> QED BY <1>1, <1>2

\* The draft a request finds is the configuration's only draft.
LEMMA DraftFound ==
  ASSUME PubInv, NEW d \in Configs
  PROVE  /\ DraftOf(d) \in Nat
         /\ DraftOf(d) # 0 => DraftOf(d) \in VersionsIn(d, "DRAFT")
         /\ DraftOf(d) = 0 => VersionsIn(d, "DRAFT") = {}
<1>1. VersionsIn(d, "DRAFT") \subseteq 1..Len(configs[d].versions)
  BY ConfigTyped DEF VersionsIn, PubInv
<1>2. Len(configs[d].versions) \in Nat
  BY ConfigTyped DEF PubInv
<1>3. CASE VersionsIn(d, "DRAFT") = {}
  BY <1>3 DEF DraftOf
<1>4. CASE VersionsIn(d, "DRAFT") # {}
  <2>1. PICK v \in VersionsIn(d, "DRAFT") : \A w \in VersionsIn(d, "DRAFT") : w = v
    BY <1>4 DEF PubInv, ConfigOk
  <2>2. v \in Nat /\ v # 0
    BY <2>1, <1>1, <1>2
  <2>3. \A w \in VersionsIn(d, "DRAFT") : w <= v
    BY <2>1, <2>2
  <2>4. DraftOf(d) \in VersionsIn(d, "DRAFT")
    BY <1>4, <2>1, <2>3 DEF DraftOf
  <2> QED BY <2>1, <2>2, <2>4
<1> QED BY <1>3, <1>4

\* Whoever goes on with the same operation, or ends, meets nobody new.
LEMMA ApartStays ==
  ASSUME PubInv, NEW e \in Editors, NEW q \in Edit,
         edit' = [edit EXCEPT ![e] = q], UNCHANGED <<kind, met>>,
         q.op = "none" \/ (q.op = edit[e].op /\ q.config = edit[e].config)
  PROVE  EditsApart'
<1>1. \A f \in Editors :
        \/ edit'[f].op = "none"
        \/ edit'[f].op = edit[f].op /\ edit'[f].config = edit[f].config
  BY DEF PubInv, PublicationTypeOK
<1>2. Ranking' = Ranking /\ "none" \notin Ranking
  BY DEF Ranking
<1> QED BY <1>1, <1>2 DEF PubInv, EditsApart, ApartFrom

\* What a request knows it goes on knowing while the configurations do not change.
LEMMA EditRests ==
  ASSUME UNCHANGED <<kind, configs>>, met \subseteq met', NEW p \in Edit, EditOk(p)
  PROVE  EditOk(p)'
<1>1. \A d : /\ \A st : VersionsIn(d, st)' = VersionsIn(d, st)
             /\ Claims(d)' = Claims(d)
             /\ \A r : Taken(d, r)' = Taken(d, r)
  BY DEF VersionsIn, Claims, Taken
<1>2. EditReads(p)'
  BY <1>1 DEF EditOk, EditReads
<1>3. EditKnows(p)'
  BY <1>1 DEF EditOk, EditKnows
<1>4. EditRanks(p)'
  BY <1>1 DEF EditOk, EditRanks
<1> QED BY <1>2, <1>3, <1>4 DEF EditOk

\* A step that leaves the configurations alone.
LEMMA ConfigsRest ==
  ASSUME PubInv, UNCHANGED <<kind, configs>>, PublicationTypeOK', EditsApart',
         met \subseteq met', NEW e \in Editors, NEW q \in Edit,
         edit' = [edit EXCEPT ![e] = q], EditOk(q)'
  PROVE  PubInv'
<1>1. \A d : (\A st : VersionsIn(d, st)' = VersionsIn(d, st)) /\ Claims(d)' = Claims(d)
  BY DEF VersionsIn, Claims
<1>2. \A d \in Configs : ConfigOk(d)'
  BY <1>1 DEF PubInv, ConfigOk
<1>3. OnlyActiveIsPublished' /\ PublishedWasValidated' /\ RanksApart'
  BY <1>1 DEF PubInv, OnlyActiveIsPublished, PublishedWasValidated, RanksApart
<1>4. ASSUME NEW f \in Editors PROVE EditOk(edit[f])'
  <2>1. CASE f = e
    BY <2>1 DEF PubInv, PublicationTypeOK
  <2>2. CASE f # e
    <3>1. PICK p \in Edit : p = edit[f]
      BY DEF PubInv, PublicationTypeOK
    <3>2. edit'[f] = p
      BY <2>2, <3>1 DEF PubInv, PublicationTypeOK
    <3>3. EditOk(p)
      BY <3>1 DEF PubInv
    <3> QED BY <3>2, <3>3, EditRests
  <2> QED BY <2>1, <2>2
<1> QED BY <1>2, <1>3, <1>4 DEF PubInv

\* A request goes on, or ends, without a write.
LEMMA EditMoves ==
  ASSUME PubInv, UNCHANGED <<kind, configs, met>>, NEW e \in Editors, NEW q \in Edit,
         edit' = [edit EXCEPT ![e] = q], EditOk(q),
         q.op = "none" \/ (q.op = edit[e].op /\ q.config = edit[e].config)
  PROVE  PubInv'
<1>1. PublicationTypeOK'
  BY DEF PubInv, PublicationTypeOK
<1>2. EditOk(q)'
  BY EditRests
<1> QED BY <1>1, <1>2, ApartStays, ConfigsRest

LEMMA GiveUpSound ==
  ASSUME PubInv, NEW e \in Editors, GiveUp(e)
  PROVE  PubInv'
BY NoEditTyped, NoEditSound, EditMoves DEF GiveUp, EndEdit

-----------------------------------------------------------------------------
(* Publication: requests that begin                                        *)

LEMMA BeginSound ==
  ASSUME PubInv, NEW e \in Editors, NEW d \in Configs, NEW r \in Edit, Begin(e, d, r),
         r.op # "none", r.pc # "idle", r.config = d, EditReads(r), EditKnows(r), EditRanks(r)
  PROVE  PubInv'
<1>1. /\ edit' = [edit EXCEPT ![e] = r] /\ met' = met \cup Meets(r.op, d)
      /\ UNCHANGED <<kind, configs>>
      /\ edit[e].op = "none"
  BY DEF Begin, PubInv, EditOk, EditReads
<1>2. Meets(r.op, d) \subseteq {"publications", "draft", "ranks"} \X (Configs \cup {NoConfig})
  BY DEF Meets
<1>3. PublicationTypeOK'
  BY <1>1, <1>2 DEF PubInv, PublicationTypeOK
<1>4. EditOk(r)'
  BY <1>1, EditRests DEF EditOk
<1>5. Ranking' = Ranking /\ "none" \notin Ranking
  BY <1>1 DEF Ranking
<1>6. /\ edit'[e] = r
      /\ \A f \in Editors \ {e} : edit'[f] = edit[f]
  BY <1>1 DEF PubInv, PublicationTypeOK
<1>7. ASSUME NEW f \in Editors \ {e}
      PROVE  /\ r.op = "publish" /\ edit[f].op = "publish" /\ edit[f].config = d =>
                  <<"publications", d>> \in met'
             /\ \/ r.op = "publish" /\ edit[f].op = "update"
                \/ r.op = "update" /\ edit[f].op = "publish"
                => (edit[f].config = d => <<"draft", d>> \in met')
             /\ r.op \in Ranking /\ edit[f].op \in Ranking => <<"ranks", NoConfig>> \in met'
  BY <1>1 DEF Meets, Ranking
<1>8. EditsApart'
  <2> SUFFICES ASSUME NEW f \in Editors, NEW g \in Editors PROVE ApartFrom(f, g)'
    BY DEF EditsApart
  <2>1. CASE f = e /\ g = e
    BY <2>1, <1>5, <1>6 DEF ApartFrom
  <2>2. CASE f = e /\ g # e
    BY <2>2, <1>5, <1>6, <1>7 DEF ApartFrom
  <2>3. CASE f # e /\ g = e
    BY <2>3, <1>5, <1>6, <1>7 DEF ApartFrom
  <2>4. CASE f # e /\ g # e
    BY <2>4, <1>1, <1>5, <1>6 DEF PubInv, EditsApart, ApartFrom
  <2> QED BY <2>1, <2>2, <2>3, <2>4
<1> QED BY <1>1, <1>3, <1>4, <1>8, ConfigsRest

LEMMA BeginCreateSound ==
  ASSUME PubInv, NEW e \in Editors, NEW d \in Configs, NEW s \in BOOLEAN, NEW r \in Ranks,
         kind = "WORKFLOW" => ~Taken(d, r), BeginCreate(e, d, s, r)
  PROVE  PubInv'
<1>1. PICK q \in Edit : q = [NoEdit EXCEPT !.op = "create", !.pc = "checked", !.config = d,
                                           !.sound = s, !.rank = r]
  BY DEF NoEdit, Edit, Ranks
<1>2. q.op = "create" /\ q.pc = "checked" /\ q.config = d /\ q.draft = 0 /\ q.rank = r /\ r # 0
  BY <1>1 DEF NoEdit, Ranks
<1>3. EditReads(q) /\ EditKnows(q) /\ EditRanks(q)
  BY <1>2 DEF EditReads, EditKnows, EditRanks
<1> QED BY <1>1, <1>2, <1>3, BeginSound DEF BeginCreate

LEMMA BeginUpdateSound ==
  ASSUME PubInv, NEW e \in Editors, NEW d \in Configs, NEW s \in BOOLEAN, NEW r \in Ranks \cup {0},
         NEW pc \in {"loaded", "checked"}, kind = "WORKFLOW" => pc = "loaded", kind = "POLICY" => r # 0,
         BeginUpdate(e, d, pc, s, r)
  PROVE  PubInv'
<1>1. Len(configs[d].versions) \in Nat /\ DraftOf(d) \in Nat
  BY ConfigTyped, DraftFound DEF PubInv
<1>2. PICK l \in Nat : l = IF DraftOf(d) = 0 THEN Len(configs[d].versions) ELSE 0
  BY <1>1
<1>3. PICK q \in Edit : q = [NoEdit EXCEPT !.op = "update", !.pc = pc, !.config = d,
                                           !.draft = DraftOf(d), !.latest = l, !.sound = s, !.rank = r]
  BY <1>1, <1>2 DEF NoEdit, Edit
<1>4. /\ q.op = "update" /\ q.pc = pc /\ q.config = d /\ q.draft = DraftOf(d) /\ q.rank = r
      /\ q.latest = l
  BY <1>3 DEF NoEdit
<1>5. Begin(e, d, q)
  BY <1>2, <1>3 DEF BeginUpdate
<1>6. configs[d].state = "live"
  BY <1>4, <1>5 DEF Begin
<1>7. DraftOf(d) # 0 => DraftOf(d) \in DOMAIN configs[d].versions /\ configs[d].versions[DraftOf(d)].state = "DRAFT"
  BY DraftFound DEF VersionsIn
<1>8. EditReads(q)
  BY <1>1, <1>2, <1>4, <1>6, <1>7, DraftFound DEF EditReads
<1>9. EditKnows(q) /\ EditRanks(q)
  BY <1>4, <1>7 DEF EditKnows, EditRanks
<1> QED BY <1>4, <1>5, <1>8, <1>9, BeginSound

LEMMA BeginPublishSound ==
  ASSUME PubInv, NEW e \in Editors, NEW d \in Configs, NEW pc \in {"loaded", "checked"},
         BeginPublish(e, d, pc), kind = "POLICY" \/ SoundDraft(d), kind = "POLICY" => pc = "loaded"
  PROVE  PubInv'
<1> DEFINE v == DraftOf(d)
<1>1. v \in Nat /\ v # 0 /\ v \in DOMAIN configs[d].versions
  BY DraftFound DEF BeginPublish, VersionsIn
<1>2. configs[d].versions[v] \in Version
  BY <1>1, ConfigTyped DEF PubInv
<1>3. PICK r \in Ranks : r = configs[d].versions[v].rank
  BY <1>2 DEF Version
<1>4. PICK b \in BOOLEAN : b = (kind = "SCHEDULE" /\ configs[d].active = 0)
  OBVIOUS
<1>5. PICK q \in Edit : q = [NoEdit EXCEPT !.op = "publish", !.pc = pc, !.config = d, !.draft = v,
                                           !.first = b, !.rank = r]
  BY <1>1 DEF NoEdit, Edit
<1>6. /\ q.op = "publish" /\ q.pc = pc /\ q.config = d /\ q.draft = v /\ q.rank = r
      /\ q.first = b
  BY <1>5 DEF NoEdit
<1>7. Begin(e, d, q)
  BY <1>3, <1>4, <1>5 DEF BeginPublish
<1>8. configs[d].state = "live"
  BY <1>6, <1>7 DEF Begin
<1>9. EditReads(q)
  BY <1>1, <1>6, <1>8 DEF EditReads
<1>10. configs[d].versions[v].sound
  BY <1>1 DEF PubInv, ConfigOk, SoundDraft
<1>11. b /\ <<"publications", d>> \notin met => VersionsIn(d, "PUBLISHED") = {}
  <2> SUFFICES ASSUME b, <<"publications", d>> \notin met, NEW w \in VersionsIn(d, "PUBLISHED")
               PROVE  FALSE
    OBVIOUS
  <2>1. w = 0
    BY <1>4 DEF PubInv, OnlyActiveIsPublished
  <2>2. 0 \notin DOMAIN configs[d].versions
    BY ConfigTyped DEF PubInv
  <2> QED BY <2>1, <2>2 DEF VersionsIn
<1>12. EditKnows(q)
  BY <1>6, <1>10, <1>11 DEF EditKnows
<1>13. EditRanks(q)
  BY <1>3, <1>6 DEF EditRanks
<1> QED BY <1>6, <1>7, <1>9, <1>12, <1>13, BeginSound

LEMMA CloneReadSound ==
  ASSUME PubInv, NEW e \in Editors, NEW d \in Configs, CloneRead(e, d)
  PROVE  PubInv'
<1>1. PICK l \in Nat : l = Len(configs[d].versions)
  BY ConfigTyped DEF PubInv
<1>2. PICK q \in Edit : q = [NoEdit EXCEPT !.op = "clone", !.pc = "loaded", !.config = d, !.latest = l]
  BY DEF NoEdit, Edit, Ranks
<1>3. q.op = "clone" /\ q.pc = "loaded" /\ q.config = d /\ q.latest = l /\ q.draft = 0
  BY <1>2 DEF NoEdit
<1>4. Begin(e, d, q)
  BY <1>1, <1>2 DEF CloneRead
<1>5. EditReads(q)
  BY <1>1, <1>3, <1>4, DraftFound DEF EditReads, CloneRead, Begin
<1>6. EditKnows(q) /\ EditRanks(q)
  BY <1>3 DEF EditKnows, EditRanks
<1> QED BY <1>3, <1>4, <1>5, <1>6, BeginSound

LEMMA DeleteReadSound ==
  ASSUME PubInv, NEW e \in Editors, NEW d \in Configs, DeleteRead(e, d)
  PROVE  PubInv'
<1>1. PICK q \in Edit : q = [NoEdit EXCEPT !.op = "delete", !.pc = "loaded", !.config = d]
  BY DEF NoEdit, Edit, Ranks
<1>2. q.op = "delete" /\ q.pc = "loaded" /\ q.config = d /\ q.draft = 0
  BY <1>1 DEF NoEdit
<1>3. Begin(e, d, q)
  BY <1>1 DEF DeleteRead
<1>4. EditReads(q) /\ EditKnows(q) /\ EditRanks(q)
  BY <1>2, <1>3 DEF EditReads, EditKnows, EditRanks, Begin
<1> QED BY <1>2, <1>3, <1>4, BeginSound

LEMMA RequestSound ==
  ASSUME PubInv, NEW e \in Editors, NEW d \in Configs, Request(e, d)
  PROVE  PubInv'
<1>1. Ranks \subseteq Ranks \cup {0} /\ 1 \in Ranks /\ TRUE \in BOOLEAN
  BY DEF Ranks
<1>2. \A r \in Ranks : r # 0
  BY DEF Ranks
<1>3. ASSUME NEW s \in BOOLEAN, NEW r \in Ranks, CreateWorkflowCheck(e, d, s, r) PROVE PubInv'
  BY <1>3, BeginCreateSound DEF CreateWorkflowCheck
<1>4. ASSUME NEW s \in BOOLEAN, NEW r \in Ranks \cup {0}, UpdateWorkflow(e, d, s, r) PROVE PubInv'
  BY <1>4, BeginUpdateSound DEF UpdateWorkflow
<1>5. ASSUME NEW r \in Ranks, CreatePolicyCheck(e, d, r) PROVE PubInv'
  BY <1>5, BeginCreateSound DEF CreatePolicyCheck
<1>6. ASSUME NEW r \in Ranks, UpdatePolicy(e, d, r) PROVE PubInv'
  BY <1>2, <1>6, BeginUpdateSound DEF UpdatePolicy
<1>7. CASE CreateScheduleCheck(e, d)
  BY <1>1, <1>7, BeginCreateSound DEF CreateScheduleCheck
<1>8. ASSUME NEW s \in BOOLEAN, UpdateSchedule(e, d, s) PROVE PubInv'
  BY <1>1, <1>8, BeginUpdateSound DEF UpdateSchedule
<1>9. CASE PublishWorkflow(e, d) \/ PublishSchedule(e, d) \/ PublishPolicy(e, d)
  BY <1>9, BeginPublishSound DEF PublishWorkflow, PublishSchedule, PublishPolicy
<1> QED BY <1>3, <1>4, <1>5, <1>6, <1>7, <1>8, <1>9, CloneReadSound, DeleteReadSound DEF Request

-----------------------------------------------------------------------------
(* Publication: requests that write a configuration's row                  *)

\* What an operation op on d leaves of d's row, when it becomes c: versions are never
\* dropped, a new one is a draft; only a publication changes states, only an update changes
\* what a version holds.
RowKeeps(op, d, c) ==
  LET old == configs[d].versions IN
  /\ c.state # "none"
  /\ Len(old) <= Len(c.versions)
  /\ Len(old) = Len(c.versions) =>
       \A v \in DOMAIN c.versions : c.versions[v].state = "DRAFT" => old[v].state = "DRAFT"
  /\ \A v \in DOMAIN old :
       /\ op # "publish" => c.versions[v].state = old[v].state
       /\ op # "update" => c.versions[v].sound = old[v].sound /\ c.versions[v].rank = old[v].rank
  /\ op # "publish" => \A v \in DOMAIN c.versions \ DOMAIN old : c.versions[v].state = "DRAFT"

\* Its priority is not new, unless the operation checks it, or a policy's draft was edited
\* while it was published.
ClaimsKeep(op, d) ==
  \/ op \in Ranking
  \/ Claims(d)' \subseteq Claims(d)
  \/ kind = "POLICY" /\ <<"draft", d>> \in met

\* A step writes the row of d, and nothing but requests besides; request e becomes q.
Writes(d, c) == Put(d, c) /\ UNCHANGED <<kind, met>>
Becomes(e, q) == edit' = [edit EXCEPT ![e] = q]

LEMMA RowTyped ==
  ASSUME NEW c \in Config
  PROVE  Len(c.versions) \in Nat /\ DOMAIN c.versions = 1..Len(c.versions)
<1>1. c.versions \in Seq(Version)
  BY DEF Config
<1> QED BY <1>1

LEMMA RowsAfter ==
  ASSUME PublicationTypeOK, NEW d \in Configs, NEW c \in Config, Writes(d, c)
  PROVE  /\ configs'[d] = c
         /\ \A o \in Configs \ {d} : /\ configs'[o] = configs[o]
                                     /\ Claims(o)' = Claims(o)
                                     /\ \A st : VersionsIn(o, st)' = VersionsIn(o, st)
         /\ \A st : VersionsIn(d, st)' = {v \in DOMAIN c.versions : c.versions[v].state = st}
<1>1. /\ configs'[d] = c
      /\ \A o \in Configs \ {d} : configs'[o] = configs[o]
  BY DEF PublicationTypeOK, Writes, Put
<1> kind' = kind
  BY DEF Writes
<1>2. \A st : VersionsIn(d, st)' = {v \in DOMAIN c.versions : c.versions[v].state = st}
  BY <1>1 DEF VersionsIn
<1>3. ASSUME NEW o \in Configs \ {d}
      PROVE  Claims(o)' = Claims(o) /\ \A st : VersionsIn(o, st)' = VersionsIn(o, st)
  <2>1. \A st : VersionsIn(o, st)' = VersionsIn(o, st)
    BY <1>1 DEF VersionsIn
  <2>2. {configs'[o].versions[v].rank : v \in VersionsIn(o, "PUBLISHED")'} =
          {configs[o].versions[v].rank : v \in VersionsIn(o, "PUBLISHED")}
    BY <1>1, <2>1
  <2>3. kind = "WORKFLOW" \/ kind = "POLICY" \/ kind = "SCHEDULE"
    BY DEF PublicationTypeOK, ConfigKinds
  <2>4. Claims(o)' = Claims(o)
    <3>1. CASE kind = "WORKFLOW"
      BY <1>1, <3>1 DEF Claims
    <3>2. CASE kind = "POLICY"
      BY <1>1, <2>2, <3>2 DEF Claims
    <3>3. CASE kind = "SCHEDULE"
      BY <1>1, <3>3 DEF Claims
    <3> QED BY <2>3, <3>1, <3>2, <3>3
  <2> QED BY <2>1, <2>4
<1> QED BY <1>1, <1>2, <1>3

\* What the others know of the row they go on knowing, or have met the request that writes.
LEMMA OthersGoOn ==
  ASSUME PubInv, NEW e \in Editors, NEW f \in Editors, e # f,
         NEW d \in Configs, d = edit[e].config, NEW c \in Config,
         Writes(d, c),
         NEW op, op = edit[e].op, RowKeeps(op, d, c), ClaimsKeep(op, d), NEW p \in Edit, p = edit[f]
  PROVE  EditOk(p)'
<1> DEFINE old == configs[d]
<1> kind' = kind /\ met' = met
  BY DEF Writes
<1>1. EditOk(p)
  BY DEF PubInv
<1>2. PublicationTypeOK
  BY DEF PubInv
<1>3. ApartFrom(e, f) /\ ApartFrom(f, e)
  BY DEF PubInv, EditsApart
<1>4. /\ configs'[d] = c
      /\ \A o \in Configs \ {d} : /\ configs'[o] = configs[o]
                                  /\ Claims(o)' = Claims(o)
                                  /\ \A st : VersionsIn(o, st)' = VersionsIn(o, st)
      /\ \A st : VersionsIn(d, st)' = {v \in DOMAIN c.versions : c.versions[v].state = st}
  BY <1>2, RowsAfter
<1>5. /\ Len(c.versions) \in Nat /\ DOMAIN c.versions = 1..Len(c.versions)
      /\ Len(old.versions) \in Nat /\ DOMAIN old.versions = 1..Len(old.versions)
  BY <1>2, ConfigTyped, RowTyped
<1>6. Len(old.versions) <= Len(c.versions)
  BY DEF RowKeeps
<1>7. DOMAIN old.versions \subseteq DOMAIN c.versions
  BY <1>5, <1>6
<1>8. EditReads(p)'
  <2>1. CASE p.config # d
    <3>1. p.op # "none" => p.config \in Configs \ {d}
      BY <2>1, <1>1 DEF EditOk, EditReads
    <3>2. p.draft # 0 => p.op # "none"
      BY <1>1 DEF EditOk, EditReads
    <3> QED BY <3>1, <3>2, <1>1, <1>4 DEF EditOk, EditReads
  <2>2. CASE p.config = d
    <3>1. p.draft # 0 => p.draft \in DOMAIN c.versions
      BY <2>2, <1>1, <1>7 DEF EditOk, EditReads
    <3>2. ASSUME p.op \in {"update", "clone"}, p.draft = 0, p.pc \in {"loaded", "checked"}
          PROVE  /\ p.latest <= Len(c.versions)
                 /\ p.latest = Len(c.versions) => VersionsIn(d, "DRAFT")' = {}
      <4>1. /\ p.latest <= Len(old.versions)
            /\ p.latest = Len(old.versions) => VersionsIn(d, "DRAFT") = {}
        BY <2>2, <3>2, <1>1 DEF EditOk, EditReads
      <4>2. p.latest \in Nat
        BY DEF Edit
      <4>3. p.latest <= Len(c.versions)
        BY <4>1, <4>2, <1>5, <1>6
      <4>4. ASSUME p.latest = Len(c.versions) PROVE VersionsIn(d, "DRAFT")' = {}
        <5>1. Len(old.versions) = Len(c.versions)
          BY <4>1, <4>2, <4>4, <1>5, <1>6
        <5>2. VersionsIn(d, "DRAFT") = {}
          BY <4>1, <4>4, <5>1
        <5>3. \A v \in DOMAIN c.versions : c.versions[v].state # "DRAFT"
          BY <5>1, <5>2, <1>5 DEF RowKeeps, VersionsIn
        <5> QED BY <5>3, <1>4
      <4> QED BY <4>3, <4>4
    <3>3. c.state # "none"
      BY DEF RowKeeps
    <3> QED BY <2>2, <3>1, <3>2, <3>3, <1>1, <1>4 DEF EditOk, EditReads
  <2> QED BY <2>1, <2>2
<1>9. EditKnows(p)'
  <2>1. CASE p.op = "none"
    BY <2>1, <1>1 DEF EditOk, EditReads, EditKnows
  <2>2. CASE p.op # "none" /\ p.config # d
    <3>1. p.config \in Configs \ {d}
      BY <2>2, <1>1 DEF EditOk, EditReads
    <3> QED BY <3>1, <1>1, <1>4 DEF EditOk, EditKnows
  <2>3. CASE p.op # "none" /\ p.config = d
    <3>1. p.draft # 0 => p.draft \in DOMAIN old.versions
      BY <2>3, <1>1 DEF EditOk, EditReads
    <3>2. p.op = "publish" => p.draft # 0
      BY <1>1 DEF EditOk, EditReads
    <3>3. ASSUME <<"draft", d>> \notin met, p.op = "update", p.draft # 0
          PROVE  c.versions[p.draft].state = "DRAFT"
      <4>1. op # "publish"
        BY <2>3, <3>3, <1>3 DEF ApartFrom
      <4> QED BY <4>1, <2>3, <3>1, <3>3, <1>1 DEF RowKeeps, EditOk, EditKnows
    <3>4. ASSUME <<"draft", d>> \notin met, p.op = "publish"
          PROVE  c.versions[p.draft].sound
      <4>1. op # "update"
        BY <2>3, <3>4, <1>3 DEF ApartFrom
      <4> QED BY <4>1, <2>3, <3>1, <3>2, <3>4, <1>1 DEF RowKeeps, EditOk, EditKnows
    <3>5. ASSUME <<"publications", d>> \notin met, p.op = "publish"
          PROVE  VersionsIn(d, "PUBLISHED")' \subseteq VersionsIn(d, "PUBLISHED")
      <4>1. op # "publish"
        BY <2>3, <3>5, <1>3 DEF ApartFrom
      <4> QED BY <4>1, <1>4 DEF RowKeeps, VersionsIn
    <3> QED BY <2>3, <3>3, <3>4, <3>5, <1>1, <1>4 DEF EditOk, EditKnows
  <2> QED BY <2>1, <2>2, <2>3
<1>10. EditRanks(p)'
  <2> SUFFICES ASSUME <<"ranks", NoConfig>> \notin met
               PROVE  EditRanks(p)'
    BY DEF EditRanks
  <2>1. p.op \in Ranking => op \notin Ranking
    BY <1>3 DEF ApartFrom
  <2>2. ASSUME kind = "WORKFLOW",
               p.op = "create" \/ (p.op = "update" /\ p.pc \in {"checked", "written"} /\ p.rank # 0)
        PROVE  ~Taken(p.config, p.rank)'
    <3>1. Claims(d)' \subseteq Claims(d)
      BY <2>1, <2>2 DEF Ranking, ClaimsKeep
    <3>2. ~Taken(p.config, p.rank)
      BY <2>2, <1>1 DEF EditOk, EditRanks
    <3>3. \A o \in Configs : Claims(o)' \subseteq Claims(o)
      BY <3>1, <1>4
    <3> QED BY <3>2, <3>3 DEF Taken
  <2>3. ASSUME kind = "POLICY", p.op = "publish", <<"draft", p.config>> \notin met
        PROVE  /\ configs'[p.config].versions[p.draft].rank = configs[p.config].versions[p.draft].rank
               /\ \A o \in Configs : <<"draft", o>> \notin met => Claims(o)' \subseteq Claims(o)
    <3>1. p.config \in Configs /\ p.draft \in DOMAIN configs[p.config].versions
      BY <2>3, <1>1 DEF EditOk, EditReads
    <3>2. <<"draft", d>> \notin met => Claims(d)' \subseteq Claims(d)
      BY <2>1, <2>3 DEF Ranking, ClaimsKeep
    <3>3. CASE p.config = d
      <4>1. op # "update"
        BY <2>3, <3>3, <1>3 DEF ApartFrom
      <4>2. c.versions[p.draft].rank = configs[d].versions[p.draft].rank
        BY <4>1, <3>1, <3>3 DEF RowKeeps
      <4> QED BY <4>2, <3>2, <3>3, <1>4
    <3>4. CASE p.config # d
      BY <3>1, <3>2, <3>4, <1>4
    <3> QED BY <3>3, <3>4
  <2>4. ASSUME kind = "POLICY", p.op = "publish", <<"draft", p.config>> \notin met
        PROVE  LET rank == configs'[p.config].versions[p.draft].rank IN
               /\ p.pc = "loaded" => p.rank = rank
               /\ p.pc \in {"checked", "retiring"} =>
                    \A o \in Configs \ {p.config} : <<"draft", o>> \notin met => rank \notin Claims(o)'
    <3> DEFINE rank == configs[p.config].versions[p.draft].rank
    <3>1. /\ p.pc = "loaded" => p.rank = rank
          /\ p.pc \in {"checked", "retiring"} =>
               \A o \in Configs \ {p.config} : <<"draft", o>> \notin met => rank \notin Claims(o)
      BY <2>4, <1>1 DEF EditOk, EditRanks
    <3>2. /\ configs'[p.config].versions[p.draft].rank = rank
          /\ \A o \in Configs : <<"draft", o>> \notin met => Claims(o)' \subseteq Claims(o)
      BY <2>3, <2>4
    <3> HIDE DEF rank
    <3> QED BY <3>1, <3>2
  <2> QED BY <2>2, <2>4 DEF EditRanks
<1> QED BY <1>8, <1>9, <1>10 DEF EditOk

\* A request writes the row of its configuration: what has to be shown of the row and of
\* the request.
LEMMA RowMoves ==
  ASSUME PubInv, NEW e \in Editors, NEW d \in Configs, d = edit[e].config, NEW c \in Config,
         NEW q \in Edit, NEW op \in {"create", "update", "publish", "clone", "delete"}, op = edit[e].op,
         Writes(d, c), Becomes(e, q),
         q.op = "none" \/ (q.op = op /\ q.config = d), EditOk(q)',
         RowKeeps(op, d, c), ClaimsKeep(op, d), ConfigOk(d)',
         <<"publications", d>> \notin met => VersionsIn(d, "PUBLISHED")' \subseteq {c.active},
         <<"draft", d>> \notin met =>
           \A v \in DOMAIN c.versions : c.versions[v].state # "DRAFT" => c.versions[v].sound,
         /\ <<"ranks", NoConfig>> \notin met
         /\ <<"draft", d>> \notin met
         => \A o \in Configs \ {d} : <<"draft", o>> \notin met => Claims(d)' \cap Claims(o) = {}
  PROVE  PubInv'
<1> UNCHANGED <<kind, met>>
  BY DEF Writes
<1>1. /\ configs'[d] = c
      /\ \A o \in Configs \ {d} : /\ configs'[o] = configs[o]
                                  /\ Claims(o)' = Claims(o)
                                  /\ \A st : VersionsIn(o, st)' = VersionsIn(o, st)
      /\ \A st : VersionsIn(d, st)' = {v \in DOMAIN c.versions : c.versions[v].state = st}
  BY RowsAfter DEF PubInv
<1>2. PublicationTypeOK'
  BY DEF PubInv, PublicationTypeOK, Writes, Put, Becomes
<1>3. \A o \in Configs : ConfigOk(o)'
  BY <1>1 DEF PubInv, ConfigOk
<1>4. OnlyActiveIsPublished'
  BY <1>1 DEF PubInv, OnlyActiveIsPublished
<1>5. PublishedWasValidated'
  <2> SUFFICES ASSUME NEW o \in Configs, <<"draft", o>> \notin met,
                      NEW v \in VersionsIn(o, "PUBLISHED")' \cup VersionsIn(o, "RETIRED")'
               PROVE  configs'[o].versions[v].sound
    BY DEF PublishedWasValidated
  <2>1. CASE o = d
    BY <2>1, <1>1
  <2>2. CASE o # d
    BY <2>2, <1>1 DEF PubInv, PublishedWasValidated
  <2> QED BY <2>1, <2>2
<1>6. RanksApart'
  <2> SUFFICES ASSUME <<"ranks", NoConfig>> \notin met, NEW d1 \in Configs, NEW d2 \in Configs, d1 # d2,
                      <<"draft", d1>> \notin met, <<"draft", d2>> \notin met
               PROVE  Claims(d1)' \cap Claims(d2)' = {}
    BY DEF RanksApart
  <2>1. CASE d1 = d
    BY <2>1, <1>1
  <2>2. CASE d2 = d
    BY <2>2, <1>1
  <2>3. CASE d1 # d /\ d2 # d
    BY <2>3, <1>1 DEF PubInv, RanksApart
  <2> QED BY <2>1, <2>2, <2>3
<1>7. EditsApart'
  BY ApartStays DEF Becomes
<1>8. ASSUME NEW f \in Editors PROVE EditOk(edit[f])'
  <2>1. CASE f = e
    BY <2>1 DEF PubInv, PublicationTypeOK, Becomes
  <2>2. CASE f # e
    <3>1. PICK p \in Edit : p = edit[f]
      BY DEF PubInv, PublicationTypeOK
    <3>2. edit'[f] = p
      BY <2>2, <3>1 DEF PubInv, PublicationTypeOK, Becomes
    <3>3. EditOk(p)'
      BY <2>2, <3>1, OthersGoOn
    <3> QED BY <3>2, <3>3
  <2> QED BY <2>1, <2>2
<1> QED BY <1>2, <1>3, <1>4, <1>5, <1>6, <1>7, <1>8 DEF PubInv

-----------------------------------------------------------------------------
(* Publication: the writes                                                 *)

LEMMA ClaimsOf ==
  ASSUME PublicationTypeOK, NEW d \in Configs, configs[d].state = "live"
  PROVE  /\ kind = "WORKFLOW" => Claims(d) = {configs[d].rank}
         /\ kind = "POLICY" => Claims(d) = {configs[d].versions[v].rank : v \in VersionsIn(d, "PUBLISHED")}
BY DEF Claims

LEMMA ClaimsAfter ==
  ASSUME PublicationTypeOK, NEW d \in Configs, NEW c \in Config, Writes(d, c)
  PROVE  /\ c.state # "live" => Claims(d)' = {}
         /\ kind = "WORKFLOW" => Claims(d)' \subseteq {c.rank}
         /\ kind = "SCHEDULE" => Claims(d)' = {}
         /\ kind = "POLICY" =>
              \A r \in Claims(d)' :
                \E v \in DOMAIN c.versions : c.versions[v].state = "PUBLISHED" /\ r = c.versions[v].rank
<1>1. configs'[d] = c /\ \A st : VersionsIn(d, st)' = {v \in DOMAIN c.versions : c.versions[v].state = st}
  BY RowsAfter
<1> kind' = kind
  BY DEF Writes
<1>2. c.state # "live" => Claims(d)' = {}
  BY <1>1 DEF Claims
<1>3. kind = "WORKFLOW" => Claims(d)' \subseteq {c.rank}
  BY <1>1 DEF Claims
<1>4. kind = "SCHEDULE" => Claims(d)' = {}
  BY <1>1 DEF Claims
<1>5. ASSUME kind = "POLICY", NEW r \in Claims(d)'
      PROVE  \E v \in DOMAIN c.versions : c.versions[v].state = "PUBLISHED" /\ r = c.versions[v].rank
  <2>1. r \in {configs'[d].versions[v].rank : v \in VersionsIn(d, "PUBLISHED")'}
    BY <1>5 DEF Claims
  <2> QED BY <2>1, <1>1
<1> QED BY <1>2, <1>3, <1>4, <1>5

\* A write that keeps the row's life and rank, and its published versions, claims nothing new.
LEMMA ClaimsStay ==
  ASSUME PublicationTypeOK, NEW d \in Configs, NEW c \in Config, Writes(d, c),
         c.state = configs[d].state, kind = "WORKFLOW" => c.rank = configs[d].rank,
         kind = "POLICY" =>
           \A v \in DOMAIN c.versions :
             c.versions[v].state = "PUBLISHED" =>
               /\ v \in VersionsIn(d, "PUBLISHED")
               /\ configs[d].versions[v].rank = c.versions[v].rank
  PROVE  Claims(d)' \subseteq Claims(d)
<1>1. CASE c.state # "live"
  BY <1>1, ClaimsAfter
<1>2. CASE c.state = "live" /\ kind = "WORKFLOW"
  <2>1. Claims(d)' \subseteq {c.rank}
    BY <1>2, ClaimsAfter
  <2>2. Claims(d) = {configs[d].rank}
    BY <1>2, ClaimsOf
  <2> QED BY <1>2, <2>1, <2>2
<1>3. CASE kind = "SCHEDULE"
  BY <1>3, ClaimsAfter
<1>4. CASE c.state = "live" /\ kind = "POLICY"
  <2> SUFFICES ASSUME NEW r \in Claims(d)' PROVE r \in Claims(d)
    OBVIOUS
  <2>1. \A x \in Claims(d)' :
          \E v \in DOMAIN c.versions : c.versions[v].state = "PUBLISHED" /\ x = c.versions[v].rank
    BY <1>4, ClaimsAfter
  <2>2. PICK v \in DOMAIN c.versions : c.versions[v].state = "PUBLISHED" /\ r = c.versions[v].rank
    BY <2>1
  <2>3. v \in VersionsIn(d, "PUBLISHED") /\ r = configs[d].versions[v].rank
    BY <1>4, <2>2
  <2>4. Claims(d) = {configs[d].versions[w].rank : w \in VersionsIn(d, "PUBLISHED")}
    BY <1>4, ClaimsOf
  <2> QED BY <2>3, <2>4
<1> QED BY <1>1, <1>2, <1>3, <1>4 DEF PublicationTypeOK, ConfigKinds

\* Nothing new claimed, nothing new shared.
LEMMA StaysApart ==
  ASSUME PubInv, NEW d \in Configs, Claims(d)' \subseteq Claims(d),
         <<"ranks", NoConfig>> \notin met, <<"draft", d>> \notin met,
         NEW o \in Configs \ {d}, <<"draft", o>> \notin met
  PROVE  Claims(d)' \cap Claims(o) = {}
BY DEF PubInv, RanksApart

LEMMA NoEditAfter == EditOk(NoEdit)'
<1>1. TRUE => EditOk(NoEdit)
  BY NoEditSound
<1> QED BY <1>1, PTL

LEMMA InsertSound ==
  ASSUME PubInv, NEW e \in Editors, NEW r \in Ranks, NEW draft \in Version, draft.state = "DRAFT",
         kind = "POLICY" => draft.sound, kind = "WORKFLOW" => r = edit[e].rank, Insert(e, r, draft)
  PROVE  PubInv'
<1>1. PICK q \in Edit : q = edit[e]
  BY DEF PubInv, PublicationTypeOK
<1>2. EditOk(q) /\ q.op = "create" /\ q.pc = "checked"
  BY <1>1 DEF PubInv, Insert, In
<1>3. PICK d \in Configs : d = q.config
  BY <1>2 DEF EditOk, EditReads
<1>4. PICK c \in Config : c = [state |-> "live", active |-> 0, rank |-> r, versions |-> <<draft>>]
  <2>1. <<draft>> \in Seq(Version)
    OBVIOUS
  <2> QED BY <2>1 DEF Config
<1>5. /\ c.state = "live" /\ c.active = 0 /\ c.rank = r /\ c.versions = <<draft>>
      /\ Len(c.versions) = 1 /\ DOMAIN c.versions = {1} /\ c.versions[1] = draft
  BY <1>4
<1>6. /\ Writes(d, c) /\ Becomes(e, NoEdit) /\ UNCHANGED <<kind, met>>
      /\ configs[d].state = "none"
  BY <1>1, <1>3, <1>4 DEF Insert, EndEdit, Writes, Becomes
<1>7. configs[d].versions = <<>> /\ Len(configs[d].versions) = 0 /\ DOMAIN configs[d].versions = {}
  BY <1>6 DEF PubInv, ConfigOk
<1>8. RowKeeps("create", d, c)
  BY <1>5, <1>7 DEF RowKeeps
<1>9. /\ kind = "POLICY" => Claims(d)' = {}
      /\ kind = "SCHEDULE" => Claims(d)' = {}
      /\ kind = "WORKFLOW" => Claims(d)' \subseteq {q.rank}
  BY <1>1, <1>5, <1>6, ClaimsAfter DEF PubInv
<1>10. ClaimsKeep("create", d)
  BY <1>9 DEF ClaimsKeep, Ranking, PubInv, PublicationTypeOK, ConfigKinds
<1>11. configs'[d] = c /\ \A st : VersionsIn(d, st)' = {v \in DOMAIN c.versions : c.versions[v].state = st}
  BY <1>6, RowsAfter DEF PubInv
<1>12. ConfigOk(d)'
  BY <1>5, <1>6, <1>11 DEF ConfigOk
<1>13. VersionsIn(d, "PUBLISHED")' \subseteq {c.active}
  BY <1>5, <1>11
<1>14. ASSUME <<"ranks", NoConfig>> \notin met, NEW o \in Configs \ {d}
       PROVE  Claims(d)' \cap Claims(o) = {}
  <2>1. kind = "WORKFLOW" => q.rank \notin Claims(o)
    BY <1>2, <1>3, <1>14 DEF EditOk, EditRanks, Taken
  <2> QED BY <2>1, <1>9 DEF PubInv, PublicationTypeOK, ConfigKinds
<1>15. \A v \in DOMAIN c.versions : c.versions[v].state # "DRAFT" => c.versions[v].sound
  BY <1>5
<1> QED BY <1>1, <1>2, <1>3, <1>6, <1>8, <1>10, <1>12, <1>13, <1>14, <1>15, <1>5,
           NoEditTyped, NoEditAfter, RowMoves

\* Row c is row old with version w written, anew or in place.
Written(old, c, w) ==
  /\ c.state = old.state /\ c.active = old.active /\ c.rank = old.rank
  /\ DOMAIN c.versions = DOMAIN old.versions \cup {w}
  /\ \A v \in DOMAIN old.versions \ {w} : c.versions[v] = old.versions[v]

\* A new version is a draft, and the only one; one that was there keeps its state.
NewOrKept(old, c, w) ==
  IF w \in DOMAIN old.versions THEN c.versions[w].state = old.versions[w].state
  ELSE /\ c.versions[w].state = "DRAFT"
       /\ \A v \in DOMAIN old.versions : old.versions[v].state # "DRAFT"

LEMMA WrittenStates ==
  ASSUME NEW old \in Config, NEW c \in Config, NEW w \in Nat, Written(old, c, w), NewOrKept(old, c, w)
  PROVE  /\ DOMAIN old.versions \subseteq DOMAIN c.versions
         /\ Len(old.versions) <= Len(c.versions)
         /\ Len(old.versions) = Len(c.versions) => DOMAIN old.versions = DOMAIN c.versions
         /\ \A v \in DOMAIN old.versions : c.versions[v].state = old.versions[v].state
         /\ \A v \in DOMAIN c.versions \ DOMAIN old.versions : c.versions[v].state = "DRAFT"
         /\ w \notin DOMAIN old.versions => \A v \in DOMAIN old.versions : old.versions[v].state # "DRAFT"
         /\ w \in DOMAIN c.versions
<1>1. /\ Len(c.versions) \in Nat /\ DOMAIN c.versions = 1..Len(c.versions)
      /\ Len(old.versions) \in Nat /\ DOMAIN old.versions = 1..Len(old.versions)
  BY RowTyped
<1>2. DOMAIN old.versions \subseteq DOMAIN c.versions /\ w \in DOMAIN c.versions
  BY DEF Written
<1>3. PICK k \in Nat : k = Len(old.versions)
  BY <1>1
<1>4. PICK m \in Nat : m = Len(c.versions)
  BY <1>1
<1>5. 1..k \subseteq 1..m
  BY <1>1, <1>2, <1>3, <1>4
<1>6. k <= m
  <2>1. k = 0 \/ k \in 1..m
    BY <1>5
  <2> QED BY <2>1
<1>7. k = m => DOMAIN old.versions = DOMAIN c.versions
  BY <1>1, <1>3, <1>4
<1>8. \A v \in DOMAIN old.versions : c.versions[v].state = old.versions[v].state
  BY DEF Written, NewOrKept
<1>9. \A v \in DOMAIN c.versions \ DOMAIN old.versions : c.versions[v].state = "DRAFT"
  BY DEF Written, NewOrKept
<1>10. w \notin DOMAIN old.versions => \A v \in DOMAIN old.versions : old.versions[v].state # "DRAFT"
  BY DEF NewOrKept
<1> QED BY <1>2, <1>3, <1>4, <1>6, <1>7, <1>8, <1>9, <1>10

LEMMA WrittenRowKeeps ==
  ASSUME NEW d \in Configs, NEW op \in {"update", "clone"},
         NEW old \in Config, NEW c \in Config, NEW w \in Nat, old = configs[d], old.state # "none",
         Written(old, c, w), NewOrKept(old, c, w), op = "clone" => w \notin DOMAIN old.versions
  PROVE  RowKeeps(op, d, c)
<1>1. c.state # "none"
  BY DEF Written
<1>2. op # "update" => \A v \in DOMAIN old.versions : c.versions[v] = old.versions[v]
  BY DEF Written
<1>3. Len(old.versions) = Len(c.versions) =>
        \A v \in DOMAIN c.versions : c.versions[v].state = "DRAFT" => old.versions[v].state = "DRAFT"
  BY WrittenStates
<1>4. op # "publish"
  OBVIOUS
<1> QED BY <1>1, <1>2, <1>3, <1>4, WrittenStates DEF RowKeeps

\* The configuration stays sound.
LEMMA WrittenConfigOk ==
  ASSUME PubInv, NEW d \in Configs, NEW old \in Config, NEW c \in Config, NEW w \in Nat, old = configs[d],
         old.state # "none", Written(old, c, w), NewOrKept(old, c, w),
         Writes(d, c), kind = "POLICY" => c.versions[w].sound
  PROVE  ConfigOk(d)'
<1> kind' = kind
  BY DEF Writes
<1>1. configs'[d] = c /\ \A st : VersionsIn(d, st)' = {v \in DOMAIN c.versions : c.versions[v].state = st}
  BY RowsAfter DEF PubInv
<1>2. /\ old.active # 0 => old.active \in DOMAIN old.versions /\ old.versions[old.active].state = "PUBLISHED"
      /\ \A u, v \in DOMAIN old.versions :
           old.versions[u].state = "DRAFT" /\ old.versions[v].state = "DRAFT" => u = v
      /\ kind = "POLICY" => \A v \in DOMAIN old.versions : old.versions[v].sound
  BY DEF PubInv, ConfigOk, VersionsIn
<1>3. c.active # 0 => c.active \in DOMAIN c.versions /\ c.versions[c.active].state = "PUBLISHED"
  <2>1. c.active = old.active
    BY DEF Written
  <2> QED BY <1>2, <2>1, WrittenStates
<1>4. ASSUME NEW u \in DOMAIN c.versions, NEW v \in DOMAIN c.versions,
             c.versions[u].state = "DRAFT", c.versions[v].state = "DRAFT"
      PROVE  u = v
  <2>1. CASE w \in DOMAIN old.versions
    <3>1. u \in DOMAIN old.versions /\ v \in DOMAIN old.versions
      BY <2>1 DEF Written
    <3> QED BY <3>1, <1>2, <1>4, WrittenStates
  <2>2. CASE w \notin DOMAIN old.versions
    <3>1. \A x \in DOMAIN old.versions : c.versions[x].state # "DRAFT"
      BY <2>2, WrittenStates
    <3> QED BY <3>1, <1>4 DEF Written
  <2> QED BY <2>1, <2>2
<1>5. kind = "POLICY" => \A v \in DOMAIN c.versions : c.versions[v].sound
  BY <1>2 DEF Written
<1>6. c.state # "none"
  BY DEF Written
<1> QED BY <1>1, <1>3, <1>4, <1>5, <1>6 DEF ConfigOk

\* A workflow's update goes on to the workflow's own row.
LEMMA GoesOnWriting ==
  ASSUME PubInv, NEW e \in Editors, NEW q \in Edit, q = edit[e], q.op = "update", q.pc = "checked",
         kind = "WORKFLOW", NEW n \in Edit, n = [q EXCEPT !.pc = "written"],
         NEW d \in Configs, d = q.config, NEW c \in Config,
         Writes(d, c),
         c.state # "none", DOMAIN configs[d].versions \subseteq DOMAIN c.versions,
         \A v \in DOMAIN configs[d].versions : c.versions[v].state = configs[d].versions[v].state
  PROVE  EditOk(n)'
<1> kind' = kind /\ met' = met
  BY DEF Writes
<1>1. EditOk(q) /\ PublicationTypeOK
  BY DEF PubInv
<1>2. /\ n.op = "update" /\ n.pc = "written" /\ n.config = d /\ n.draft = q.draft /\ n.rank = q.rank
  BY DEF Edit
<1>3. configs'[d] = c /\ \A st : VersionsIn(d, st)' = {v \in DOMAIN c.versions : c.versions[v].state = st}
  BY <1>1, RowsAfter
<1>4. q.draft # 0 => q.draft \in DOMAIN configs[d].versions
  BY <1>1 DEF EditOk, EditReads
<1>5. EditReads(n)'
  BY <1>2, <1>3, <1>4 DEF EditReads
<1>6. q.draft # 0 /\ <<"draft", d>> \notin met => c.versions[q.draft].state = "DRAFT"
  BY <1>1, <1>4 DEF EditOk, EditKnows
<1>7. EditKnows(n)'
  BY <1>2, <1>3, <1>6 DEF EditKnows
<1>8. <<"ranks", NoConfig>> \notin met /\ q.rank # 0 => ~Taken(d, q.rank)
  BY <1>1 DEF EditOk, EditRanks
<1>9. \A o \in Configs \ {d} : Claims(o)' = Claims(o)
  BY <1>1, RowsAfter
<1>10. Taken(d, q.rank)' <=> Taken(d, q.rank)
  BY <1>9 DEF Taken
<1>11. EditRanks(n)'
  BY <1>2, <1>8, <1>10 DEF EditRanks
<1> QED BY <1>5, <1>7, <1>11 DEF EditOk

\* An update or a clone writes a version.
LEMMA DraftWritten ==
  ASSUME PubInv, NEW e \in Editors, NEW q \in Edit, q = edit[e], NEW op \in {"update", "clone"}, q.op = op,
         NEW d \in Configs, d = q.config, NEW old \in Config, old = configs[d],
         NEW c \in Config, NEW w \in Nat, Written(old, c, w), NewOrKept(old, c, w),
         w \in DOMAIN old.versions => op = "update" /\ q.draft = w /\ w # 0,
         kind = "POLICY" => c.versions[w].sound,
         NEW n \in Edit, n.op = "none" \/ (n.op = op /\ n.config = d), EditOk(n)',
         Writes(d, c), Becomes(e, n)
  PROVE  PubInv'
<1>1. EditOk(q) /\ PublicationTypeOK
  BY DEF PubInv
<1>2. configs'[d] = c /\ \A st : VersionsIn(d, st)' = {v \in DOMAIN c.versions : c.versions[v].state = st}
  BY <1>1, RowsAfter
<1>3. old.state # "none"
  BY <1>1 DEF EditOk, EditReads
<1>4. RowKeeps(op, d, c)
  BY <1>3, WrittenRowKeeps
<1>5. ConfigOk(d)'
  BY <1>3, WrittenConfigOk
<1>6. <<"draft", d>> \notin met => c.versions[w].state = "DRAFT"
  <2>1. w \in DOMAIN old.versions /\ <<"draft", d>> \notin met => old.versions[w].state = "DRAFT"
    BY <1>1 DEF EditOk, EditKnows
  <2> QED BY <2>1 DEF NewOrKept
<1>7. ASSUME kind # "POLICY" \/ <<"draft", d>> \notin met PROVE Claims(d)' \subseteq Claims(d)
  <2>1. ASSUME kind = "POLICY", NEW v \in DOMAIN c.versions, c.versions[v].state = "PUBLISHED"
        PROVE  v \in VersionsIn(d, "PUBLISHED") /\ configs[d].versions[v].rank = c.versions[v].rank
    <3>1. v # w
      BY <1>6, <1>7, <2>1
    <3>2. v \in DOMAIN old.versions /\ c.versions[v] = old.versions[v]
      BY <3>1 DEF Written
    <3> QED BY <2>1, <3>2 DEF VersionsIn
  <2>2. c.state = configs[d].state /\ c.rank = configs[d].rank
    BY DEF Written
  <2> QED BY <1>1, <2>1, <2>2, ClaimsStay
<1>8. ClaimsKeep(op, d)
  BY <1>7 DEF ClaimsKeep
<1>9. <<"publications", d>> \notin met => VersionsIn(d, "PUBLISHED")' \subseteq {c.active}
  <2>1. \A v \in DOMAIN c.versions :
          c.versions[v].state = "PUBLISHED" => v \in DOMAIN old.versions /\ old.versions[v].state = "PUBLISHED"
    BY WrittenStates
  <2>2. VersionsIn(d, "PUBLISHED")' \subseteq VersionsIn(d, "PUBLISHED")
    BY <1>2, <2>1 DEF VersionsIn
  <2>3. c.active = configs[d].active
    BY DEF Written
  <2> QED BY <2>2, <2>3 DEF PubInv, OnlyActiveIsPublished
<1>10. ASSUME <<"draft", d>> \notin met, NEW v \in DOMAIN c.versions, c.versions[v].state # "DRAFT"
       PROVE  c.versions[v].sound
  <2>1. v # w
    BY <1>6, <1>10
  <2>2. v \in DOMAIN old.versions /\ c.versions[v] = old.versions[v]
    BY <2>1 DEF Written
  <2>3. configs[d].versions[v] \in Version
    BY <2>2, <1>1, ConfigTyped
  <2>4. configs[d].versions[v].state \in {"PUBLISHED", "RETIRED"}
    BY <1>10, <2>2, <2>3 DEF Version
  <2>5. v \in VersionsIn(d, "PUBLISHED") \cup VersionsIn(d, "RETIRED")
    BY <2>2, <2>4 DEF VersionsIn
  <2> QED BY <1>10, <2>2, <2>5 DEF PubInv, PublishedWasValidated
<1>11. ASSUME <<"ranks", NoConfig>> \notin met, <<"draft", d>> \notin met, NEW o \in Configs \ {d},
              <<"draft", o>> \notin met
       PROVE  Claims(d)' \cap Claims(o) = {}
  <2>1. Claims(d)' \subseteq Claims(d)
    BY <1>7, <1>11
  <2> QED BY <1>11, <2>1, StaysApart
<1>12. d = edit[e].config /\ op = edit[e].op /\ op \in {"create", "update", "publish", "clone", "delete"}
  OBVIOUS
<1>13. <<"draft", d>> \notin met =>
         \A v \in DOMAIN c.versions : c.versions[v].state # "DRAFT" => c.versions[v].sound
  BY <1>10
<1>14. /\ <<"ranks", NoConfig>> \notin met
       /\ <<"draft", d>> \notin met
       => \A o \in Configs \ {d} : <<"draft", o>> \notin met => Claims(d)' \cap Claims(o) = {}
  BY <1>11
<1> QED BY <1>4, <1>5, <1>8, <1>9, <1>12, <1>13, <1>14, RowMoves

\* What becomes of the request: it ends, or a workflow's update goes on.
LEMMA AfterWriting ==
  ASSUME PubInv, NEW e \in Editors, NEW q \in Edit, q = edit[e], NEW n \in Edit,
         NEW op \in {"update", "clone"}, q.op = op, op = "update" => q.pc = "checked",
         n = NoEdit \/ (kind = "WORKFLOW" /\ op = "update" /\ n = [q EXCEPT !.pc = "written"]),
         NEW d \in Configs, d = q.config, NEW old \in Config, old = configs[d], NEW c \in Config,
         Writes(d, c), NEW w \in Nat, Written(old, c, w), NewOrKept(old, c, w)
  PROVE  (n.op = "none" \/ (n.op = op /\ n.config = d)) /\ EditOk(n)'
<1>1. CASE n = NoEdit
  BY <1>1, NoEditTyped, NoEditAfter
<1>2. CASE kind = "WORKFLOW" /\ op = "update" /\ n = [q EXCEPT !.pc = "written"]
  <2>1. n.op = op /\ n.config = d
    BY <1>2 DEF Edit
  <2>2. old.state # "none"
    BY DEF PubInv, EditOk, EditReads
  <2>3. c.state # "none"
    BY <2>2 DEF Written
  <2>4. /\ DOMAIN configs[d].versions \subseteq DOMAIN c.versions
        /\ \A v \in DOMAIN configs[d].versions : c.versions[v].state = configs[d].versions[v].state
    BY WrittenStates
  <2> QED BY <1>2, <2>1, <2>3, <2>4, GoesOnWriting
<1> QED BY <1>1, <1>2

LEMMA AddVersionSound ==
  ASSUME PubInv, NEW e \in Editors, NEW q \in Edit, q = edit[e], NEW op \in {"update", "clone"}, q.op = op,
         q.pc = IF op = "update" THEN "checked" ELSE "loaded", q.draft = 0,
         NEW draft \in Version, draft.state = "DRAFT", kind = "POLICY" => draft.sound,
         AddVersion(q, draft), NEW n \in Edit, Becomes(e, n), UNCHANGED <<kind, met>>,
         n = NoEdit \/ (kind = "WORKFLOW" /\ op = "update" /\ n = [q EXCEPT !.pc = "written"])
  PROVE  PubInv'
<1>1. EditOk(q) /\ PublicationTypeOK
  BY DEF PubInv
<1>2. PICK d \in Configs : d = q.config
  BY <1>1 DEF EditOk, EditReads
<1>3. PICK old \in Config : old = configs[d]
  BY <1>1, ConfigTyped
<1>4. PICK s \in Seq(Version) : s = old.versions
  BY <1>1, <1>3, ConfigTyped
<1>5. PICK vs \in Seq(Version) : vs = Append(s, draft)
  BY AppendProperties
<1>6. PICK w \in Nat : w = Len(s) + 1
  BY LenProperties
<1>7. /\ DOMAIN vs = DOMAIN s \cup {w} /\ w \notin DOMAIN s
      /\ \A v \in DOMAIN s : vs[v] = s[v]
      /\ vs[w] = draft
  <2>1. Len(s) \in Nat /\ DOMAIN s = 1..Len(s)
    BY LenProperties
  <2>2. /\ Len(vs) = w /\ DOMAIN vs = 1..Len(vs)
        /\ \A i \in 1..Len(s) : vs[i] = s[i]
        /\ vs[w] = draft
    BY <1>5, <1>6, AppendProperties, LenProperties
  <2> QED BY <2>1, <2>2, <1>6
<1>8. PICK c \in Config : c = [old EXCEPT !.versions = vs]
  BY DEF Config
<1>9. c.versions = vs /\ c.state = old.state /\ c.active = old.active /\ c.rank = old.rank
  BY <1>8 DEF Config
<1>10. Writes(d, c) /\ Len(s) = q.latest
  BY <1>2, <1>3, <1>4, <1>5, <1>8 DEF AddVersion, Writes
<1>11. VersionsIn(d, "DRAFT") = {}
  BY <1>1, <1>2, <1>3, <1>4, <1>10 DEF EditOk, EditReads
<1>12. \A v \in DOMAIN old.versions : old.versions[v].state # "DRAFT"
  BY <1>3, <1>11 DEF VersionsIn
<1>13. Written(old, c, w)
  BY <1>4, <1>7, <1>9 DEF Written
<1>14. NewOrKept(old, c, w) /\ w \notin DOMAIN old.versions
  BY <1>4, <1>7, <1>9, <1>12 DEF NewOrKept
<1>15. kind = "POLICY" => c.versions[w].sound
  BY <1>7, <1>9
<1>16. (n.op = "none" \/ (n.op = op /\ n.config = d)) /\ EditOk(n)'
  BY <1>2, <1>3, <1>10, <1>13, <1>14, AfterWriting
<1> QED BY <1>2, <1>3, <1>10, <1>13, <1>14, <1>15, <1>16, DraftWritten

LEMMA WriteDraftSound ==
  ASSUME PubInv, NEW e \in Editors, NEW q \in Edit, q = edit[e],
         NEW draft \in Version, draft.state = "DRAFT", kind = "POLICY" => draft.sound,
         WriteDraft(e, draft), NEW n \in Edit, Becomes(e, n),
         n = NoEdit \/ (kind = "WORKFLOW" /\ n = [q EXCEPT !.pc = "written"])
  PROVE  PubInv'
<1>1. EditOk(q) /\ PublicationTypeOK /\ q.op = "update" /\ q.pc = "checked" /\ UNCHANGED <<kind, met>>
  BY DEF PubInv, WriteDraft, In
<1>2. CASE q.draft = 0
  <2>1. AddVersion(q, draft)
    BY <1>2 DEF WriteDraft
  <2> QED BY <1>1, <1>2, <2>1, AddVersionSound
<1>3. CASE q.draft # 0
  <2>1. PICK d \in Configs : d = q.config
    BY <1>1 DEF EditOk, EditReads
  <2>2. PICK old \in Config : old = configs[d]
    BY <1>1, ConfigTyped
  <2>3. PICK w \in Nat : w = q.draft
    BY DEF Edit
  <2>4. PICK s \in Seq(Version) : s = old.versions
    BY <1>1, <2>2, ConfigTyped
  <2>5. w \in DOMAIN s
    BY <1>1, <1>3, <2>1, <2>2, <2>3, <2>4 DEF EditOk, EditReads
  <2>6. s[w] \in Version
    BY <2>5, ElementOfSeq, LenProperties
  <2>7. PICK x \in Version : x = [draft EXCEPT !.state = s[w].state]
    BY <2>6 DEF Version
  <2>8. x.state = s[w].state /\ x.sound = draft.sound
    BY <2>7 DEF Version
  <2>9. PICK vs \in Seq(Version) : vs = [s EXCEPT ![w] = x]
    <3>1. w \in 1..Len(s)
      BY <2>5, LenProperties
    <3>2. [s EXCEPT ![w] = x] \in Seq(Version)
      BY <3>1, ExceptSeq
    <3> QED BY <3>2
  <2>10. /\ DOMAIN vs = DOMAIN s /\ vs[w] = x
         /\ \A v \in DOMAIN s \ {w} : vs[v] = s[v]
    BY <2>5, <2>9
  <2>11. PICK c \in Config : c = [old EXCEPT !.versions = vs]
    BY DEF Config
  <2>12. c.versions = vs /\ c.state = old.state /\ c.active = old.active /\ c.rank = old.rank
    BY <2>11 DEF Config
  <2>13. Writes(d, c)
    <3>1. [old EXCEPT !.versions = vs] =
            [old EXCEPT !.versions[w] = [draft EXCEPT !.state = old.versions[w].state]]
      BY <2>4, <2>7, <2>9 DEF Config
    <3>2. Put(d, [old EXCEPT !.versions[w] = [draft EXCEPT !.state = old.versions[w].state]])
      BY <1>3, <2>1, <2>2, <2>3 DEF WriteDraft
    <3> QED BY <1>1, <2>11, <3>1, <3>2 DEF Writes
  <2>14. Written(old, c, w) /\ NewOrKept(old, c, w) /\ w \in DOMAIN old.versions
    BY <2>4, <2>5, <2>8, <2>10, <2>12 DEF Written, NewOrKept
  <2>15. kind = "POLICY" => c.versions[w].sound
    BY <2>8, <2>10, <2>12
  <2>16. (n.op = "none" \/ (n.op = "update" /\ n.config = d)) /\ EditOk(n)'
    BY <1>1, <2>1, <2>2, <2>13, <2>14, AfterWriting
  <2> QED BY <1>1, <1>3, <2>1, <2>2, <2>3, <2>13, <2>14, <2>15, <2>16, DraftWritten
<1> QED BY <1>2, <1>3

\* A write of the row's own fields: its versions stay.
LEMMA FieldsWritten ==
  ASSUME PubInv, NEW e \in Editors, NEW q \in Edit, q = edit[e], NEW op \in {"update", "delete"}, q.op = op,
         NEW d \in Configs, d = q.config, NEW old \in Config, old = configs[d], NEW c \in Config,
         c.versions = old.versions, c.active = old.active, c.state # "none",
         Writes(d, c), Becomes(e, NoEdit), ClaimsKeep(op, d),
         /\ <<"ranks", NoConfig>> \notin met
         /\ <<"draft", d>> \notin met
         => \A o \in Configs \ {d} : <<"draft", o>> \notin met => Claims(d)' \cap Claims(o) = {}
  PROVE  PubInv'
<1>1. PublicationTypeOK
  BY DEF PubInv
<1>2. configs'[d] = c /\ \A st : VersionsIn(d, st)' = {v \in DOMAIN c.versions : c.versions[v].state = st}
  BY <1>1, RowsAfter
<1>3. \A st : VersionsIn(d, st)' = VersionsIn(d, st)
  BY <1>2 DEF VersionsIn
<1>4. Len(c.versions) \in Nat
  BY <1>1, ConfigTyped
<1>5. RowKeeps(op, d, c)
  BY <1>4 DEF RowKeeps
<1>6. ConfigOk(d)'
  <2>1. kind' = kind
    BY DEF Writes
  <2>2. ConfigOk(d)
    BY DEF PubInv
  <2> QED BY <1>2, <1>3, <2>1, <2>2 DEF ConfigOk
<1>7. <<"publications", d>> \notin met => VersionsIn(d, "PUBLISHED")' \subseteq {c.active}
  BY <1>3 DEF PubInv, OnlyActiveIsPublished
<1>8. ASSUME <<"draft", d>> \notin met, NEW v \in DOMAIN c.versions, c.versions[v].state # "DRAFT"
      PROVE  c.versions[v].sound
  <2>1. configs[d].versions[v] \in Version
    BY <1>1, ConfigTyped
  <2>2. configs[d].versions[v].state \in {"PUBLISHED", "RETIRED"}
    BY <1>8, <2>1 DEF Version
  <2>3. v \in VersionsIn(d, "PUBLISHED") \cup VersionsIn(d, "RETIRED")
    BY <2>2 DEF VersionsIn
  <2> QED BY <1>8, <2>3 DEF PubInv, PublishedWasValidated
<1>9. <<"draft", d>> \notin met =>
        \A v \in DOMAIN c.versions : c.versions[v].state # "DRAFT" => c.versions[v].sound
  BY <1>8
<1>10. d = edit[e].config /\ op = edit[e].op /\ op \in {"create", "update", "publish", "clone", "delete"}
  OBVIOUS
<1> QED BY <1>5, <1>6, <1>7, <1>9, <1>10, NoEditTyped, NoEditAfter, RowMoves

LEMMA UpdateConfigSound ==
  ASSUME PubInv, NEW e \in Editors, UpdateConfig(e)
  PROVE  PubInv'
<1>1. PICK q \in Edit : q = edit[e]
  BY DEF PubInv, PublicationTypeOK
<1>2. EditOk(q) /\ PublicationTypeOK /\ q.op = "update" /\ q.pc = "written"
  BY <1>1 DEF PubInv, UpdateConfig, In
<1>3. PICK d \in Configs : d = q.config
  BY <1>2 DEF EditOk, EditReads
<1>4. PICK old \in Config : old = configs[d]
  BY <1>2, ConfigTyped
<1>5. PICK r \in Ranks : r = IF q.rank = 0 THEN old.rank ELSE q.rank
  BY DEF Config, Edit
<1>6. PICK c \in Config : c = [old EXCEPT !.rank = r]
  BY DEF Config
<1>7. c.versions = old.versions /\ c.active = old.active /\ c.state = old.state /\ c.rank = r
  BY <1>6 DEF Config
<1>8. Writes(d, c) /\ Becomes(e, NoEdit)
  BY <1>1, <1>3, <1>4, <1>5, <1>6 DEF UpdateConfig, EndEdit, Writes, Becomes
<1>9. c.state # "none"
  BY <1>2, <1>3, <1>4, <1>7 DEF EditOk, EditReads
<1>10. kind # "WORKFLOW" \/ q.rank = 0 => Claims(d)' \subseteq Claims(d)
  <2> SUFFICES ASSUME kind # "WORKFLOW" \/ q.rank = 0 PROVE Claims(d)' \subseteq Claims(d)
    OBVIOUS
  <2>1. kind = "WORKFLOW" => c.rank = configs[d].rank
    BY <1>4, <1>5, <1>7
  <2>2. \A v \in DOMAIN c.versions :
          c.versions[v].state = "PUBLISHED" =>
            v \in VersionsIn(d, "PUBLISHED") /\ configs[d].versions[v].rank = c.versions[v].rank
    BY <1>4, <1>7 DEF VersionsIn
  <2> QED BY <1>2, <1>4, <1>7, <1>8, <2>1, <2>2, ClaimsStay
<1>11. ClaimsKeep("update", d)
  BY <1>10 DEF ClaimsKeep, Ranking
<1>12. ASSUME <<"ranks", NoConfig>> \notin met, <<"draft", d>> \notin met, NEW o \in Configs \ {d},
              <<"draft", o>> \notin met
       PROVE  Claims(d)' \cap Claims(o) = {}
  <2>1. CASE kind # "WORKFLOW" \/ q.rank = 0
    <3>1. Claims(d)' \subseteq Claims(d)
      BY <1>10, <2>1
    <3> QED BY <1>12, <3>1, StaysApart
  <2>2. CASE kind = "WORKFLOW" /\ q.rank # 0
    <3>1. Claims(d)' \subseteq {q.rank}
      BY <1>2, <1>5, <1>7, <1>8, <2>2, ClaimsAfter
    <3>2. q.rank \notin Claims(o)
      BY <1>2, <1>3, <1>12, <2>2 DEF EditOk, EditRanks, Taken
    <3> QED BY <3>1, <3>2
  <2> QED BY <2>1, <2>2
<1> QED BY <1>1, <1>2, <1>3, <1>4, <1>7, <1>8, <1>9, <1>11, <1>12, FieldsWritten

LEMMA DeleteConfigSound ==
  ASSUME PubInv, NEW e \in Editors, DeleteConfig(e)
  PROVE  PubInv'
<1>1. PICK q \in Edit : q = edit[e]
  BY DEF PubInv, PublicationTypeOK
<1>2. EditOk(q) /\ PublicationTypeOK /\ q.op = "delete"
  BY <1>1 DEF PubInv, DeleteConfig, In
<1>3. PICK d \in Configs : d = q.config
  BY <1>2 DEF EditOk, EditReads
<1>4. PICK old \in Config : old = configs[d]
  BY <1>2, ConfigTyped
<1>5. PICK c \in Config : c = [old EXCEPT !.state = "deleted"]
  BY DEF Config
<1>6. c.versions = old.versions /\ c.active = old.active /\ c.state = "deleted"
  BY <1>5 DEF Config
<1>7. Writes(d, c) /\ Becomes(e, NoEdit)
  BY <1>1, <1>3, <1>4, <1>5 DEF DeleteConfig, EndEdit, Writes, Becomes
<1>8. Claims(d)' = {}
  BY <1>2, <1>6, <1>7, ClaimsAfter
<1>9. ClaimsKeep("delete", d)
  BY <1>8 DEF ClaimsKeep
<1> QED BY <1>1, <1>2, <1>3, <1>4, <1>6, <1>7, <1>8, <1>9, FieldsWritten

LEMMA PublishVersionSound ==
  ASSUME PubInv, NEW e \in Editors, PublishVersion(e)
  PROVE  PubInv'
<1>1. PICK q \in Edit : q = edit[e]
  BY DEF PubInv, PublicationTypeOK
<1>2. EditOk(q) /\ PublicationTypeOK /\ q.op = "publish" /\ q.pc = "retiring"
  BY <1>1 DEF PubInv, PublishVersion, In
<1>3. PICK d \in Configs : d = q.config
  BY <1>2 DEF EditOk, EditReads
<1>4. PICK old \in Config : old = configs[d]
  BY <1>2, ConfigTyped
<1>5. PICK w \in Nat : w = q.draft
  BY DEF Edit
<1>6. PICK s \in Seq(Version) : s = old.versions
  BY <1>2, <1>4, ConfigTyped
<1>7. w # 0 /\ w \in DOMAIN s
  BY <1>2, <1>3, <1>4, <1>5, <1>6 DEF EditOk, EditReads
<1>8. DOMAIN s = 1..Len(s) /\ Len(s) \in Nat /\ \A v \in DOMAIN s : s[v] \in Version
  BY LenProperties, ElementOfSeq
<1>9. Published(s, q.retire, w) \in [1..Len(s) -> Version]
  BY <1>8 DEF Published, Version
<1>10. PICK vs \in Seq(Version) : vs = Published(s, q.retire, w)
  BY <1>8, <1>9, SeqDef
<1>11. /\ DOMAIN vs = DOMAIN s /\ Len(vs) = Len(s)
       /\ vs[w].state = "PUBLISHED" /\ vs[w].sound = s[w].sound /\ vs[w].rank = s[w].rank
       /\ \A v \in DOMAIN s \ {w} :
            /\ vs[v].sound = s[v].sound /\ vs[v].rank = s[v].rank
            /\ vs[v].state \in {s[v].state, "RETIRED"}
            /\ vs[v].state = "RETIRED" => s[v].state \in {"PUBLISHED", "RETIRED"}
            /\ vs[v].state = "PUBLISHED" => s[v].state = "PUBLISHED" /\ v \notin q.retire
  <2>1. DOMAIN vs = DOMAIN s
    BY <1>8, <1>10 DEF Published
  <2>2. Len(vs) = Len(s)
    <3>1. PICK k \in Nat : k = Len(s)
      BY LenProperties
    <3>2. PICK m \in Nat : m = Len(vs)
      BY LenProperties
    <3>3. 1..k = 1..m
      BY <2>1, <3>1, <3>2, LenProperties
    <3>4. k = m
      BY <3>3
    <3> QED BY <3>1, <3>2, <3>4
  <2>3. vs[w] = [s[w] EXCEPT !.state = "PUBLISHED"]
    BY <1>7, <1>10 DEF Published
  <2>4. vs[w].state = "PUBLISHED" /\ vs[w].sound = s[w].sound /\ vs[w].rank = s[w].rank
    BY <1>7, <1>8, <2>3 DEF Version
  <2>5. ASSUME NEW v \in DOMAIN s \ {w}
        PROVE  /\ vs[v].sound = s[v].sound /\ vs[v].rank = s[v].rank
               /\ vs[v].state \in {s[v].state, "RETIRED"}
               /\ vs[v].state = "RETIRED" => s[v].state \in {"PUBLISHED", "RETIRED"}
               /\ vs[v].state = "PUBLISHED" => s[v].state = "PUBLISHED" /\ v \notin q.retire
    <3>1. s[v] \in Version
      BY <1>8
    <3>2. CASE v \in q.retire /\ s[v].state = "PUBLISHED"
      <4>1. vs[v] = [s[v] EXCEPT !.state = "RETIRED"]
        BY <1>10, <3>2 DEF Published
      <4> QED BY <3>1, <3>2, <4>1 DEF Version
    <3>3. CASE ~(v \in q.retire /\ s[v].state = "PUBLISHED")
      <4>1. vs[v] = s[v]
        BY <1>10, <3>3 DEF Published
      <4> QED BY <3>3, <4>1
    <3> QED BY <3>2, <3>3
  <2> QED BY <2>1, <2>2, <2>4, <2>5
<1>12. PICK c \in Config : c = [old EXCEPT !.versions = vs, !.active = w]
  BY DEF Config
<1>13. c.versions = vs /\ c.active = w /\ c.state = old.state /\ c.rank = old.rank
  BY <1>12 DEF Config
<1>14. Writes(d, c) /\ Becomes(e, NoEdit)
  <2>1. Put(d, [old EXCEPT !.versions = Published(@, q.retire, w), !.active = w])
    BY <1>1, <1>3, <1>4, <1>5 DEF PublishVersion
  <2>2. c = [old EXCEPT !.versions = Published(@, q.retire, w), !.active = w]
    BY <1>6, <1>10, <1>12
  <2> QED BY <2>1, <2>2 DEF PublishVersion, EndEdit, Writes, Becomes
<1>15. configs'[d] = c /\ \A st : VersionsIn(d, st)' = {v \in DOMAIN c.versions : c.versions[v].state = st}
  BY <1>2, <1>14, RowsAfter
<1>16. c.state # "none"
  BY <1>2, <1>3, <1>4, <1>13 DEF EditOk, EditReads
<1>17. RowKeeps("publish", d, c)
  <2>1. \A v \in DOMAIN vs : vs[v].state = "DRAFT" => s[v].state = "DRAFT"
    BY <1>11
  <2>2. \A v \in DOMAIN s : vs[v].sound = s[v].sound /\ vs[v].rank = s[v].rank
    BY <1>11
  <2> QED BY <1>4, <1>6, <1>8, <1>11, <1>13, <1>16, <2>1, <2>2 DEF RowKeeps
<1>18. kind # "POLICY" => Claims(d)' \subseteq Claims(d)
  BY <1>2, <1>4, <1>13, <1>14, ClaimsStay
<1>19. ClaimsKeep("publish", d)
  BY <1>18 DEF ClaimsKeep, Ranking
<1>20. ConfigOk(d)'
  <2>1. ConfigOk(d) /\ kind' = kind
    BY <1>14 DEF PubInv, Writes
  <2>2. c.active \in VersionsIn(d, "PUBLISHED")'
    BY <1>7, <1>11, <1>13, <1>15
  <2>3. VersionsIn(d, "DRAFT")' \subseteq VersionsIn(d, "DRAFT")
    BY <1>4, <1>6, <1>11, <1>13, <1>15 DEF VersionsIn
  <2>4. \A u, v \in VersionsIn(d, "DRAFT")' : u = v
    BY <2>1, <2>3 DEF ConfigOk
  <2>5. kind = "POLICY" => \A v \in DOMAIN c.versions : c.versions[v].sound
    BY <1>4, <1>6, <1>11, <1>13, <2>1 DEF ConfigOk
  <2> QED BY <1>15, <1>16, <2>1, <2>2, <2>4, <2>5 DEF ConfigOk
<1>21. <<"publications", d>> \notin met => VersionsIn(d, "PUBLISHED")' \subseteq {c.active}
  <2> SUFFICES ASSUME <<"publications", d>> \notin met, NEW v \in DOMAIN vs, vs[v].state = "PUBLISHED"
               PROVE  v = w
    BY <1>13, <1>15
  <2>1. VersionsIn(d, "PUBLISHED") \subseteq q.retire
    BY <1>2, <1>3 DEF EditOk, EditKnows
  <2>2. v # w => v \in VersionsIn(d, "PUBLISHED") /\ v \notin q.retire
    BY <1>4, <1>6, <1>11 DEF VersionsIn
  <2> QED BY <2>1, <2>2
<1>22. ASSUME <<"draft", d>> \notin met, NEW v \in DOMAIN c.versions, c.versions[v].state # "DRAFT"
       PROVE  c.versions[v].sound
  <2>1. CASE v = w
    BY <1>2, <1>3, <1>4, <1>5, <1>6, <1>11, <1>13, <1>22, <2>1 DEF EditOk, EditKnows
  <2>2. CASE v # w
    <3>1. v \in DOMAIN s \ {w}
      BY <1>11, <1>13, <2>2
    <3>2. s[v].state \in {"PUBLISHED", "RETIRED"}
      <4>1. s[v].state \in {"DRAFT", "PUBLISHED", "RETIRED"}
        BY <1>8, <3>1 DEF Version
      <4> QED BY <1>11, <1>13, <1>22, <3>1, <4>1
    <3>3. v \in VersionsIn(d, "PUBLISHED") \cup VersionsIn(d, "RETIRED")
      BY <1>4, <1>6, <3>1, <3>2 DEF VersionsIn
    <3>4. s[v].sound
      BY <1>4, <1>6, <1>22, <3>3 DEF PubInv, PublishedWasValidated
    <3> QED BY <1>11, <1>13, <3>1, <3>4
  <2> QED BY <2>1, <2>2
<1>23. <<"draft", d>> \notin met =>
         \A v \in DOMAIN c.versions : c.versions[v].state # "DRAFT" => c.versions[v].sound
  BY <1>22
<1>24. ASSUME <<"ranks", NoConfig>> \notin met, <<"draft", d>> \notin met, NEW o \in Configs \ {d},
              <<"draft", o>> \notin met
       PROVE  Claims(d)' \cap Claims(o) = {}
  <2>1. CASE kind # "POLICY"
    <3>1. Claims(d)' \subseteq Claims(d)
      BY <1>18, <2>1
    <3> QED BY <1>24, <3>1, StaysApart
  <2>2. CASE kind = "POLICY" /\ c.state # "live"
    <3>1. Claims(d)' = {}
      BY <1>2, <1>14, <2>2, ClaimsAfter
    <3> QED BY <3>1
  <2>3. CASE kind = "POLICY" /\ c.state = "live"
    <3> SUFFICES ASSUME NEW r \in Claims(d)' PROVE r \notin Claims(o)
      OBVIOUS
    <3>1. \A x \in Claims(d)' :
            \E v \in DOMAIN c.versions : c.versions[v].state = "PUBLISHED" /\ x = c.versions[v].rank
      BY <1>2, <1>14, <2>3, ClaimsAfter
    <3>2. PICK v \in DOMAIN vs : vs[v].state = "PUBLISHED" /\ r = vs[v].rank
      BY <3>1, <1>13
    <3>3. CASE v = w
      <4>1. r = configs[d].versions[w].rank
        BY <1>4, <1>6, <1>11, <3>2, <3>3
      <4>2. configs[d].versions[w].rank \notin Claims(o)
        BY <1>2, <1>3, <1>5, <1>24, <2>3 DEF EditOk, EditRanks
      <4> QED BY <4>1, <4>2
    <3>4. CASE v # w
      <4>1. v \in VersionsIn(d, "PUBLISHED") /\ r = configs[d].versions[v].rank
        BY <1>4, <1>6, <1>11, <3>2, <3>4 DEF VersionsIn
      <4>2. Claims(d) = {configs[d].versions[u].rank : u \in VersionsIn(d, "PUBLISHED")}
        BY <1>2, <1>4, <1>13, <2>3, ClaimsOf
      <4>3. r \in Claims(d)
        BY <4>1, <4>2
      <4> QED BY <1>24, <4>3 DEF PubInv, RanksApart
    <3> QED BY <3>3, <3>4
  <2> QED BY <2>1, <2>2, <2>3
<1>25. /\ <<"ranks", NoConfig>> \notin met
       /\ <<"draft", d>> \notin met
       => \A o \in Configs \ {d} : <<"draft", o>> \notin met => Claims(d)' \cap Claims(o) = {}
  BY <1>24
<1>26. d = edit[e].config /\ edit[e].op = "publish"
  BY <1>1, <1>2, <1>3
<1> QED BY <1>14, <1>17, <1>19, <1>20, <1>21, <1>23, <1>25, <1>26, NoEditTyped, NoEditAfter, RowMoves

-----------------------------------------------------------------------------
(* Publication: the checks between the read and the write                  *)

LEMMA UpdateCheckSound ==
  ASSUME PubInv, NEW e \in Editors, UpdateWorkflowCheck(e)
  PROVE  PubInv'
<1>1. PICK q \in Edit : q = edit[e]
  BY DEF PubInv, PublicationTypeOK
<1>2. EditOk(q) /\ q.op = "update" /\ q.pc = "loaded"
  BY <1>1 DEF PubInv, UpdateWorkflowCheck, In
<1>3. PICK n \in Edit : n = [q EXCEPT !.pc = "checked"]
  BY DEF Edit
<1>4. /\ n.op = q.op /\ n.pc = "checked" /\ n.config = q.config /\ n.draft = q.draft
      /\ n.latest = q.latest /\ n.rank = q.rank
  BY <1>3 DEF Edit
<1>5. edit' = [edit EXCEPT ![e] = n] /\ UNCHANGED <<kind, configs, met>>
  BY <1>1, <1>3 DEF UpdateWorkflowCheck
<1>6. EditReads(n)
  BY <1>2, <1>4 DEF EditOk, EditReads
<1>7. EditKnows(n)
  BY <1>2, <1>4 DEF EditOk, EditKnows
<1>8. q.rank # 0 => ~Taken(q.config, q.rank)
  BY <1>1 DEF UpdateWorkflowCheck
<1>9. EditRanks(n)
  BY <1>2, <1>4, <1>8 DEF EditRanks
<1> QED BY <1>1, <1>4, <1>5, <1>6, <1>7, <1>9, EditMoves DEF EditOk

LEMMA PublishCheckSound ==
  ASSUME PubInv, NEW e \in Editors, PublishPolicyCheck(e)
  PROVE  PubInv'
<1>1. PICK q \in Edit : q = edit[e]
  BY DEF PubInv, PublicationTypeOK
<1>2. EditOk(q) /\ q.op = "publish" /\ q.pc = "loaded"
  BY <1>1 DEF PubInv, PublishPolicyCheck, In
<1>3. PICK n \in Edit : n = [q EXCEPT !.pc = "checked", !.rank = 1]
  BY DEF Edit, Ranks
<1>4. n.op = q.op /\ n.pc = "checked" /\ n.config = q.config /\ n.draft = q.draft /\ n.first = q.first
  BY <1>3 DEF Edit
<1>5. edit' = [edit EXCEPT ![e] = n] /\ UNCHANGED <<kind, configs, met>>
  BY <1>1, <1>3 DEF PublishPolicyCheck, PubInv, PublicationTypeOK
<1>6. EditReads(n)
  BY <1>2, <1>4 DEF EditOk, EditReads
<1>7. EditKnows(n)
  BY <1>2, <1>4 DEF EditOk, EditKnows
<1>8. \A d \in Configs \ {q.config} : q.rank \notin Claims(d)
  BY <1>1 DEF PublishPolicyCheck, Taken
<1>9. EditRanks(n)
  BY <1>2, <1>4, <1>8 DEF EditOk, EditRanks
<1> QED BY <1>1, <1>4, <1>5, <1>6, <1>7, <1>9, EditMoves DEF EditOk

LEMMA BeginRetireSound ==
  ASSUME PubInv, NEW e \in Editors, NEW R \in SUBSET Nat, BeginRetire(e, R),
         R = VersionsIn(edit[e].config, "PUBLISHED") \/ (edit[e].first /\ R = {})
  PROVE  PubInv'
<1>1. PICK q \in Edit : q = edit[e]
  BY DEF PubInv, PublicationTypeOK
<1>2. EditOk(q) /\ q.op = "publish" /\ q.pc = "checked"
  BY <1>1 DEF PubInv, BeginRetire, In
<1>3. PICK n \in Edit : n = [q EXCEPT !.pc = "retiring", !.retire = R]
  BY DEF Edit
<1>4. /\ n.op = q.op /\ n.pc = "retiring" /\ n.config = q.config /\ n.draft = q.draft
      /\ n.first = q.first /\ n.rank = q.rank /\ n.retire = R
  BY <1>3 DEF Edit
<1>5. edit' = [edit EXCEPT ![e] = n] /\ UNCHANGED <<kind, configs, met>>
  BY <1>1, <1>3 DEF BeginRetire, PubInv, PublicationTypeOK
<1>6. EditReads(n)
  BY <1>2, <1>4 DEF EditOk, EditReads
<1>7. <<"publications", q.config>> \notin met => VersionsIn(q.config, "PUBLISHED") \subseteq R
  BY <1>1, <1>2 DEF EditOk, EditKnows
<1>8. EditKnows(n)
  BY <1>2, <1>4, <1>7 DEF EditOk, EditKnows
<1>9. EditRanks(n)
  BY <1>2, <1>4 DEF EditOk, EditRanks
<1> QED BY <1>1, <1>4, <1>5, <1>6, <1>8, <1>9, EditMoves DEF EditOk

LEMMA RetireSound ==
  ASSUME PubInv, NEW e \in Editors, RetireWorkflow(e) \/ RetirePolicy(e) \/ RetireSchedule(e)
  PROVE  PubInv'
<1>1. PICK d \in Configs : d = edit[e].config
  <2>1. edit[e].op = "publish"
    BY DEF RetireWorkflow, RetirePolicy, RetireSchedule, BeginRetire, In
  <2> QED BY <2>1 DEF PubInv, EditOk, EditReads
<1>2. VersionsIn(d, "PUBLISHED") \subseteq Nat
  BY ConfigTyped DEF VersionsIn, PubInv
<1>3. PICK R \in SUBSET Nat : R = VersionsIn(d, "PUBLISHED")
  BY <1>2
<1>4. PICK none \in SUBSET Nat : none = {}
  OBVIOUS
<1>5. CASE BeginRetire(e, R)
  BY <1>1, <1>3, <1>5, BeginRetireSound
<1>6. CASE edit[e].first /\ BeginRetire(e, none)
  BY <1>4, <1>6, BeginRetireSound
<1>7. BeginRetire(e, R) \/ (edit[e].first /\ BeginRetire(e, none))
  BY <1>1, <1>3, <1>4 DEF RetireWorkflow, RetirePolicy, RetireSchedule
<1> QED BY <1>5, <1>6, <1>7

LEMMA CloneDraftSound ==
  ASSUME PubInv, NEW e \in Editors, NEW v \in 1..MaxVersions, CloneDraft(e, v)
  PROVE  PubInv'
<1>1. PICK q \in Edit : q = edit[e]
  BY DEF PubInv, PublicationTypeOK
<1>2. EditOk(q) /\ q.op = "clone" /\ q.pc = "loaded" /\ v \in 1..q.latest /\ UNCHANGED <<kind, met>>
  BY <1>1 DEF PubInv, CloneDraft, In
<1>3. q.draft = 0
  BY <1>2 DEF EditOk, EditReads
<1>4. PICK d \in Configs : d = q.config
  BY <1>2 DEF EditOk, EditReads
<1>5. PublicationTypeOK
  BY DEF PubInv
<1>6. AddVersion(q, NewDraft(configs[d].versions[v].sound, 1)) /\ Becomes(e, NoEdit)
  BY <1>1, <1>4 DEF CloneDraft, EndEdit, Becomes
<1>7. v \in DOMAIN configs[d].versions
  <2>1. Len(configs[d].versions) = q.latest
    BY <1>4, <1>6 DEF AddVersion
  <2> QED BY <1>2, <1>5, <2>1, ConfigTyped
<1>8. configs[d].versions[v] \in Version
  BY <1>5, <1>7, ConfigTyped
<1>9. PICK draft \in Version : draft = NewDraft(configs[d].versions[v].sound, 1)
  BY <1>8 DEF Version, NewDraft, Ranks
<1>10. draft.state = "DRAFT" /\ draft.sound = configs[d].versions[v].sound
  BY <1>9 DEF NewDraft
<1>11. kind = "POLICY" => draft.sound
  BY <1>7, <1>10 DEF PubInv, ConfigOk
<1> QED BY <1>1, <1>2, <1>3, <1>6, <1>9, <1>10, <1>11, NoEditTyped, AddVersionSound

-----------------------------------------------------------------------------
(* Publication: the theorems                                               *)

LEMMA DraftsTyped ==
  ASSUME NEW s \in BOOLEAN, NEW r \in Ranks
  PROVE  NewDraft(s, r) \in Version /\ NewDraft(s, r).state = "DRAFT" /\ NewDraft(s, r).sound = s
BY DEF NewDraft, Version

LEMMA WritingSound ==
  ASSUME PubInv, NEW e \in Editors,
         WriteWorkflowDraft(e) \/ WritePolicyDraft(e) \/ WriteScheduleDraft(e)
  PROVE  PubInv'
<1>1. PICK q \in Edit : q = edit[e]
  BY DEF PubInv, PublicationTypeOK
<1>2. EditOk(q) /\ q.op = "update"
  BY <1>1 DEF PubInv, WriteWorkflowDraft, WritePolicyDraft, WriteScheduleDraft, WriteDraft, In
<1>3. q.sound \in BOOLEAN /\ 1 \in Ranks /\ TRUE \in BOOLEAN
  BY DEF Edit, Ranks
<1>4. CASE WriteWorkflowDraft(e)
  <2>1. PICK draft \in Version : draft = NewDraft(q.sound, 1)
    BY <1>3, DraftsTyped
  <2>2. draft.state = "DRAFT"
    BY <2>1 DEF NewDraft
  <2>3. PICK n \in Edit : n = [q EXCEPT !.pc = "written"]
    BY DEF Edit
  <2>4. WriteDraft(e, draft) /\ Becomes(e, n) /\ kind = "WORKFLOW"
    BY <1>1, <1>4, <2>1, <2>3 DEF WriteWorkflowDraft, Becomes, PubInv, PublicationTypeOK
  <2> QED BY <1>1, <2>2, <2>3, <2>4, WriteDraftSound
<1>5. CASE WritePolicyDraft(e)
  <2>1. kind = "POLICY"
    BY <1>5 DEF WritePolicyDraft
  <2>2. q.rank \in Ranks
    BY <1>2, <2>1 DEF EditOk, EditReads, Edit
  <2>3. PICK draft \in Version : draft = NewDraft(TRUE, q.rank)
    BY <1>3, <2>2, DraftsTyped
  <2>4. draft.state = "DRAFT" /\ draft.sound
    BY <2>3 DEF NewDraft
  <2>5. WriteDraft(e, draft) /\ Becomes(e, NoEdit)
    BY <1>1, <1>5, <2>3 DEF WritePolicyDraft, Becomes, EndEdit
  <2> QED BY <1>1, <2>4, <2>5, NoEditTyped, WriteDraftSound
<1>6. CASE WriteScheduleDraft(e)
  <2>1. PICK draft \in Version : draft = NewDraft(q.sound, 1)
    BY <1>3, DraftsTyped
  <2>2. draft.state = "DRAFT"
    BY <2>1 DEF NewDraft
  <2>3. WriteDraft(e, draft) /\ Becomes(e, NoEdit) /\ kind # "POLICY"
    BY <1>1, <1>6, <2>1 DEF WriteScheduleDraft, Becomes, EndEdit
  <2> QED BY <1>1, <2>2, <2>3, NoEditTyped, WriteDraftSound
<1> QED BY <1>4, <1>5, <1>6

LEMMA CreatingSound ==
  ASSUME PubInv, NEW e \in Editors, CreateWorkflow(e) \/ CreatePolicy(e) \/ CreateSchedule(e)
  PROVE  PubInv'
<1>1. PICK q \in Edit : q = edit[e]
  BY DEF PubInv, PublicationTypeOK
<1>2. q.op = "create" /\ EditOk(q)
  BY <1>1 DEF PubInv, CreateWorkflow, CreatePolicy, CreateSchedule, Insert, In
<1>3. PICK r \in Ranks : r = q.rank
  BY <1>2 DEF EditOk, EditReads, Edit
<1>4. q.sound \in BOOLEAN /\ TRUE \in BOOLEAN
  BY DEF Edit
<1>5. PICK one \in Ranks : one = 1
  BY DEF Ranks
<1>6. CASE CreateWorkflow(e)
  <2>1. PICK draft \in Version : draft = NewDraft(q.sound, one)
    BY <1>4, DraftsTyped
  <2>2. draft.state = "DRAFT"
    BY <2>1 DEF NewDraft
  <2>3. Insert(e, r, draft) /\ kind = "WORKFLOW"
    BY <1>1, <1>3, <1>5, <1>6, <2>1 DEF CreateWorkflow
  <2> QED BY <1>1, <1>3, <2>2, <2>3, InsertSound
<1>7. CASE CreatePolicy(e)
  <2>1. PICK draft \in Version : draft = NewDraft(TRUE, r)
    BY <1>4, DraftsTyped
  <2>2. draft.state = "DRAFT" /\ draft.sound
    BY <2>1 DEF NewDraft
  <2>3. Insert(e, one, draft) /\ kind = "POLICY"
    BY <1>1, <1>3, <1>5, <1>7, <2>1 DEF CreatePolicy
  <2> QED BY <2>2, <2>3, InsertSound
<1>8. CASE CreateSchedule(e)
  <2>1. PICK draft \in Version : draft = NewDraft(TRUE, one)
    BY <1>4, DraftsTyped
  <2>2. draft.state = "DRAFT"
    BY <2>1 DEF NewDraft
  <2>3. Insert(e, one, draft) /\ kind = "SCHEDULE"
    BY <1>1, <1>5, <1>8, <2>1 DEF CreateSchedule
  <2> QED BY <2>2, <2>3, InsertSound
<1> QED BY <1>6, <1>7, <1>8

LEMMA PublicationStarts == PublicationInit => PubInv
<1> SUFFICES ASSUME PublicationInit PROVE PubInv
  OBVIOUS
<1>1. PICK empty \in Seq(Version) : empty = <<>>
  BY EmptySeq
<1>2. PICK c \in Config : c = [state |-> "none", active |-> 0, rank |-> 1, versions |-> empty]
  BY DEF Config, Ranks
<1>3. c.state = "none" /\ c.active = 0 /\ c.versions = empty /\ DOMAIN c.versions = {}
  BY <1>1, <1>2
<1>4. \A d \in Configs : configs[d] = c
  BY <1>1, <1>2 DEF PublicationInit
<1>5. \A e \in Editors : edit[e] = NoEdit
  BY DEF PublicationInit
<1>6. PublicationTypeOK
  BY <1>1, <1>2, NoEditTyped DEF PublicationInit, PublicationTypeOK
<1>7. \A d \in Configs : Claims(d) = {} /\ \A st : VersionsIn(d, st) = {}
  BY <1>3, <1>4 DEF Claims, VersionsIn
<1>8. \A d \in Configs : ConfigOk(d)
  BY <1>1, <1>3, <1>4, <1>7 DEF ConfigOk
<1>9. OnlyActiveIsPublished /\ PublishedWasValidated /\ RanksApart
  BY <1>7 DEF OnlyActiveIsPublished, PublishedWasValidated, RanksApart
<1>10. EditsApart
  BY <1>5, NoEditTyped DEF EditsApart, ApartFrom, Ranking
<1>11. \A e \in Editors : EditOk(edit[e])
  BY <1>5, NoEditSound
<1> QED BY <1>6, <1>8, <1>9, <1>10, <1>11 DEF PubInv

LEMMA PublicationStep == PubInv /\ [PublicationNext]_publicationVars => PubInv'
<1> SUFFICES ASSUME PubInv, [PublicationNext]_publicationVars PROVE PubInv'
  OBVIOUS
<1>1. CASE PublicationNext
  BY <1>1, RequestSound, GiveUpSound, CreatingSound, UpdateCheckSound, WritingSound, UpdateConfigSound,
     PublishCheckSound, RetireSound, PublishVersionSound, CloneDraftSound, DeleteConfigSound
     DEF PublicationNext
<1>2. CASE UNCHANGED publicationVars
  <2>1. UNCHANGED <<kind, configs, edit, met>>
    BY <1>2 DEF publicationVars
  <2>2. \A d : (\A st : VersionsIn(d, st)' = VersionsIn(d, st)) /\ Claims(d)' = Claims(d)
    BY <2>1 DEF VersionsIn, Claims
  <2>3. \A d \in Configs : ConfigOk(d)'
    BY <2>1, <2>2 DEF PubInv, ConfigOk
  <2>4. OnlyActiveIsPublished' /\ PublishedWasValidated' /\ RanksApart'
    BY <2>1, <2>2 DEF PubInv, OnlyActiveIsPublished, PublishedWasValidated, RanksApart
  <2>5. PublicationTypeOK'
    BY <2>1 DEF PubInv, PublicationTypeOK
  <2>6. EditsApart'
    BY <2>1 DEF PubInv, EditsApart, ApartFrom, Ranking
  <2>7. ASSUME NEW e \in Editors PROVE EditOk(edit[e])'
    <3>1. PICK p \in Edit : p = edit[e]
      BY DEF PubInv, PublicationTypeOK
    <3>2. EditOk(p)
      BY <3>1 DEF PubInv
    <3>3. EditOk(p)'
      BY <2>1, <3>2, EditRests
    <3> QED BY <2>1, <3>1, <3>3
  <2> QED BY <2>3, <2>4, <2>5, <2>6, <2>7 DEF PubInv
<1> QED BY <1>1, <1>2

LEMMA PublicationTells == PubInv => PublicationSound
<1> SUFFICES ASSUME PubInv PROVE PublicationSound
  OBVIOUS
<1>1. ActiveIsPublished
  BY DEF PubInv, ConfigOk, VersionsIn, ActiveIsPublished
<1>2. RanksAreUnique
  <2> SUFFICES ASSUME NEW d1 \in Configs, NEW d2 \in Configs, d1 # d2,
                      met \cap ({"ranks", "draft"} \X {d1, d2, NoConfig}) = {}
               PROVE  Claims(d1) \cap Claims(d2) = {}
    BY DEF RanksAreUnique
  <2>1. <<"ranks", NoConfig>> \notin met /\ <<"draft", d1>> \notin met /\ <<"draft", d2>> \notin met
    OBVIOUS
  <2> QED BY <2>1 DEF PubInv, RanksApart
<1> QED BY <1>1, <1>2 DEF PubInv, PublicationSound

\* What a request has read of a configuration it may rely on until it writes, unless it has
\* met a request that history names (updateDraft, publish, cloneDraft and softDelete of
\* workflows.service.ts, and their like for policies and schedules).
THEOREM PublicationInvariant == PublicationSpec => []PubInv
BY PublicationStarts, PublicationStep, PTL DEF PublicationSpec

\* Each configuration has one published version in force, which was validated, and no two
\* claim one priority, unless requests have met; the active version is a published one
\* whatever they met.
THEOREM PublicationsAreSound == PublicationSpec => []PublicationSound
BY PublicationTells, PublicationInvariant, PTL

-----------------------------------------------------------------------------
(* The components side by side                                             *)

AllInv == RequestInv /\ AccountInv /\ RateInv /\ PubInv

\* One component steps and the others rest: what holds of each alone holds of all.
LEMMA AllKeep ==
  AllInv /\ [MCNext]_<<part, requestVars, accountVars, rateVars, publicationVars>> => AllInv'
<1> SUFFICES ASSUME AllInv, [MCNext]_<<part, requestVars, accountVars, rateVars, publicationVars>>
             PROVE  AllInv'
  OBVIOUS
<1>1. /\ [RequestNext]_requestVars /\ [AccountNext]_accountVars
      /\ [RateNext]_rateVars /\ [PublicationNext]_publicationVars
  BY DEF MCNext, RequestsRest, AccountsRest, LimitsRest, PublicationRests
<1>2. RequestInv' /\ AccountInv'
  BY <1>1, RequestStep, RequestStutter, AccountStep, AccountStutter DEF AllInv
<1> QED BY <1>1, <1>2, RateStep, PublicationStep DEF AllInv

\* What is said of requests, accounts, rate limits and publications holds for all values of
\* the constants, as the run has it on a small instance.
THEOREM ProcessesAreSound == MCSpec => []ProcessesSound
<1>1. MCInit => AllInv
  BY RequestStarts, AccountStarts, RateStarts, PublicationStarts DEF MCInit, AllInv
<1>2. AllInv => ProcessesSound
  <2>1. RateInv => RateTypeOK /\ RateLimitsSound
    BY DEF RateInv, RateLimitsSound, HoldsBucket, RetryIsNotInVain
  <2>2. RequestInv => RequestTypeOK
    BY DEF RequestInv
  <2>3. AccountInv => AccountTypeOK
    BY DEF AccountInv
  <2>4. PubInv => PublicationTypeOK /\ PublicationSound
    BY PublicationTells DEF PubInv
  <2> QED BY <2>1, <2>2, <2>3, <2>4 DEF AllInv, ProcessesSound
<1> QED BY <1>1, <1>2, AllKeep, PTL DEF MCSpec

=============================================================================
