----------------------------- MODULE Desk_proofs -----------------------------
(***************************************************************************)
(* The desk, for any number of rows, people and requests in progress.      *)
(*                                                                         *)
(* Tickets: every write of a row moves its version by one                  *)
(* (VersionTellsContent); so a row that still has the version a person saw *)
(* is the row the person saw (Informed), and the guarded write of a person *)
(* can only land on it (NoLostUpdate).  Every change of content has an     *)
(* event, and what a consumer has applied is the latest it was told        *)
(* (EventInv).  When no workflow writes tickets, timestamps tell the       *)
(* status and closed tickets stay closed.  And because what a command was  *)
(* computed from is the row it lands on, it is one step of TicketPromise,  *)
(* taken when it commits (AtomicInv).                                      *)
(*                                                                         *)
(* Around them: the types, locations and categories, where foreign keys    *)
(* keep what they keep whoever overlaps, and a check whatever the call was *)
(* alone with (TaxInv); workflow definitions and the people they name      *)
(* (RuleInv); services and their forms (FormInv); comments and the notices *)
(* of them (RemarkInv).  Last, these side by side, as MCDesk runs them.    *)
(***************************************************************************)
EXTENDS MCDesk, FiniteSetTheorems, SequenceTheorems, TLAPS

-----------------------------------------------------------------------------
(* The invariant                                                           *)

\* The timestamps of a row tell its status.
Stamped(r) ==
  /\ r.solved <=> r.status \in {"SOLVED", "CLOSED"}
  /\ r.closed <=> r.status = "CLOSED"

\* What updates and transitions are built from the row r.
Follows(r, new) ==
  /\ new.present = r.present
  /\ new.ref = r.ref
  /\ new = r \/ new.version = r.version + 1
  /\ AllowedTransition(r.status, new.status)
  /\ Stamped(r) => Stamped(new)

\* A request that has looked at a ticket looked at a present one, whose version
\* has not gone back since; with the same version it is the same row.
Informed(c) ==
  session[c].pc \in {"viewed", "loaded", "writing"} =>
    LET s == session[c] IN
      /\ tickets[s.ticket].present
      /\ s.saw.version <= tickets[s.ticket].version
      /\ s.saw.version = tickets[s.ticket].version => tickets[s.ticket] = s.saw

\* The aggregate a request is about to write follows from the row it saw.
Prepared(c) ==
  session[c].pc \in {"loaded", "writing"} => Follows(session[c].saw, session[c].new)

JobInformed(j) == job[j].pc = "read" => tickets[job[j].ticket].present

AbsentIsBlank == \A t \in Tickets : ~tickets[t].present => tickets[t] = NoRow

LInv ==
  /\ TypeOK
  /\ AbsentIsBlank
  /\ \A c \in Clients : Informed(c) /\ Prepared(c)
  /\ \A j \in Jobs : JobInformed(j)

\* What one step does to the rows.
RowsFollow ==
  \A t \in Tickets :
    /\ tickets[t].present => tickets'[t].present
    /\ tickets'[t] = tickets[t] \/ tickets'[t].version = tickets[t].version + 1

-----------------------------------------------------------------------------
(* Helpers                                                                 *)

LEMMA NoRowTyped == NoRow \in Row
BY DEF NoRow, Row, TicketStatus

LEMMA IdleTyped == ASSUME NEW t \in Tickets PROVE IdleSession(t) \in Session
BY NoRowTyped DEF IdleSession, Session

LEMMA SomeTicketTyped == SomeTicket \in Tickets
BY LifecycleConstants DEF SomeTicket

LEMMA TransitionTyped ==
  ASSUME NEW r \in Row, NEW st \in TicketStatus, NEW sv \in BOOLEAN, NEW cl \in BOOLEAN,
         NEW n \in Nat
  PROVE  [r EXCEPT !.status = st, !.solved = sv, !.closed = cl, !.version = n] \in Row
BY DEF Row

LEMMA AssigneeTyped ==
  ASSUME NEW r \in Row, NEW a \in Users \cup {NoUser}, NEW n \in Nat
  PROVE  [r EXCEPT !.assignee = a, !.version = n] \in Row
BY DEF Row

LEMMA CreatedTyped ==
  ASSUME NEW r \in Row, NEW n \in Nat
  PROVE  [r EXCEPT !.present = TRUE, !.ref = n, !.version = 1] \in Row
BY DEF Row

\* The lifecycle of people enters "CLOSED" from "SOLVED" only, and leaves
\* "SOLVED" for "OPEN" or "CLOSED" only.
LEMMA StampsFollow ==
  ASSUME NEW from \in TicketStatus, NEW to \in TicketStatus, AllowedTransition(from, to), from # to
  PROVE  /\ from # "CLOSED"
         /\ to = "CLOSED" => from = "SOLVED"
         /\ from = "SOLVED" => to \in {"OPEN", "CLOSED"}
BY DEF TicketStatus, AllowedTransition, VALID_TRANSITIONS

\* A command of a person makes a row of a row, and follows from it.
LEMMA OutcomeTyped ==
  ASSUME NEW r \in Row, NEW new \in Outcomes(r)
  PROVE  new \in Row /\ Follows(r, new)
<1>1. ASSUME NEW to \in TicketStatus, AllowedTransition(r.status, to), new = TransitionTo(r, to)
      PROVE  new \in Row /\ Follows(r, new)
  <2>1. CASE r.status = to
    BY <1>1, <2>1 DEF TransitionTo, Follows
  <2>2. CASE r.status # to
    <3> DEFINE sv == IF to = "SOLVED" THEN TRUE ELSE IF to = "OPEN" THEN FALSE ELSE r.solved
               cl == r.closed \/ to = "CLOSED"
               n == r.version + 1
    <3>1. sv \in BOOLEAN /\ cl \in BOOLEAN /\ n \in Nat
      <4>1. r.solved \in BOOLEAN /\ r.closed \in BOOLEAN /\ r.version \in Nat
        BY DEF Row
      <4>2. sv \in BOOLEAN
        BY <4>1
      <4>3. cl \in BOOLEAN
        BY <4>1
      <4>4. n \in Nat
        BY <4>1
      <4> HIDE DEF sv, cl, n
      <4> QED BY <4>2, <4>3, <4>4
    <3>2. new = [r EXCEPT !.status = to, !.solved = sv, !.closed = cl, !.version = n]
      BY <1>1, <2>2 DEF TransitionTo
    <3> HIDE DEF sv, cl, n
    <3>3. new \in Row
      BY <3>1, <3>2, TransitionTyped
    <3>4. /\ new.present = r.present /\ new.ref = r.ref /\ new.version = n
          /\ new.status = to /\ new.solved = sv /\ new.closed = cl
      BY <3>2 DEF Row
    <3>5. Stamped(r) => Stamped(new)
      <4>1. /\ r.status # "CLOSED"
            /\ to = "CLOSED" => r.status = "SOLVED"
            /\ r.status = "SOLVED" => to \in {"OPEN", "CLOSED"}
        BY <1>1, <2>2, StampsFollow DEF Row
      <4> QED BY <3>4, <4>1 DEF sv, cl, Stamped
    <3> QED BY <1>1, <3>3, <3>4, <3>5 DEF Follows, n
  <2> QED BY <2>1, <2>2
<1>2. ASSUME NEW a \in Users \cup {NoUser}, new = [r EXCEPT !.assignee = a, !.version = @ + 1]
      PROVE  new \in Row /\ Follows(r, new)
  <2> DEFINE n == r.version + 1
  <2>1. n \in Nat /\ new = [r EXCEPT !.assignee = a, !.version = n]
    BY <1>2 DEF Row
  <2> HIDE DEF n
  <2>2. new \in Row
    BY <2>1, AssigneeTyped
  <2>3. /\ new.present = r.present /\ new.ref = r.ref /\ new.version = n
        /\ new.status = r.status /\ new.solved = r.solved /\ new.closed = r.closed
    BY <2>1 DEF Row
  <2> QED BY <2>2, <2>3 DEF Follows, AllowedTransition, Stamped, n
<1>3. \/ \E to \in {s \in TicketStatus : AllowedTransition(r.status, s)} : new = TransitionTo(r, to)
      \/ \E a \in Users \cup {NoUser} : new = UpdateFields(r, a)
      \/ \E a \in Users \cup {NoUser} : new = Assign(r, a)
  BY DEF Outcomes
<1> QED BY <1>1, <1>2, <1>3 DEF UpdateFields, Assign

\* KeysOf and EventsOf stay within the event contract.
LEMMA KeysTyped ==
  ASSUME NEW types \in SUBSET {"ticket.created", "ticket.status_changed", "ticket.assigned"},
         NEW t \in Tickets, NEW corr
  PROVE  KeysOf(types, t, corr) \subseteq EventKeys
BY DEF KeysOf, EventKeys

LEMMA AnnounceTyped ==
  ASSUME TypeOK, NEW t \in Tickets, NEW types, NEW r \in Row, Announce(t, types, r)
  PROVE  heard' \in [Tickets -> Heard]
BY DEF TypeOK, Announce, Heard, Row

\* A request that a step leaves alone is still informed, whoever wrote.
LEMMA OthersInformed ==
  ASSUME TypeOK, RowsFollow, NEW c \in Clients, session'[c] = session[c],
         Informed(c), Prepared(c)
  PROVE  Informed(c)' /\ Prepared(c)'
<1>1. Prepared(c)'
  BY DEF Prepared
<1>2. Informed(c)'
  <2> SUFFICES ASSUME session[c].pc \in {"viewed", "loaded", "writing"}
               PROVE  /\ tickets'[session[c].ticket].present
                      /\ session[c].saw.version <= tickets'[session[c].ticket].version
                      /\ session[c].saw.version = tickets'[session[c].ticket].version
                           => tickets'[session[c].ticket] = session[c].saw
    BY DEF Informed
  <2> DEFINE t == session[c].ticket
             v == session[c].saw.version
  <2>1. t \in Tickets /\ v \in Nat /\ tickets[t].version \in Nat
    BY DEF TypeOK, Session, Row
  <2>2. tickets[t].present /\ v <= tickets[t].version /\ (v = tickets[t].version => tickets[t] = session[c].saw)
    BY DEF Informed
  <2>3. tickets'[t].present /\ (tickets'[t] = tickets[t] \/ tickets'[t].version = tickets[t].version + 1)
    BY <2>1, <2>2 DEF RowsFollow
  <2> HIDE DEF t, v
  <2>4. v <= tickets'[t].version /\ (v = tickets'[t].version => tickets'[t] = session[c].saw)
    BY <2>1, <2>2, <2>3
  <2> QED BY <2>3, <2>4 DEF t, v
<1> QED BY <1>1, <1>2

LEMMA JobsInformed ==
  ASSUME TypeOK, RowsFollow, NEW j \in Jobs, job'[j] = job[j], JobInformed(j)
  PROVE  JobInformed(j)'
BY DEF TypeOK, Job, RowsFollow, JobInformed

LEMMA InitInformed == Init => LInv
<1> SUFFICES ASSUME Init PROVE LInv
  OBVIOUS
<1>1. SomeTicket \in Tickets
  BY SomeTicketTyped
<1>2. IdleSession(SomeTicket) \in Session /\ IdleSession(SomeTicket).pc = "idle"
  BY <1>1, IdleTyped DEF IdleSession
<1>3. TypeOK
  BY <1>1, <1>2, NoRowTyped DEF Init, TypeOK, Heard, Job, TicketStatus
<1>4. AbsentIsBlank
  BY DEF Init, AbsentIsBlank
<1>5. \A c \in Clients : Informed(c) /\ Prepared(c)
  BY <1>2 DEF Init, Informed, Prepared
<1>6. \A j \in Jobs : JobInformed(j)
  BY DEF Init, JobInformed
<1> QED BY <1>3, <1>4, <1>5, <1>6 DEF LInv

-----------------------------------------------------------------------------
(* Every step preserves the invariant                                      *)

\* The parts of LInv a step of one request has to show.
LEMMA ClientStep ==
  ASSUME LInv, NEW c \in Clients, RowsFollow, TypeOK', AbsentIsBlank', job' = job,
         Informed(c)', Prepared(c)',
         \A d \in Clients \ {c} : session'[d] = session[d]
  PROVE  LInv'
<1>1. \A d \in Clients : Informed(d)' /\ Prepared(d)'
  <2> SUFFICES ASSUME NEW d \in Clients, d # c PROVE Informed(d)' /\ Prepared(d)'
    OBVIOUS
  <2> QED BY OthersInformed DEF LInv
<1>2. \A j \in Jobs : JobInformed(j)'
  BY JobsInformed DEF LInv
<1> QED BY <1>1, <1>2 DEF LInv

\* The same for a step of one workflow action.
LEMMA JobStepKeeps ==
  ASSUME LInv, NEW j \in Jobs, RowsFollow, TypeOK', AbsentIsBlank', session' = session,
         JobInformed(j)', \A i \in Jobs \ {j} : job'[i] = job[i]
  PROVE  LInv'
<1>1. \A d \in Clients : Informed(d)' /\ Prepared(d)'
  BY OthersInformed DEF LInv
<1>2. \A i \in Jobs : JobInformed(i)'
  <2> SUFFICES ASSUME NEW i \in Jobs, i # j PROVE JobInformed(i)'
    OBVIOUS
  <2> QED BY JobsInformed DEF LInv
<1> QED BY <1>1, <1>2 DEF LInv

LEMMA SameRows == ASSUME LInv, UNCHANGED tickets PROVE RowsFollow /\ AbsentIsBlank'
BY DEF LInv, RowsFollow, AbsentIsBlank

\* A request that becomes idle, or starts over, has nothing to remember.
LEMMA IdleKeeps ==
  ASSUME LInv, NEW c \in Clients, NEW t \in Tickets, session' = [session EXCEPT ![c] = IdleSession(t)],
         RowsFollow, tickets' \in [Tickets -> Row], keys' \subseteq EventKeys,
         heard' \in [Tickets -> Heard], misled' \subseteq {"person", "workflow"},
         AbsentIsBlank', job' = job
  PROVE  LInv'
<1>1. IdleSession(t) \in Session /\ IdleSession(t).pc = "idle"
  BY IdleTyped DEF IdleSession
<1>2. TypeOK'
  BY <1>1 DEF LInv, TypeOK
<1>3. session'[c].pc = "idle" /\ \A d \in Clients \ {c} : session'[d] = session[d]
  BY <1>1 DEF LInv, TypeOK
<1>4. Informed(c)' /\ Prepared(c)'
  BY <1>3 DEF Informed, Prepared
<1> QED BY <1>2, <1>3, <1>4, ClientStep

LEMMA PresentCount == ASSUME IsFiniteSet(Tickets) PROVE Cardinality(Present) \in Nat
<1>1. IsFiniteSet(Present)
  BY FS_Subset DEF Present
<1> QED BY <1>1, FS_CardinalityType

LEMMA BeginCreateKeeps ==
  ASSUME LInv, NEW c \in Clients, NEW t \in Tickets,
         NEW corr \in Correlations \cup {FreshCorrelation}, BeginCreate(c, t, corr)
  PROVE  LInv' /\ RowsFollow
<1> DEFINE s == [IdleSession(t) EXCEPT !.pc = "creating", !.corr = corr,
                                       !.count = Cardinality(Present)]
<1>1. RowsFollow /\ AbsentIsBlank'
  BY SameRows DEF BeginCreate
<1>2. Cardinality(Present) \in Nat
  BY PresentCount, FiniteTickets
<1>3. s \in Session /\ s.pc = "creating"
  BY <1>2, NoRowTyped DEF IdleSession, Session
<1>4. session' = [session EXCEPT ![c] = s]
  BY DEF BeginCreate
<1> HIDE DEF s
<1>5. TypeOK'
  BY <1>3, <1>4 DEF LInv, TypeOK, BeginCreate
<1>6. session'[c].pc = "creating" /\ \A d \in Clients \ {c} : session'[d] = session[d]
  BY <1>3, <1>4 DEF LInv, TypeOK
<1>7. Informed(c)' /\ Prepared(c)'
  BY <1>6 DEF Informed, Prepared
<1> QED BY <1>1, <1>5, <1>6, <1>7, ClientStep DEF BeginCreate

LEMMA CommitCreateKeeps ==
  ASSUME LInv, NEW c \in Clients, CommitCreate(c)
  PROVE  LInv' /\ RowsFollow
<1> DEFINE t == session[c].ticket
           r == [NoRow EXCEPT !.present = TRUE, !.ref = session[c].count + 1, !.version = 1]
<1>1. t \in Tickets /\ session[c].count \in Nat
  BY DEF LInv, TypeOK, Session
<1>2. PICK a \in Users \cup {NoUser} :
        /\ tickets' = [tickets EXCEPT ![t] = [r EXCEPT !.assignee = a]]
        /\ Announce(t, {"ticket.created"}, [r EXCEPT !.assignee = a])
  BY DEF CommitCreate
<1> DEFINE q == [r EXCEPT !.assignee = a]
<1>3. q \in Row /\ q.present = TRUE /\ q.version = 1
  <2>1. r \in Row /\ r.present = TRUE /\ r.version = 1
    <3> DEFINE n == session[c].count + 1
    <3>1. n \in Nat
      BY <1>1
    <3>2. r = [NoRow EXCEPT !.present = TRUE, !.ref = n, !.version = 1]
      OBVIOUS
    <3> HIDE DEF n, r
    <3>3. r \in Row
      BY <3>1, <3>2, NoRowTyped, CreatedTyped
    <3>4. r.present = TRUE /\ r.version = 1
      BY <3>2, NoRowTyped DEF Row
    <3> QED BY <3>3, <3>4
  <2> HIDE DEF r
  <2> QED BY <2>1 DEF Row
<1>4. tickets[t] = NoRow
  BY <1>1 DEF CommitCreate, LInv, AbsentIsBlank
<1>5. tickets[t].version = 0
  BY <1>4 DEF NoRow
<1>6. tickets' = [tickets EXCEPT ![t] = q] /\ Announce(t, {"ticket.created"}, q)
  BY <1>2
<1>7. ~tickets[t].present
  BY DEF CommitCreate
<1>8. keys' = keys \cup KeysOf({"ticket.created"}, t, session[c].corr)
      /\ session' = [session EXCEPT ![c] = IdleSession(SomeTicket)] /\ UNCHANGED <<misled, job>>
  BY DEF CommitCreate
<1> HIDE DEF t, r, q
<1>9. tickets' \in [Tickets -> Row] /\ heard' \in [Tickets -> Heard]
  BY <1>1, <1>3, <1>6, AnnounceTyped DEF LInv, TypeOK
<1>10. RowsFollow /\ AbsentIsBlank'
  <2>1. ASSUME NEW u \in Tickets
        PROVE  /\ tickets[u].present => tickets'[u].present
               /\ tickets'[u] = tickets[u] \/ tickets'[u].version = tickets[u].version + 1
               /\ ~tickets'[u].present => tickets'[u] = NoRow
    <3>1. CASE u = t
      <4>1. tickets'[u] = q
        BY <1>6, <3>1 DEF LInv, TypeOK
      <4> QED BY <1>3, <1>5, <3>1, <4>1
    <3>2. CASE u # t
      BY <1>6, <3>2 DEF LInv, TypeOK, AbsentIsBlank
    <3> QED BY <3>1, <3>2
  <2> QED BY <2>1 DEF RowsFollow, AbsentIsBlank
<1>11. keys' \subseteq EventKeys /\ misled' \subseteq {"person", "workflow"}
  BY <1>1, <1>8, KeysTyped DEF LInv, TypeOK
<1> QED BY <1>8, <1>9, <1>10, <1>11, SomeTicketTyped, IdleKeeps

LEMMA ViewKeeps ==
  ASSUME LInv, NEW c \in Clients, NEW t \in Tickets, View(c, t)
  PROVE  LInv' /\ RowsFollow
<1> DEFINE s == [IdleSession(t) EXCEPT !.pc = "viewed", !.saw = tickets[t]]
<1>1. RowsFollow /\ AbsentIsBlank'
  BY SameRows DEF View
<1>2. tickets[t] \in Row /\ tickets[t].present
  BY DEF LInv, TypeOK, View
<1>3. s \in Session /\ s.pc = "viewed" /\ s.ticket = t /\ s.saw = tickets[t]
  BY <1>2, NoRowTyped DEF IdleSession, Session
<1>4. session' = [session EXCEPT ![c] = s]
  BY DEF View
<1> HIDE DEF s
<1>5. TypeOK'
  BY <1>3, <1>4 DEF LInv, TypeOK, View
<1>6. session'[c] = s /\ \A d \in Clients \ {c} : session'[d] = session[d]
  BY <1>4 DEF LInv, TypeOK
<1>7. tickets[t].version \in Nat
  BY <1>2 DEF Row
<1>8. Informed(c)' /\ Prepared(c)'
  <2>1. tickets' = tickets
    BY DEF View
  <2> QED BY <1>2, <1>3, <1>6, <1>7, <2>1 DEF Informed, Prepared
<1> QED BY <1>1, <1>5, <1>6, <1>8, ClientStep DEF View

LEMMA LoadKeeps ==
  ASSUME LInv, NEW c \in Clients, NEW corr \in Correlations \cup {FreshCorrelation},
         Load(c, corr)
  PROVE  LInv' /\ RowsFollow
<1> DEFINE t == session[c].ticket
<1>1. RowsFollow /\ AbsentIsBlank'
  BY SameRows DEF Load
<1>2. session[c] \in Session /\ t \in Tickets /\ tickets[t] \in Row
  BY DEF LInv, TypeOK, Session
<1>3. PICK r \in Outcomes(tickets[t]) :
        session' = [session EXCEPT ![c] = [session[c] EXCEPT !.pc = "loaded", !.new = r, !.corr = corr]]
  BY DEF Load
<1> DEFINE s == [session[c] EXCEPT !.pc = "loaded", !.new = r, !.corr = corr]
<1>4. r \in Row /\ Follows(tickets[t], r)
  BY <1>2, OutcomeTyped
<1>5. s \in Session /\ s.pc = "loaded" /\ s.ticket = t /\ s.saw = session[c].saw /\ s.new = r
  BY <1>2, <1>4 DEF Session
<1>6. tickets[t].present /\ tickets[t] = session[c].saw
  BY DEF Load, VersionMatches, LInv, Informed
<1>7. session' = [session EXCEPT ![c] = s]
  BY <1>3
<1> HIDE DEF s, t
<1>8. TypeOK'
  BY <1>5, <1>7 DEF LInv, TypeOK, Load
<1>9. session'[c] = s /\ \A d \in Clients \ {c} : session'[d] = session[d]
  BY <1>7 DEF LInv, TypeOK
<1>10. tickets[t].version \in Nat /\ tickets' = tickets
  BY <1>2 DEF Row, Load
<1>11. Informed(c)' /\ Prepared(c)'
  BY <1>4, <1>5, <1>6, <1>9, <1>10 DEF Informed, Prepared
<1> QED BY <1>1, <1>8, <1>9, <1>11, ClientStep DEF Load

LEMMA ReadPreviousKeeps ==
  ASSUME LInv, NEW c \in Clients, ReadPrevious(c)
  PROVE  LInv' /\ RowsFollow
<1> DEFINE t == session[c].ticket
           s == [session[c] EXCEPT !.pc = "writing", !.prev = tickets[t]]
<1>1. RowsFollow /\ AbsentIsBlank'
  BY SameRows DEF ReadPrevious
<1>2. session[c] \in Session /\ t \in Tickets /\ tickets[t] \in Row
  BY DEF LInv, TypeOK, Session
<1>3. /\ s \in Session /\ s.pc = "writing" /\ s.ticket = t
      /\ s.saw = session[c].saw /\ s.new = session[c].new
  BY <1>2 DEF Session
<1>4. session' = [session EXCEPT ![c] = s]
  BY DEF ReadPrevious
<1>5. /\ tickets[t].present /\ session[c].saw.version <= tickets[t].version
      /\ session[c].saw.version = tickets[t].version => tickets[t] = session[c].saw
      /\ Follows(session[c].saw, session[c].new)
  BY DEF ReadPrevious, LInv, Informed, Prepared
<1> HIDE DEF s, t
<1>6. TypeOK'
  BY <1>3, <1>4 DEF LInv, TypeOK, ReadPrevious
<1>7. /\ session'[c] = s /\ \A d \in Clients \ {c} : session'[d] = session[d]
      /\ tickets' = tickets
  BY <1>4 DEF LInv, TypeOK, ReadPrevious
<1>8. Informed(c)' /\ Prepared(c)'
  BY <1>3, <1>5, <1>7 DEF Informed, Prepared
<1> QED BY <1>1, <1>6, <1>7, <1>8, ClientStep DEF ReadPrevious

\* The heart of optimistic concurrency: a person's write lands on the row the
\* person saw, and what is written follows from it.
LEMMA CommitUpdateLands ==
  ASSUME LInv, NEW c \in Clients, CommitUpdate(c)
  PROVE  LET t == session[c].ticket IN
           /\ t \in Tickets /\ tickets[t].present
           /\ tickets[t] = session[c].saw
           /\ Follows(tickets[t], session[c].new)
<1>1. session[c].ticket \in Tickets
  BY DEF LInv, TypeOK, Session
<1> QED BY <1>1 DEF CommitUpdate, WriteGuard, LInv, Informed, Prepared

LEMMA CommitUpdateKeeps ==
  ASSUME LInv, NEW c \in Clients, CommitUpdate(c)
  PROVE  LInv' /\ RowsFollow
<1> DEFINE t == session[c].ticket
           new == session[c].new
           types == EventsOf(session[c].prev, new)
<1>1. /\ t \in Tickets /\ tickets[t].present /\ Follows(tickets[t], new) /\ new \in Row
  BY CommitUpdateLands DEF LInv, TypeOK, Session
<1>2. types \in SUBSET {"ticket.created", "ticket.status_changed", "ticket.assigned"}
  BY DEF EventsOf
<1>3. /\ tickets' = [tickets EXCEPT ![t] = new]
      /\ keys' = keys \cup KeysOf(types, t, session[c].corr)
      /\ Announce(t, types, new)
      /\ misled' \subseteq misled \cup {"person"}
      /\ session' = [session EXCEPT ![c] = IdleSession(SomeTicket)]
      /\ job' = job
  BY DEF CommitUpdate
<1> HIDE DEF t, new, types
<1>4. tickets' \in [Tickets -> Row] /\ heard' \in [Tickets -> Heard]
  BY <1>1, <1>3, AnnounceTyped DEF LInv, TypeOK
<1>5. keys' \subseteq EventKeys /\ misled' \subseteq {"person", "workflow"}
  BY <1>1, <1>2, <1>3, KeysTyped DEF LInv, TypeOK
<1>6. RowsFollow /\ AbsentIsBlank'
  <2>1. ASSUME NEW u \in Tickets
        PROVE  /\ tickets[u].present => tickets'[u].present
               /\ tickets'[u] = tickets[u] \/ tickets'[u].version = tickets[u].version + 1
               /\ ~tickets'[u].present => tickets'[u] = NoRow
    <3>1. CASE u = t
      <4>1. tickets'[u] = new
        BY <1>3, <3>1 DEF LInv, TypeOK
      <4> QED BY <1>1, <3>1, <4>1 DEF Follows
    <3>2. CASE u # t
      BY <1>3, <3>2 DEF LInv, TypeOK, AbsentIsBlank
    <3> QED BY <3>1, <3>2
  <2> QED BY <2>1 DEF RowsFollow, AbsentIsBlank
<1> QED BY <1>3, <1>4, <1>5, <1>6, SomeTicketTyped, IdleKeeps

LEMMA AbandonKeeps ==
  ASSUME LInv, NEW c \in Clients, Abandon(c)
  PROVE  LInv' /\ RowsFollow
<1>1. RowsFollow /\ AbsentIsBlank'
  BY SameRows DEF Abandon
<1>2. /\ tickets' \in [Tickets -> Row] /\ keys' \subseteq EventKeys
      /\ heard' \in [Tickets -> Heard] /\ misled' \subseteq {"person", "workflow"}
  BY DEF Abandon, LInv, TypeOK
<1> QED BY <1>1, <1>2, SomeTicketTyped, IdleKeeps DEF Abandon

\* A workflow action that writes a ticket: one version on, and then idle.
LEMMA JobWriteKeeps ==
  ASSUME LInv, NEW j \in Jobs, NEW t \in Tickets, NEW r \in Row,
         tickets[t].present, r.present = tickets[t].present, r.version = tickets[t].version + 1,
         tickets' = [tickets EXCEPT ![t] = r],
         heard' \in [Tickets -> Heard], misled' \subseteq {"person", "workflow"},
         JobDone(j), UNCHANGED <<keys, session>>
  PROVE  LInv' /\ RowsFollow
<1>1. RowsFollow /\ AbsentIsBlank'
  <2>1. ASSUME NEW u \in Tickets
        PROVE  /\ tickets[u].present => tickets'[u].present
               /\ tickets'[u] = tickets[u] \/ tickets'[u].version = tickets[u].version + 1
               /\ ~tickets'[u].present => tickets'[u] = NoRow
    <3>1. CASE u = t
      BY <3>1 DEF LInv, TypeOK
    <3>2. CASE u # t
      BY <3>2 DEF LInv, TypeOK, AbsentIsBlank
    <3> QED BY <3>1, <3>2
  <2> QED BY <2>1 DEF RowsFollow, AbsentIsBlank
<1>2. TypeOK'
  BY NoRowTyped, SomeTicketTyped DEF LInv, TypeOK, JobDone, Job
<1>3. JobInformed(j)' /\ \A i \in Jobs \ {j} : job'[i] = job[i]
  BY DEF JobInformed, LInv, TypeOK, JobDone
<1> QED BY <1>1, <1>2, <1>3, JobStepKeeps

\* A job that has read a ticket: the ticket is there.
LEMMA JobKnown ==
  ASSUME LInv, NEW j \in Jobs, job[j].pc = "read"
  PROVE  /\ job[j].ticket \in Tickets /\ job[j].saw \in Row
         /\ tickets[job[j].ticket] \in Row /\ tickets[job[j].ticket].present
         /\ tickets[job[j].ticket].version + 1 \in Nat
<1>1. job[j].ticket \in Tickets /\ job[j].saw \in Row
  BY DEF LInv, TypeOK, Job
<1>2. tickets[job[j].ticket] \in Row /\ tickets[job[j].ticket].present
  BY <1>1 DEF LInv, TypeOK, JobInformed
<1>3. tickets[job[j].ticket].version + 1 \in Nat
  BY <1>2 DEF Row
<1> QED BY <1>1, <1>2, <1>3

LEMMA BumpTyped ==
  ASSUME NEW r \in Row
  PROVE  /\ BumpVersion(r) \in Row /\ BumpVersion(r).present = r.present
         /\ BumpVersion(r).version = r.version + 1
BY DEF BumpVersion, Row

\* Changing fields other than the version keeps a row and its version.
LEMMA FieldsTyped ==
  ASSUME NEW r \in Row, NEW st \in TicketStatus, NEW sv \in BOOLEAN, NEW cl \in BOOLEAN
  PROVE  [r EXCEPT !.status = st, !.solved = sv, !.closed = cl] \in Row
BY DEF Row

LEMMA JobReadKeeps ==
  ASSUME LInv, NEW j \in Jobs, NEW t \in Tickets, JobRead(j, t)
  PROVE  LInv' /\ RowsFollow
<1>1. RowsFollow /\ AbsentIsBlank'
  BY SameRows DEF JobRead
<1>2. TypeOK'
  BY DEF LInv, TypeOK, JobRead, Job
<1>3. JobInformed(j)' /\ \A i \in Jobs \ {j} : job'[i] = job[i]
  BY DEF JobInformed, LInv, TypeOK, JobRead
<1> QED BY <1>1, <1>2, <1>3, JobStepKeeps DEF JobRead

LEMMA JobNoopKeeps ==
  ASSUME LInv, NEW j \in Jobs, JobNoop(j)
  PROVE  LInv' /\ RowsFollow
<1>1. RowsFollow /\ AbsentIsBlank'
  BY SameRows DEF JobNoop
<1>2. TypeOK'
  BY NoRowTyped, SomeTicketTyped DEF LInv, TypeOK, JobNoop, JobDone, Job
<1>3. JobInformed(j)' /\ \A i \in Jobs \ {j} : job'[i] = job[i]
  BY DEF JobInformed, LInv, TypeOK, JobNoop, JobDone
<1> QED BY <1>1, <1>2, <1>3, JobStepKeeps DEF JobNoop

LEMMA JobChangeStatusKeeps ==
  ASSUME LInv, NEW j \in Jobs, NEW to \in AutomationTargets, JobChangeStatus(j, to)
  PROVE  LInv' /\ RowsFollow
<1> DEFINE t == job[j].ticket
           b == BumpVersion(tickets[t])
           sv == (to = "SOLVED") \/ job[j].saw.solved
           cl == (to = "CLOSED") \/ job[j].saw.closed
           r == [b EXCEPT !.status = to, !.solved = sv, !.closed = cl]
<1>1. /\ tickets' = [tickets EXCEPT ![t] = r] /\ Announce(t, {"ticket.status_changed"}, r)
      /\ misled' \subseteq misled \cup {"workflow"} /\ JobDone(j) /\ UNCHANGED <<keys, session>>
      /\ job[j].pc = "read"
  BY DEF JobChangeStatus
<1>2. /\ t \in Tickets /\ job[j].saw \in Row /\ tickets[t] \in Row /\ tickets[t].present
  BY <1>1, JobKnown
<1>3. b \in Row /\ b.present = tickets[t].present /\ b.version = tickets[t].version + 1
  BY <1>2, BumpTyped
<1>4. to \in TicketStatus
  BY TargetsAreStatuses
<1>5. sv \in BOOLEAN
  BY <1>2 DEF Row
<1>6. cl \in BOOLEAN
  BY <1>2 DEF Row
<1> HIDE DEF t, b, sv, cl
<1>7. r \in Row
  BY <1>3, <1>4, <1>5, <1>6, FieldsTyped
<1>8. r.present = b.present /\ r.version = b.version
  BY <1>3 DEF Row
<1> HIDE DEF r
<1>9. heard' \in [Tickets -> Heard] /\ misled' \subseteq {"person", "workflow"}
  BY <1>1, <1>2, <1>7, AnnounceTyped DEF LInv, TypeOK
<1> QED BY <1>1, <1>2, <1>3, <1>7, <1>8, <1>9, JobWriteKeeps

LEMMA JobAssignKeeps ==
  ASSUME LInv, NEW j \in Jobs, NEW a \in Users \cup {NoUser}, JobAssign(j, a)
  PROVE  LInv' /\ RowsFollow
<1> DEFINE t == job[j].ticket
           b == BumpVersion(tickets[t])
           r == [b EXCEPT !.assignee = a]
<1>1. /\ tickets' = [tickets EXCEPT ![t] = r] /\ Announce(t, {"ticket.assigned"}, r)
      /\ JobDone(j) /\ UNCHANGED <<keys, misled, session>>
      /\ job[j].pc = "read"
  BY DEF JobAssign
<1>2. /\ t \in Tickets /\ tickets[t] \in Row /\ tickets[t].present
  BY <1>1, JobKnown
<1>3. b \in Row /\ b.present = tickets[t].present /\ b.version = tickets[t].version + 1
  BY <1>2, BumpTyped
<1> HIDE DEF t, b
<1>4. r \in Row /\ r.present = b.present /\ r.version = b.version
  BY <1>3 DEF Row
<1> HIDE DEF r
<1>5. heard' \in [Tickets -> Heard] /\ misled' \subseteq {"person", "workflow"}
  BY <1>1, <1>2, <1>4, AnnounceTyped DEF LInv, TypeOK
<1> QED BY <1>1, <1>2, <1>3, <1>4, <1>5, JobWriteKeeps

-----------------------------------------------------------------------------

LEMMA NextKeeps == LInv /\ Next => LInv' /\ RowsFollow
<1> SUFFICES ASSUME LInv, Next PROVE LInv' /\ RowsFollow
  OBVIOUS
<1>1. ASSUME NEW c \in Clients, PersonStep(c) PROVE LInv' /\ RowsFollow
  BY <1>1, BeginCreateKeeps, CommitCreateKeeps, ViewKeeps, LoadKeeps, ReadPreviousKeeps,
     CommitUpdateKeeps, AbandonKeeps DEF PersonStep
<1>2. ASSUME NEW j \in Jobs, JobStep(j) PROVE LInv' /\ RowsFollow
  BY <1>2, JobReadKeeps, JobChangeStatusKeeps, JobAssignKeeps, JobNoopKeeps DEF JobStep
<1> QED BY <1>1, <1>2 DEF Next

LEMMA StutterKeeps == LInv /\ UNCHANGED vars => LInv'
BY DEF LInv, TypeOK, AbsentIsBlank, Informed, Prepared, JobInformed, vars

\* The inductive invariant: types, and what requests and workflow actions in
\* progress know of the tickets they are about.
THEOREM LifecycleInvariant == Spec => []LInv
<1>1. LInv /\ [Next]_vars => LInv'
  BY NextKeeps, StutterKeeps
<1> QED BY InitInformed, <1>1, PTL DEF Spec

THEOREM TypeCorrect == Spec => []TypeOK
<1>1. LInv => TypeOK
  BY DEF LInv
<1> QED BY LifecycleInvariant, <1>1, PTL

\* Optimistic concurrency rests on this: no two contents of a ticket share a
\* version, whether people or workflow actions write.
THEOREM VersionsTell == Spec => VersionTellsContent
<1>1. LInv /\ [Next]_vars =>
        [\A t \in Tickets : tickets'[t] # tickets[t]
           => tickets'[t].version = tickets[t].version + 1]_vars
  BY NextKeeps DEF RowsFollow
<1> QED BY LifecycleInvariant, <1>1, PTL DEF Spec, VersionTellsContent

\* The only step that ends the writing of a request and changes a ticket.
LEMMA WritesCommit ==
  ASSUME LInv, Next, NEW c \in Clients, NEW t \in Tickets, Writes(c, t)
  PROVE  CommitUpdate(c)
<1>1. session'[c] # session[c] /\ tickets' # tickets /\ session[c].pc = "writing"
  BY DEF Writes
<1>2. ASSUME NEW d \in Clients, PersonStep(d) PROVE CommitUpdate(c)
  <2>1. CommitCreate(d) \/ CommitUpdate(d)
    BY <1>1, <1>2 DEF PersonStep, BeginCreate, View, Load, ReadPrevious, Abandon
  <2>2. d = c
    BY <1>1, <2>1 DEF CommitCreate, CommitUpdate, LInv, TypeOK
  <2> QED BY <1>1, <2>1, <2>2 DEF CommitCreate
<1>3. ASSUME NEW j \in Jobs, JobStep(j) PROVE FALSE
  BY <1>1, <1>3 DEF JobStep, JobRead, JobChangeStatus, JobAssign, JobNoop
<1> QED BY <1>2, <1>3 DEF Next

\* "Concurrent edits produce one winner": whatever happens between the reads and
\* the write of a command, it commits only onto the row its author saw.
THEOREM NoUpdateIsLost == Spec => NoLostUpdate
<1>1. LInv /\ [Next]_vars =>
        [\A c \in Clients, t \in Tickets : Writes(c, t) => tickets[t] = session[c].saw]_vars
  <2> SUFFICES ASSUME LInv, Next, NEW c \in Clients, NEW t \in Tickets, Writes(c, t)
               PROVE  tickets[t] = session[c].saw
    OBVIOUS
  <2>1. CommitUpdate(c)
    BY WritesCommit
  <2> QED BY <2>1, CommitUpdateLands DEF Writes
<1> QED BY LifecycleInvariant, <1>1, PTL DEF Spec, NoLostUpdate

\* People keep to the lifecycle, judged on the row as it is when they commit.
THEOREM PeopleKeepLifecycle == Spec => PeopleFollowLifecycle
<1>1. LInv /\ [Next]_vars =>
        [\A c \in Clients, t \in Tickets :
           Writes(c, t) => AllowedTransition(tickets[t].status, tickets'[t].status)]_vars
  <2> SUFFICES ASSUME LInv, Next, NEW c \in Clients, NEW t \in Tickets, Writes(c, t)
               PROVE  AllowedTransition(tickets[t].status, tickets'[t].status)
    OBVIOUS
  <2>1. CommitUpdate(c) /\ session[c].ticket = t
    BY WritesCommit DEF Writes
  <2>2. tickets'[t] = session[c].new
    BY <2>1 DEF CommitUpdate, LInv, TypeOK
  <2> QED BY <2>1, <2>2, CommitUpdateLands DEF Follows
<1> QED BY LifecycleInvariant, <1>1, PTL DEF Spec, PeopleFollowLifecycle

-----------------------------------------------------------------------------
(* What consumers of the outbox hear, and the references of tickets.       *)
(*                                                                         *)
(* An event tells what changed since the row updateWithAudit re-read, while *)
(* the write is guarded by the version the person saw.  The two agree       *)
(* because the re-read row is no older than the one seen (WriterRead): when *)
(* the guard holds, both are the row as it is.                              *)

WriterRead(c) ==
  session[c].pc = "writing" =>
    LET s == session[c] IN
      /\ s.saw.version <= s.prev.version
      /\ s.prev.version <= tickets[s.ticket].version
      /\ s.prev.version = tickets[s.ticket].version => tickets[s.ticket] = s.prev

\* Nothing announced is newer than the row it is about.
HeardNoNewer == \A t \in Tickets : heard[t].version <= tickets[t].version

EventInv ==
  /\ LInv
  /\ \A c \in Clients : WriterRead(c)
  /\ ConsumersConverge
  /\ HeardNoNewer
  /\ PeopleAreNotMisleading
  /\ RefsAreUnique

\* The forms of a step: nothing written, a ticket created, a ticket overwritten.
Quiet == UNCHANGED <<tickets, heard, misled>>

Told(t, r) ==
  heard' = [heard EXCEPT ![t] = [status |-> r.status, assignee |-> r.assignee,
                                 version |-> r.version]]

Creates(t, r) ==
  /\ ~tickets[t].present /\ r.present /\ r.version = 1
  /\ r.ref = Cardinality(Present) + 1
  /\ Stamped(r)
  /\ tickets' = [tickets EXCEPT ![t] = r]
  /\ Told(t, r)
  /\ misled' = misled

Overwrites(t, r) ==
  /\ tickets[t].present /\ r.present /\ r.ref = tickets[t].ref
  /\ r = tickets[t] \/ r.version = tickets[t].version + 1
  /\ Jobs = {} => Follows(tickets[t], r)
  /\ tickets' = [tickets EXCEPT ![t] = r]
  /\ \/ heard' = heard /\ r.status = tickets[t].status /\ r.assignee = tickets[t].assignee
     \/ Told(t, r) /\ r.version = tickets[t].version + 1
  /\ "person" \in misled' => "person" \in misled

StepForm ==
  \/ Quiet
  \/ \E t \in Tickets, r \in Row : Creates(t, r) \/ Overwrites(t, r)

\* The row read for the events is the row written over.
LEMMA ReadIsCurrent ==
  ASSUME LInv, NEW c \in Clients, WriterRead(c), CommitUpdate(c)
  PROVE  tickets[session[c].ticket] = session[c].prev
<1> DEFINE t == session[c].ticket
<1>1. session[c].saw.version \in Nat /\ session[c].prev.version \in Nat /\ tickets[t].version \in Nat
  BY DEF LInv, TypeOK, Session, Row
<1>2. tickets[t].version = session[c].saw.version /\ session[c].pc = "writing"
  BY DEF CommitUpdate, WriteGuard
<1> QED BY <1>1, <1>2 DEF WriterRead

\* No event is appended exactly when neither the status nor the assignee changed.
LEMMA EventsTell ==
  ASSUME NEW prev \in Row, NEW new \in Row
  PROVE  /\ EventsOf(prev, new) = {} => new.status = prev.status /\ new.assignee = prev.assignee
         /\ EventsOf(prev, new) # {} => new # prev
         /\ "ticket.created" \notin EventsOf(prev, new)
BY DEF EventsOf

LEMMA CommitCreateForm ==
  ASSUME LInv, NEW c \in Clients, CommitCreate(c)
  PROVE  StepForm
<1> DEFINE t == session[c].ticket
           n == session[c].count + 1
<1>1. t \in Tickets /\ n \in Nat /\ n = Cardinality(Present) + 1
  BY DEF LInv, TypeOK, Session, CommitCreate, CountStillHolds
<1>2. PICK a \in Users \cup {NoUser} :
        /\ tickets' = [tickets EXCEPT ![t] =
                         [[NoRow EXCEPT !.present = TRUE, !.ref = n, !.version = 1]
                            EXCEPT !.assignee = a]]
        /\ Announce(t, {"ticket.created"},
                    [[NoRow EXCEPT !.present = TRUE, !.ref = n, !.version = 1]
                       EXCEPT !.assignee = a])
  BY DEF CommitCreate
<1>3. ~tickets[t].present /\ misled' = misled
  BY DEF CommitCreate
<1> HIDE DEF n, t
<1> DEFINE q == [[NoRow EXCEPT !.present = TRUE, !.ref = n, !.version = 1] EXCEPT !.assignee = a]
<1>4. /\ q.present = TRUE /\ q.ref = n /\ q.version = 1 /\ q.status = "NEW"
      /\ q.solved = FALSE /\ q.closed = FALSE
  BY DEF NoRow
<1>5. q \in Row
  BY <1>1 DEF NoRow, Row, TicketStatus
<1>6. tickets' = [tickets EXCEPT ![t] = q] /\ Announce(t, {"ticket.created"}, q)
  BY <1>2
<1> HIDE DEF q
<1>7. Stamped(q)
  BY <1>4 DEF Stamped
<1>8. Told(t, q)
  BY <1>6 DEF Announce, Told
<1>9. Creates(t, q)
  BY <1>1, <1>3, <1>4, <1>6, <1>7, <1>8 DEF Creates
<1> QED BY <1>1, <1>5, <1>9 DEF StepForm

LEMMA CommitUpdateForm ==
  ASSUME LInv, ConsumersConverge, NEW c \in Clients, WriterRead(c), CommitUpdate(c)
  PROVE  StepForm
<1> DEFINE t == session[c].ticket
           new == session[c].new
           types == EventsOf(session[c].prev, new)
<1>1. /\ t \in Tickets /\ tickets[t].present /\ Follows(tickets[t], new) /\ new \in Row
      /\ tickets[t] \in Row
  BY CommitUpdateLands DEF LInv, TypeOK, Session
<1>2. tickets[t] = session[c].prev
  BY ReadIsCurrent
<1>3. /\ tickets' = [tickets EXCEPT ![t] = new]
      /\ Announce(t, types, new)
      /\ misled' = IF Misleads(t, types, tickets[t]) THEN misled \cup {"person"} ELSE misled
  BY <1>2 DEF CommitUpdate
<1>4. types = EventsOf(tickets[t], new)
  BY <1>2
<1>5. ~Misleads(t, types, tickets[t])
  BY <1>1 DEF Misleads, ConsumersConverge, Present
<1> HIDE DEF t, new, types
<1>6. CASE types = {}
  <2>1. heard' = heard
    <3>1. heard' = [heard EXCEPT ![t] = heard[t]]
      BY <1>3, <1>6 DEF Announce
    <3> QED BY <1>1, <3>1 DEF LInv, TypeOK
  <2>2. new.status = tickets[t].status /\ new.assignee = tickets[t].assignee
    BY <1>1, <1>4, <1>6, EventsTell
  <2>3. Overwrites(t, new)
    BY <1>1, <1>3, <1>5, <2>1, <2>2 DEF Overwrites, Follows
  <2> QED BY <1>1, <2>3 DEF StepForm
<1>7. CASE types # {}
  <2>1. Told(t, new)
    BY <1>3, <1>7 DEF Announce, Told
  <2>2. new.version = tickets[t].version + 1
    BY <1>1, <1>4, <1>7, EventsTell DEF Follows
  <2>3. Overwrites(t, new)
    BY <1>1, <1>3, <1>5, <2>1, <2>2 DEF Overwrites, Follows
  <2> QED BY <1>1, <2>3 DEF StepForm
<1> QED BY <1>6, <1>7

LEMMA JobChangeStatusForm ==
  ASSUME LInv, NEW j \in Jobs, NEW to \in AutomationTargets, JobChangeStatus(j, to)
  PROVE  StepForm
<1> DEFINE t == job[j].ticket
           b == BumpVersion(tickets[t])
           sv == (to = "SOLVED") \/ job[j].saw.solved
           cl == (to = "CLOSED") \/ job[j].saw.closed
           r == [b EXCEPT !.status = to, !.solved = sv, !.closed = cl]
<1>1. /\ tickets' = [tickets EXCEPT ![t] = r] /\ Announce(t, {"ticket.status_changed"}, r)
      /\ misled' \subseteq misled \cup {"workflow"}
      /\ job[j].pc = "read"
  BY DEF JobChangeStatus
<1>2. /\ t \in Tickets /\ job[j].saw \in Row /\ tickets[t] \in Row /\ tickets[t].present
  BY <1>1, JobKnown
<1>3. /\ b \in Row /\ b.present = tickets[t].present /\ b.version = tickets[t].version + 1
      /\ b.ref = tickets[t].ref
  BY <1>2, BumpTyped DEF BumpVersion, Row
<1>4. to \in TicketStatus
  BY TargetsAreStatuses
<1>5. sv \in BOOLEAN
  BY <1>2 DEF Row
<1>6. cl \in BOOLEAN
  BY <1>2 DEF Row
<1> HIDE DEF t, b, sv, cl
<1>7. r \in Row
  BY <1>3, <1>4, <1>5, <1>6, FieldsTyped
<1>8. r.present = b.present /\ r.version = b.version /\ r.ref = b.ref
  BY <1>3 DEF Row
<1> HIDE DEF r
<1>9. Told(t, r) /\ Jobs # {}
  BY <1>1 DEF Announce, Told
<1>10. Overwrites(t, r)
  BY <1>1, <1>2, <1>3, <1>8, <1>9 DEF Overwrites
<1> QED BY <1>2, <1>7, <1>10 DEF StepForm

LEMMA JobAssignForm ==
  ASSUME LInv, NEW j \in Jobs, NEW a \in Users \cup {NoUser}, JobAssign(j, a)
  PROVE  StepForm
<1> DEFINE t == job[j].ticket
           b == BumpVersion(tickets[t])
           r == [b EXCEPT !.assignee = a]
<1>1. /\ tickets' = [tickets EXCEPT ![t] = r] /\ Announce(t, {"ticket.assigned"}, r)
      /\ misled' = misled
      /\ job[j].pc = "read"
  BY DEF JobAssign
<1>2. /\ t \in Tickets /\ tickets[t] \in Row /\ tickets[t].present
  BY <1>1, JobKnown
<1>3. /\ b \in Row /\ b.present = tickets[t].present /\ b.version = tickets[t].version + 1
      /\ b.ref = tickets[t].ref
  BY <1>2, BumpTyped DEF BumpVersion, Row
<1> HIDE DEF t, b
<1>4. r \in Row /\ r.present = b.present /\ r.version = b.version /\ r.ref = b.ref
  BY <1>3 DEF Row
<1> HIDE DEF r
<1>5. Told(t, r) /\ Jobs # {}
  BY <1>1 DEF Announce, Told
<1>6. Overwrites(t, r)
  BY <1>1, <1>2, <1>3, <1>4, <1>5 DEF Overwrites
<1> QED BY <1>2, <1>4, <1>6 DEF StepForm

LEMMA NextForms ==
  ASSUME LInv, ConsumersConverge, \A c \in Clients : WriterRead(c), Next
  PROVE  StepForm
<1>1. ASSUME NEW c \in Clients, PersonStep(c) PROVE StepForm
  <2>1. CASE CommitCreate(c)
    BY <2>1, CommitCreateForm
  <2>2. CASE CommitUpdate(c)
    BY <2>2, CommitUpdateForm
  <2>3. CASE ~CommitCreate(c) /\ ~CommitUpdate(c)
    BY <1>1, <2>3 DEF PersonStep, BeginCreate, View, Load, ReadPrevious, Abandon, StepForm, Quiet
  <2> QED BY <2>1, <2>2, <2>3
<1>2. ASSUME NEW j \in Jobs, JobStep(j) PROVE StepForm
  <2>1. ASSUME NEW to \in AutomationTargets, JobChangeStatus(j, to) PROVE StepForm
    BY <2>1, JobChangeStatusForm
  <2>2. ASSUME NEW a \in Users \cup {NoUser}, JobAssign(j, a) PROVE StepForm
    BY <2>2, JobAssignForm
  <2>3. CASE JobNoop(j) \/ \E t \in Tickets : JobRead(j, t)
    BY <2>3 DEF JobRead, JobNoop, StepForm, Quiet
  <2> QED BY <1>2, <2>1, <2>2, <2>3 DEF JobStep
<1> QED BY <1>1, <1>2 DEF Next

\* A request that is writing after a step was writing before it, or has just
\* read the row.
LEMMA WritingSince ==
  ASSUME LInv, Next, NEW c \in Clients, session'[c].pc = "writing"
  PROVE  session'[c] = session[c] \/ ReadPrevious(c)
<1>1. ASSUME NEW d \in Clients, PersonStep(d) PROVE session'[c] = session[c] \/ ReadPrevious(c)
  <2>1. CASE d # c
    BY <1>1, <2>1 DEF PersonStep, BeginCreate, CommitCreate, View, Load, ReadPrevious,
       CommitUpdate, Abandon, LInv, TypeOK
  <2>2. CASE d = c
    <3>1. ASSUME NEW t, session' = [session EXCEPT ![c] = IdleSession(t)] PROVE FALSE
      BY <3>1 DEF IdleSession, LInv, TypeOK
    <3>2. ASSUME NEW t \in Tickets, NEW corr, BeginCreate(c, t, corr) PROVE FALSE
      BY <3>2 DEF BeginCreate, IdleSession, LInv, TypeOK
    <3>3. ASSUME NEW t \in Tickets, View(c, t) PROVE FALSE
      BY <3>3 DEF View, IdleSession, LInv, TypeOK
    <3>4. ASSUME NEW corr, Load(c, corr) PROVE FALSE
      <4>1. PICK r : session' = [session EXCEPT ![c] = [session[c] EXCEPT !.pc = "loaded", !.new = r,
                                                                        !.corr = corr]]
        BY <3>4 DEF Load
      <4>2. session[c] \in Session /\ session'[c].pc = "loaded"
        BY <4>1 DEF LInv, TypeOK, Session
      <4> QED BY <4>2
    <3>5. CASE CommitCreate(c) \/ CommitUpdate(c) \/ Abandon(c)
      BY <3>1, <3>5 DEF CommitCreate, CommitUpdate, Abandon
    <3> QED BY <1>1, <2>2, <3>2, <3>3, <3>4, <3>5 DEF PersonStep
  <2> QED BY <2>1, <2>2
<1>2. ASSUME NEW j \in Jobs, JobStep(j) PROVE session'[c] = session[c]
  BY <1>2 DEF JobStep, JobRead, JobChangeStatus, JobAssign, JobNoop
<1> QED BY <1>1, <1>2 DEF Next

LEMMA WritersKeep ==
  ASSUME LInv, LInv', RowsFollow, Next, NEW c \in Clients, WriterRead(c)
  PROVE  WriterRead(c)'
<1> SUFFICES ASSUME session'[c].pc = "writing"
             PROVE  /\ session'[c].saw.version <= session'[c].prev.version
                    /\ session'[c].prev.version <= tickets'[session'[c].ticket].version
                    /\ session'[c].prev.version = tickets'[session'[c].ticket].version
                         => tickets'[session'[c].ticket] = session'[c].prev
  BY DEF WriterRead
<1>1. CASE session'[c] = session[c]
  <2> DEFINE t == session[c].ticket
             v == session[c].prev.version
  <2>1. t \in Tickets /\ v \in Nat /\ tickets[t].version \in Nat
    BY DEF LInv, TypeOK, Session, Row
  <2>2. /\ session[c].saw.version <= v /\ v <= tickets[t].version
        /\ v = tickets[t].version => tickets[t] = session[c].prev
    BY <1>1 DEF WriterRead
  <2>3. tickets'[t] = tickets[t] \/ tickets'[t].version = tickets[t].version + 1
    BY <2>1 DEF RowsFollow
  <2>4. session'[c].prev.version = v /\ session'[c].ticket = t
        /\ session'[c].saw.version = session[c].saw.version /\ session'[c].prev = session[c].prev
    BY <1>1
  <2> HIDE DEF t, v
  <2> QED BY <2>1, <2>2, <2>3, <2>4
<1>2. CASE ReadPrevious(c)
  <2> DEFINE t == session[c].ticket
  <2>1. session' = [session EXCEPT ![c] = [session[c] EXCEPT !.pc = "writing", !.prev = tickets[t]]]
        /\ tickets' = tickets /\ session[c].pc = "loaded"
    BY <1>2 DEF ReadPrevious
  <2>2. session[c] \in Session /\ t \in Tickets /\ tickets[t].version \in Nat
    BY DEF LInv, TypeOK, Session, Row
  <2>3. session'[c].prev = tickets[t] /\ session'[c].saw = session[c].saw /\ session'[c].ticket = t
    BY <2>1, <2>2 DEF LInv, TypeOK, Session
  <2>4. session[c].saw.version <= tickets[t].version
    BY <2>1 DEF LInv, Informed
  <2> HIDE DEF t
  <2> QED BY <2>1, <2>2, <2>3, <2>4
<1> QED BY <1>1, <1>2, WritingSince

\* A step of any form keeps consumers informed, and tells them of newer rows only.
LEMMA FormsTell ==
  ASSUME LInv, ConsumersConverge, HeardNoNewer, PeopleAreNotMisleading, StepForm
  PROVE  /\ ConsumersConverge' /\ HeardNoNewer' /\ PeopleAreNotMisleading'
         /\ \A t \in Tickets : heard'[t] # heard[t] => heard'[t].version > heard[t].version
<1>0. /\ \A t \in Tickets : heard[t].version \in Nat /\ tickets[t].version \in Nat
      /\ DOMAIN tickets = Tickets /\ DOMAIN heard = Tickets
  BY DEF LInv, TypeOK, Heard, Row
<1>1. CASE Quiet
  <2>1. ConsumersConverge' /\ HeardNoNewer' /\ PeopleAreNotMisleading'
    BY <1>1 DEF Quiet, ConsumersConverge, HeardNoNewer, PeopleAreNotMisleading, Present
  <2>2. heard' = heard
    BY <1>1 DEF Quiet
  <2> QED BY <2>1, <2>2
<1>2. ASSUME NEW t \in Tickets, NEW r \in Row, Creates(t, r) \/ Overwrites(t, r)
      PROVE  /\ ConsumersConverge' /\ HeardNoNewer' /\ PeopleAreNotMisleading'
             /\ \A u \in Tickets : heard'[u] # heard[u] => heard'[u].version > heard[u].version
  <2>1. /\ tickets'[t] = r
        /\ \A u \in Tickets \ {t} : tickets'[u] = tickets[u] /\ heard'[u] = heard[u]
        /\ "person" \notin misled'
    BY <1>0, <1>2 DEF Creates, Overwrites, Told, PeopleAreNotMisleading
  <2>2. r.version \in Nat
    BY DEF Row
  <2>3. /\ heard'[t].status = r.status /\ heard'[t].assignee = r.assignee
        /\ heard'[t].version <= r.version
        /\ heard'[t] # heard[t] => heard'[t].version > heard[t].version
    <3>1. CASE Creates(t, r)
      <4>1. heard'[t] = [status |-> r.status, assignee |-> r.assignee, version |-> r.version]
        BY <1>0, <3>1 DEF Creates, Told
      <4>2. r.version = 1 /\ tickets[t].version = 0
        BY <3>1 DEF Creates, LInv, AbsentIsBlank, NoRow
      <4>3. heard[t].version = 0
        BY <1>0, <4>2 DEF HeardNoNewer
      <4> QED BY <2>2, <4>1, <4>2, <4>3
    <3>2. CASE Overwrites(t, r) /\ Told(t, r) /\ r.version = tickets[t].version + 1
      <4>1. heard'[t] = [status |-> r.status, assignee |-> r.assignee, version |-> r.version]
        BY <1>0, <3>2 DEF Told
      <4>2. heard[t].version < r.version
        BY <1>0, <3>2 DEF HeardNoNewer
      <4> QED BY <1>0, <2>2, <4>1, <4>2
    <3>3. CASE /\ Overwrites(t, r)
               /\ heard' = heard /\ r.status = tickets[t].status /\ r.assignee = tickets[t].assignee
      <4>1. tickets[t].present /\ (r = tickets[t] \/ r.version = tickets[t].version + 1)
        BY <3>3 DEF Overwrites
      <4>2. heard[t].status = r.status /\ heard[t].assignee = r.assignee
        BY <3>3, <4>1 DEF ConsumersConverge, Present
      <4>3. heard[t].version <= tickets[t].version
        BY DEF HeardNoNewer
      <4>4. tickets[t].version <= r.version
        BY <1>0, <4>1
      <4>5. heard[t].version <= r.version
        BY <1>0, <2>2, <4>3, <4>4
      <4> QED BY <3>3, <4>2, <4>5
    <3> QED BY <1>2, <3>1, <3>2, <3>3 DEF Overwrites
  <2>4. ASSUME NEW u \in Tickets
        PROVE  /\ tickets'[u].present =>
                    heard'[u].status = tickets'[u].status /\ heard'[u].assignee = tickets'[u].assignee
               /\ heard'[u].version <= tickets'[u].version
               /\ heard'[u] # heard[u] => heard'[u].version > heard[u].version
    <3>1. CASE u = t
      BY <2>1, <2>3, <3>1
    <3>2. CASE u # t
      BY <2>1, <3>2 DEF ConsumersConverge, HeardNoNewer, Present
    <3> QED BY <3>1, <3>2
  <2>5. ConsumersConverge'
    BY <2>4 DEF ConsumersConverge, Present
  <2>6. HeardNoNewer'
    BY <2>4 DEF HeardNoNewer
  <2>7. PeopleAreNotMisleading'
    BY <2>1 DEF PeopleAreNotMisleading
  <2> QED BY <2>4, <2>5, <2>6, <2>7
<1> QED BY <1>1, <1>2 DEF StepForm

\* References stay dense: a new ticket gets the next one, and no write of a
\* ticket that is there touches its own.
LEMMA FormsNumber ==
  ASSUME LInv, RefsAreUnique, StepForm
  PROVE  RefsAreUnique'
<1> DEFINE Ref(t) == tickets[t].ref
<1>0. IsFiniteSet(Present) /\ Cardinality(Present) \in Nat
  BY FiniteTickets, FS_Subset, FS_CardinalityType DEF Present
<1>1. CASE Quiet
  BY <1>1 DEF Quiet, RefsAreUnique, Present
<1>2. ASSUME NEW t \in Tickets, NEW r \in Row, Overwrites(t, r) PROVE RefsAreUnique'
  <2>1. \A u \in Tickets : tickets'[u].present = tickets[u].present /\ tickets'[u].ref = tickets[u].ref
    BY <1>2 DEF Overwrites, LInv, TypeOK, Row
  <2>2. Present' = Present
    BY <2>1 DEF Present
  <2>3. {tickets'[u].ref : u \in Present} = {tickets[u].ref : u \in Present}
    BY <2>1 DEF Present
  <2>4. \A u \in Present : tickets'[u].ref = tickets[u].ref
    BY <2>1 DEF Present
  <2> QED BY <2>2, <2>3, <2>4 DEF RefsAreUnique
<1>3. ASSUME NEW t \in Tickets, NEW r \in Row, Creates(t, r) PROVE RefsAreUnique'
  <2> DEFINE n == Cardinality(Present)
  <2>1. /\ tickets'[t] = r /\ r.ref = n + 1 /\ r.present /\ t \notin Present
        /\ \A u \in Tickets \ {t} : tickets'[u] = tickets[u]
    BY <1>3 DEF Creates, LInv, TypeOK, Present
  <2>2. Present' = Present \cup {t}
    BY <2>1 DEF Present
  <2>3. Cardinality(Present \cup {t}) = n + 1
    BY <1>0, <2>1, FS_AddElement
  <2>4. \A u \in Present : u # t /\ tickets'[u].ref = tickets[u].ref
    BY <2>1 DEF Present
  <2>5. {tickets'[u].ref : u \in Present} = 1..n
    BY <2>4 DEF RefsAreUnique
  <2>6. {tickets'[u].ref : u \in Present \cup {t}} = {tickets'[u].ref : u \in Present} \cup {n + 1}
    BY <2>1
  <2> HIDE DEF n
  <2>7. n \in Nat
    BY <1>0 DEF n
  <2>8. (1..n) \cup {n + 1} = 1..(n + 1)
    BY <2>7
  <2>9. \A u \in Present : tickets'[u].ref \in 1..n
    BY <2>5
  <2>10. \A u \in Present : tickets'[u].ref # n + 1
    BY <2>7, <2>9
  <2>11. \A u, w \in Present \cup {t} : tickets'[u].ref = tickets'[w].ref => u = w
    <3>1. \A u, w \in Present : tickets'[u].ref = tickets'[w].ref => u = w
      BY <2>4 DEF RefsAreUnique
    <3> QED BY <2>1, <2>10, <3>1
  <2>12. {tickets'[u].ref : u \in Present \cup {t}} = 1..(n + 1)
    BY <2>5, <2>6, <2>8
  <2> QED BY <2>2, <2>3, <2>11, <2>12 DEF RefsAreUnique
<1> QED BY <1>1, <1>2, <1>3 DEF StepForm

LEMMA InitHeard == Init => EventInv
<1> SUFFICES ASSUME Init PROVE EventInv
  OBVIOUS
<1>1. Present = {}
  BY DEF Init, Present, NoRow
<1>2. ConsumersConverge /\ PeopleAreNotMisleading
  BY <1>1 DEF Init, ConsumersConverge, PeopleAreNotMisleading
<1>3. HeardNoNewer
  BY DEF Init, HeardNoNewer, NoRow
<1>4. RefsAreUnique
  <2>1. {tickets[t].ref : t \in {}} = {}
    OBVIOUS
  <2>2. Cardinality({}) = 0
    BY FS_EmptySet
  <2>3. 1..0 = {}
    OBVIOUS
  <2> QED BY <1>1, <2>1, <2>2, <2>3 DEF RefsAreUnique
<1>5. \A c \in Clients : WriterRead(c)
  BY DEF Init, WriterRead, IdleSession
<1> QED BY <1>2, <1>3, <1>4, <1>5, InitInformed DEF EventInv

LEMMA EventStep == EventInv /\ Next => EventInv' /\ StepForm
<1> SUFFICES ASSUME EventInv, Next PROVE EventInv' /\ StepForm
  OBVIOUS
<1>1. LInv' /\ RowsFollow
  BY NextKeeps DEF EventInv
<1>2. StepForm
  BY NextForms DEF EventInv
<1>3. \A c \in Clients : WriterRead(c)'
  BY <1>1, WritersKeep DEF EventInv
<1>4. ConsumersConverge' /\ HeardNoNewer' /\ PeopleAreNotMisleading'
  BY <1>2, FormsTell DEF EventInv
<1>5. RefsAreUnique'
  BY <1>2, FormsNumber DEF EventInv
<1> QED BY <1>1, <1>2, <1>3, <1>4, <1>5 DEF EventInv

LEMMA EventStutter == EventInv /\ UNCHANGED vars => EventInv'
<1> SUFFICES ASSUME EventInv, UNCHANGED vars PROVE EventInv'
  OBVIOUS
<1>1. LInv'
  BY StutterKeeps DEF EventInv
<1>2. Quiet /\ session' = session
  BY DEF vars, Quiet
<1>3. StepForm
  BY <1>2 DEF StepForm
<1>4. ConsumersConverge' /\ HeardNoNewer' /\ PeopleAreNotMisleading'
  BY <1>3, FormsTell DEF EventInv
<1>5. RefsAreUnique'
  BY <1>3, FormsNumber DEF EventInv
<1>6. \A c \in Clients : WriterRead(c)'
  BY <1>2 DEF EventInv, WriterRead, Quiet
<1> QED BY <1>1, <1>4, <1>5, <1>6 DEF EventInv

\* The invariant of events and references: what a writer re-read is between what
\* it saw and what is there, and consumers know every row.
THEOREM EventsHold == Spec => []EventInv
<1>1. EventInv /\ [Next]_vars => EventInv'
  BY EventStep, EventStutter
<1> QED BY InitHeard, <1>1, PTL DEF Spec

\* No write of a status or an assignee goes unannounced, by whoever it is made
\* and whatever was read between the reads of a command.
THEOREM ConsumersKnow == Spec => []ConsumersConverge
<1>1. EventInv => ConsumersConverge
  BY DEF EventInv
<1> QED BY EventsHold, <1>1, PTL

\* The fromStatus a person's event names is the status announced before it.
THEOREM PeopleTellTheTruth == Spec => []PeopleAreNotMisleading
<1>1. EventInv => PeopleAreNotMisleading
  BY DEF EventInv
<1> QED BY EventsHold, <1>1, PTL

\* Serializable creation numbers the tickets of a tenant 1, 2, 3, ... without a
\* gap or a repetition, however many creations overlap.
THEOREM ReferencesAreUnique == Spec => []RefsAreUnique
<1>1. EventInv => RefsAreUnique
  BY DEF EventInv
<1> QED BY EventsHold, <1>1, PTL

\* Each event of a ticket carries a greater version than the one before it.
THEOREM EventVersionsGrow == Spec => AnnouncedVersionsGrow
<1>1. EventInv /\ [Next]_vars =>
        [\A t \in Tickets : heard'[t] # heard[t] => heard'[t].version > heard[t].version]_vars
  <2> SUFFICES ASSUME EventInv, Next
               PROVE  \A t \in Tickets : heard'[t] # heard[t] => heard'[t].version > heard[t].version
    OBVIOUS
  <2>1. StepForm
    BY EventStep
  <2> QED BY <2>1, FormsTell DEF EventInv
<1> QED BY EventsHold, <1>1, PTL DEF Spec, AnnouncedVersionsGrow

-----------------------------------------------------------------------------
(* People alone: without workflow actions that write by id, the lifecycle   *)
(* of the documentation holds.                                              *)

LEMMA PeopleStamp ==
  ASSUME Jobs = {}, LInv, TimestampsTellStatus, StepForm
  PROVE  /\ TimestampsTellStatus'
         /\ \A t \in Tickets : tickets[t].status = "CLOSED" => tickets'[t].status = "CLOSED"
<1>0. \A t \in Tickets : tickets[t].present => Stamped(tickets[t])
  BY DEF TimestampsTellStatus, Stamped, Present
<1>1. CASE Quiet
  <2>1. tickets' = tickets
    BY <1>1 DEF Quiet
  <2> QED BY <2>1 DEF TimestampsTellStatus, Present
<1>2. ASSUME NEW t \in Tickets, NEW r \in Row, Creates(t, r) \/ Overwrites(t, r)
      PROVE  /\ TimestampsTellStatus'
             /\ \A u \in Tickets : tickets[u].status = "CLOSED" => tickets'[u].status = "CLOSED"
  <2>1. tickets'[t] = r /\ \A u \in Tickets \ {t} : tickets'[u] = tickets[u]
    BY <1>2 DEF Creates, Overwrites, LInv, TypeOK
  <2>2. Stamped(r)
    <3>1. CASE Creates(t, r)
      BY <3>1 DEF Creates
    <3>2. CASE Overwrites(t, r)
      BY <1>0, <3>2 DEF Overwrites, Follows
    <3> QED BY <1>2, <3>1, <3>2
  <2>3. tickets[t].status = "CLOSED" => r.status = "CLOSED"
    <3>1. CASE Creates(t, r)
      <4>1. tickets[t].status = "NEW"
        BY <3>1 DEF Creates, LInv, AbsentIsBlank, NoRow
      <4> QED BY <4>1
    <3>2. CASE Overwrites(t, r)
      BY <3>2 DEF Overwrites, Follows, AllowedTransition, VALID_TRANSITIONS
    <3> QED BY <1>2, <3>1, <3>2
  <2>4. \A u \in Tickets : tickets'[u].present => Stamped(tickets'[u])
    BY <1>0, <2>1, <2>2
  <2>5. TimestampsTellStatus'
    BY <2>4 DEF TimestampsTellStatus, Stamped, Present
  <2> QED BY <2>1, <2>3, <2>5
<1> QED BY <1>1, <1>2 DEF StepForm

LEMMA PeopleStep ==
  ASSUME Jobs = {}, EventInv, TimestampsTellStatus, [Next]_vars
  PROVE  /\ TimestampsTellStatus'
         /\ \A t \in Tickets : tickets[t].status = "CLOSED" => tickets'[t].status = "CLOSED"
<1>1. StepForm
  BY EventStep DEF StepForm, Quiet, vars
<1> QED BY <1>1, PeopleStamp DEF EventInv

\* solved_at and closed_at tell the status as long as people alone write.
THEOREM TimestampsTell ==
  ASSUME Jobs = {}
  PROVE  Spec => []TimestampsTellStatus
<1>1. Init => TimestampsTellStatus
  BY DEF Init, TimestampsTellStatus, Present, NoRow
<1>2. EventInv /\ TimestampsTellStatus /\ [Next]_vars => TimestampsTellStatus'
  BY PeopleStep
<1> QED BY EventsHold, <1>1, <1>2, PTL DEF Spec

\* "closed is terminal" (docs/09) is true of people's commands: with workflow
\* actions, a run shows it violated.
THEOREM ClosedStaysClosed ==
  ASSUME Jobs = {}
  PROVE  Spec => ClosedIsTerminal
<1> DEFINE A == \A t \in Tickets : tickets[t].status = "CLOSED" => tickets'[t].status = "CLOSED"
<1>1. EventInv /\ TimestampsTellStatus /\ [Next]_vars => [A]_vars
  BY PeopleStep
<1> HIDE DEF A
<1>2. Spec => [][A]_vars
  BY EventsHold, TimestampsTell, <1>1, PTL DEF Spec
<1> USE DEF A
<1> QED BY <1>2 DEF ClosedIsTerminal

-----------------------------------------------------------------------------
(* Commands are atomic: TicketLifecycle implements TicketPromise.          *)
(*                                                                         *)
(* What a request writes was chosen from the row it saw (Chosen).  When it *)
(* commits, the row it saw and the row it re-read for the events are both  *)
(* the row as it is, so its reads and its write could as well have been    *)
(* one step; every step before that changes nothing the promise speaks of. *)

Chosen(c) ==
  session[c].pc \in {"loaded", "writing"} => session[c].new \in Outcomes(session[c].saw)

AtomicInv == EventInv /\ \A c \in Clients : Chosen(c)

\* A request that has loaded after a step had loaded before it, or has just.
LEMMA LoadedSince ==
  ASSUME LInv, Next, NEW c \in Clients, session'[c].pc \in {"loaded", "writing"}
  PROVE  \/ session'[c] = session[c]
         \/ ReadPrevious(c)
         \/ \E corr \in Correlations \cup {FreshCorrelation} : Load(c, corr)
<1>1. ASSUME NEW d \in Clients, PersonStep(d), ~ReadPrevious(c),
             ~ \E corr \in Correlations \cup {FreshCorrelation} : Load(c, corr)
      PROVE  session'[c] = session[c]
  <2>1. CASE d # c
    BY <1>1, <2>1 DEF PersonStep, BeginCreate, CommitCreate, View, Load, ReadPrevious,
       CommitUpdate, Abandon, LInv, TypeOK
  <2>2. CASE d = c
    <3>1. ASSUME NEW t, session' = [session EXCEPT ![c] = IdleSession(t)] PROVE FALSE
      BY <3>1 DEF IdleSession, LInv, TypeOK
    <3>2. ASSUME NEW t \in Tickets, NEW corr, BeginCreate(c, t, corr) PROVE FALSE
      BY <3>2 DEF BeginCreate, IdleSession, LInv, TypeOK
    <3>3. ASSUME NEW t \in Tickets, View(c, t) PROVE FALSE
      BY <3>3 DEF View, IdleSession, LInv, TypeOK
    <3>4. CASE CommitCreate(c) \/ CommitUpdate(c) \/ Abandon(c)
      BY <3>1, <3>4 DEF CommitCreate, CommitUpdate, Abandon
    <3> QED BY <1>1, <2>2, <3>2, <3>3, <3>4 DEF PersonStep
  <2> QED BY <2>1, <2>2
<1>2. ASSUME NEW j \in Jobs, JobStep(j) PROVE session'[c] = session[c]
  BY <1>2 DEF JobStep, JobRead, JobChangeStatus, JobAssign, JobNoop
<1> QED BY <1>1, <1>2 DEF Next

LEMMA ChosenKeeps ==
  ASSUME LInv, Next, NEW c \in Clients, Chosen(c)
  PROVE  Chosen(c)'
<1> SUFFICES ASSUME session'[c].pc \in {"loaded", "writing"}
             PROVE  session'[c].new \in Outcomes(session'[c].saw)
  BY DEF Chosen
<1>1. CASE session'[c] = session[c]
  BY <1>1 DEF Chosen
<1>2. CASE ReadPrevious(c)
  <2>1. /\ session' = [session EXCEPT ![c] = [session[c] EXCEPT !.pc = "writing",
                                                !.prev = tickets[session[c].ticket]]]
        /\ session[c].pc = "loaded"
    BY <1>2 DEF ReadPrevious
  <2>2. session'[c].new = session[c].new /\ session'[c].saw = session[c].saw
    BY <2>1 DEF LInv, TypeOK, Session
  <2> QED BY <2>1, <2>2 DEF Chosen
<1>3. ASSUME NEW corr \in Correlations \cup {FreshCorrelation}, Load(c, corr)
      PROVE  session'[c].new \in Outcomes(session'[c].saw)
  <2> DEFINE t == session[c].ticket
  <2>1. PICK r \in Outcomes(tickets[t]) :
          session' = [session EXCEPT ![c] = [session[c] EXCEPT !.pc = "loaded", !.new = r,
                                                              !.corr = corr]]
    BY <1>3 DEF Load
  <2>2. tickets[t] = session[c].saw
    BY <1>3 DEF Load, VersionMatches, LInv, Informed
  <2> HIDE DEF t
  <2>3. session'[c].new = r /\ session'[c].saw = session[c].saw
    BY <2>1 DEF LInv, TypeOK, Session
  <2> QED BY <2>1, <2>2, <2>3
<1> QED BY <1>1, <1>2, <1>3, LoadedSince

LEMMA AtomicStep == AtomicInv /\ [Next]_vars => AtomicInv'
<1> SUFFICES ASSUME AtomicInv, [Next]_vars PROVE AtomicInv'
  OBVIOUS
<1>1. EventInv'
  BY EventStep, EventStutter DEF AtomicInv
<1>2. CASE Next
  BY <1>1, <1>2, ChosenKeeps DEF AtomicInv, EventInv
<1>3. CASE UNCHANGED vars
  BY <1>1, <1>3 DEF AtomicInv, Chosen, vars
<1> QED BY <1>2, <1>3

\* What the outcome of a command is, in the words of the promise.
LEMMA OutcomeIsPromised ==
  ASSUME NEW t \in Tickets, tickets[t] \in Row, tickets[t].present,
         tickets \in [Tickets -> Row], heard \in [Tickets -> Heard],
         NEW r \in Outcomes(tickets[t]), r \in Row,
         tickets' = [tickets EXCEPT ![t] = r],
         Announce(t, EventsOf(tickets[t], r), r), misled' = misled
  PROVE  Atomic!PromiseNext \/ UNCHANGED Atomic!promiseVars
<1> DEFINE old == tickets[t]
           types == EventsOf(old, r)
<1>1. types = {} => heard' = heard
  BY DEF Announce
<1>2. types # {} => heard' = [heard EXCEPT ![t] = Atomic!Tidings(r)]
  BY DEF Announce, Atomic!Tidings
<1>3. types = {} <=> (old.status = r.status /\ old.assignee = r.assignee)
  BY DEF EventsOf
<1>4. ASSUME NEW to \in TicketStatus, AllowedTransition(old.status, to), r = TransitionTo(old, to)
      PROVE  Atomic!PromiseNext \/ UNCHANGED Atomic!promiseVars
  <2>1. CASE old.status = to
    <3>1. r = old
      BY <1>4, <2>1 DEF TransitionTo
    <3>2. tickets' = tickets /\ heard' = heard
      BY <1>1, <1>3, <3>1
    <3> QED BY <3>2 DEF Atomic!promiseVars
  <2>2. CASE old.status # to
    <3> DEFINE sv == IF to = "SOLVED" THEN TRUE ELSE IF to = "OPEN" THEN FALSE ELSE old.solved
               cl == old.closed \/ to = "CLOSED"
               sp == to = "SOLVED" \/ (old.solved /\ to # "OPEN")
    <3>1. r = [old EXCEPT !.status = to, !.solved = sv, !.closed = cl, !.version = old.version + 1]
      BY <1>4, <2>2 DEF TransitionTo
    <3>2. sv = sp
      <4>1. old.solved \in BOOLEAN
        BY DEF Row
      <4> QED BY <4>1
    <3> HIDE DEF sv, sp
    <3>3. r = [old EXCEPT !.status = to, !.solved = sp, !.closed = cl, !.version = old.version + 1]
      BY <3>1, <3>2
    <3>4. r.status = to /\ r.version = old.version + 1 /\ old.version \in Nat
      BY <3>3 DEF Row
    <3>5. to \in Atomic!VALID_TRANSITIONS[old.status]
      BY <1>4, <2>2 DEF AllowedTransition, VALID_TRANSITIONS, Atomic!VALID_TRANSITIONS
    <3>6. Atomic!WriteAndTell(t, r)
      BY <1>2, <1>3, <2>2, <3>4 DEF Atomic!WriteAndTell
    <3>7. Atomic!Move(t, to)
      BY <3>3, <3>5, <3>6 DEF Atomic!Move, sp
    <3>8. tickets'[t].version # tickets[t].version
      BY <3>4
    <3> QED BY <3>7, <3>8 DEF Atomic!PromiseNext, Atomic!TicketStatus, TicketStatus
  <2> QED BY <2>1, <2>2
<1>5. ASSUME NEW a \in Users \cup {NoUser}, r = [old EXCEPT !.assignee = a, !.version = old.version + 1]
      PROVE  Atomic!PromiseNext
  <2>1. /\ r.assignee = a /\ r.status = old.status /\ r.version = old.version + 1
        /\ old.version \in Nat
    BY <1>5 DEF Row
  <2>2. tickets'[t].version # tickets[t].version
    BY <2>1
  <2>3. CASE a = old.assignee
    <3>1. heard' = heard
      BY <1>1, <1>3, <2>1, <2>3
    <3>2. r = [old EXCEPT !.version = old.version + 1]
      BY <1>5, <2>3 DEF Row
    <3>3. Atomic!Edit(t)
      BY <3>1, <3>2 DEF Atomic!Edit
    <3> QED BY <2>2, <3>3 DEF Atomic!PromiseNext
  <2>4. CASE a # old.assignee
    <3>1. Atomic!WriteAndTell(t, r)
      BY <1>2, <1>3, <2>1, <2>4 DEF Atomic!WriteAndTell
    <3>2. Atomic!Reassign(t, a)
      BY <1>5, <2>4, <3>1 DEF Atomic!Reassign
    <3> QED BY <2>2, <3>2 DEF Atomic!PromiseNext
  <2> QED BY <2>3, <2>4
<1> HIDE DEF types
<1>6. \/ \E to \in {s \in TicketStatus : AllowedTransition(old.status, s)} : r = TransitionTo(old, to)
      \/ \E a \in Users \cup {NoUser} : r = UpdateFields(old, a)
      \/ \E a \in Users \cup {NoUser} : r = Assign(old, a)
  BY DEF Outcomes
<1> QED BY <1>4, <1>5, <1>6 DEF UpdateFields, Assign

LEMMA UpdateIsAtomic ==
  ASSUME AtomicInv, NEW c \in Clients, CommitUpdate(c)
  PROVE  Atomic!PromiseNext \/ UNCHANGED Atomic!promiseVars
<1> DEFINE t == session[c].ticket
           r == session[c].new
           types == EventsOf(session[c].prev, r)
<1>1. t \in Tickets /\ tickets[t].present /\ tickets[t] = session[c].saw
  BY CommitUpdateLands DEF AtomicInv, EventInv
<1>2. tickets[t] = session[c].prev
  BY ReadIsCurrent DEF AtomicInv, EventInv
<1>3. tickets \in [Tickets -> Row] /\ heard \in [Tickets -> Heard] /\ r \in Row
  BY DEF AtomicInv, EventInv, LInv, TypeOK, Session
<1>4. session[c].pc = "writing" /\ tickets' = [tickets EXCEPT ![t] = r]
      /\ Announce(t, types, r)
      /\ misled' = IF Misleads(t, types, session[c].prev) THEN misled \cup {"person"} ELSE misled
  BY DEF CommitUpdate
<1>5. r \in Outcomes(tickets[t])
  BY <1>1, <1>4 DEF AtomicInv, Chosen
<1> HIDE DEF t, r
<1>6. types = EventsOf(tickets[t], r) /\ misled' = misled
  BY <1>1, <1>2, <1>4 DEF Misleads, AtomicInv, EventInv, ConsumersConverge, Present
<1> HIDE DEF types
<1> QED BY <1>1, <1>3, <1>4, <1>5, <1>6, OutcomeIsPromised

LEMMA CreateIsAtomic ==
  ASSUME AtomicInv, NEW c \in Clients, CommitCreate(c)
  PROVE  Atomic!PromiseNext
<1> DEFINE t == session[c].ticket
           n == session[c].count + 1
<1>1. t \in Tickets /\ n = Cardinality({u \in Tickets : tickets[u].present}) + 1
  BY DEF AtomicInv, EventInv, LInv, TypeOK, Session, CommitCreate, CountStillHolds, Present
<1>2. PICK a \in Users \cup {NoUser} :
        /\ tickets' = [tickets EXCEPT ![t] =
                         [[NoRow EXCEPT !.present = TRUE, !.ref = n, !.version = 1]
                            EXCEPT !.assignee = a]]
        /\ Announce(t, {"ticket.created"},
                    [[NoRow EXCEPT !.present = TRUE, !.ref = n, !.version = 1]
                       EXCEPT !.assignee = a])
  BY DEF CommitCreate
<1>3. ~tickets[t].present /\ misled' = misled
  BY DEF CommitCreate
<1> DEFINE q == [[NoRow EXCEPT !.present = TRUE, !.ref = n, !.version = 1] EXCEPT !.assignee = a]
           p == [Atomic!Blank EXCEPT !.present = TRUE, !.assignee = a, !.version = 1,
                   !.ref = Cardinality({u \in Tickets : tickets[u].present}) + 1]
<1> HIDE DEF n, t
<1>4. q = p
  BY <1>1 DEF NoRow, Atomic!Blank
<1>5. tickets' = [tickets EXCEPT ![t] = q] /\ Announce(t, {"ticket.created"}, q)
  BY <1>2
<1>6. q.version = 1
  BY DEF NoRow
<1> HIDE DEF q, p
<1>7. Atomic!WriteAndTell(t, p)
  BY <1>4, <1>5 DEF Announce, Atomic!WriteAndTell, Atomic!Tidings
<1>8. Atomic!Create(t, a)
  <2>1. \A S : Atomic!Cardinality(S) = Cardinality(S)
    BY DEF Cardinality, Atomic!Cardinality
  <2>2. p = [Atomic!Blank EXCEPT !.present = TRUE, !.assignee = a, !.version = 1,
               !.ref = Atomic!Cardinality({u \in Tickets : tickets[u].present}) + 1]
    BY <2>1 DEF p
  <2> QED BY <1>3, <1>7, <2>2 DEF Atomic!Create
<1>9. tickets'[t].version = 1 /\ tickets[t].version = 0
  <2>1. tickets[t] = NoRow
    BY <1>1, <1>3 DEF AtomicInv, EventInv, LInv, AbsentIsBlank
  <2> QED BY <1>1, <1>5, <1>6, <2>1 DEF NoRow, AtomicInv, EventInv, LInv, TypeOK
<1> QED BY <1>1, <1>8, <1>9 DEF Atomic!PromiseNext

LEMMA ChangeStatusIsAtomic ==
  ASSUME AtomicInv, NEW j \in Jobs, NEW to \in AutomationTargets, JobChangeStatus(j, to)
  PROVE  Atomic!PromiseNext
<1> DEFINE t == job[j].ticket
           saw == job[j].saw
           r == [BumpVersion(tickets[t]) EXCEPT
                   !.status = to, !.solved = (to = "SOLVED") \/ saw.solved,
                   !.closed = (to = "CLOSED") \/ saw.closed]
           p == [tickets[t] EXCEPT
                   !.status = to, !.solved = to = "SOLVED" \/ saw.solved,
                   !.closed = to = "CLOSED" \/ saw.closed, !.version = tickets[t].version + 1]
<1>1. /\ tickets' = [tickets EXCEPT ![t] = r] /\ Announce(t, {"ticket.status_changed"}, r)
      /\ misled' = IF Misleads(t, {"ticket.status_changed"}, saw)
                   THEN misled \cup {"workflow"} ELSE misled
      /\ job[j].pc = "read"
  BY DEF JobChangeStatus
<1>2. /\ t \in Tickets /\ saw \in Row /\ tickets[t] \in Row /\ tickets[t].present
  BY <1>1, JobKnown DEF AtomicInv, EventInv
<1>3. saw.solved \in BOOLEAN /\ saw.closed \in BOOLEAN /\ tickets[t].version \in Nat
  BY <1>2 DEF Row
<1> HIDE DEF t, saw
<1>4. r = p
  BY <1>2 DEF BumpVersion, Row
<1>5. p.version = tickets[t].version + 1
  BY <1>2 DEF Row
<1> HIDE DEF r, p
<1>6. Atomic!WriteAndTell(t, p)
  BY <1>1, <1>4 DEF Announce, Atomic!WriteAndTell, Atomic!Tidings
<1>7. misled' \in {misled, misled \cup {"workflow"}}
  BY <1>1
<1>8. Atomic!AutomationMoves(t, to, saw.solved, saw.closed)
  BY <1>2, <1>6, <1>7 DEF Atomic!AutomationMoves, p
<1>9. tickets'[t].version # tickets[t].version
  BY <1>1, <1>2, <1>3, <1>4, <1>5 DEF AtomicInv, EventInv, LInv, TypeOK
<1> QED BY <1>2, <1>3, <1>8, <1>9 DEF Atomic!PromiseNext

LEMMA AssignIsAtomic ==
  ASSUME AtomicInv, NEW j \in Jobs, NEW a \in Users \cup {NoUser}, JobAssign(j, a)
  PROVE  Atomic!PromiseNext
<1> DEFINE t == job[j].ticket
           r == [BumpVersion(tickets[t]) EXCEPT !.assignee = a]
           p == [tickets[t] EXCEPT !.assignee = a, !.version = tickets[t].version + 1]
<1>1. /\ tickets' = [tickets EXCEPT ![t] = r] /\ Announce(t, {"ticket.assigned"}, r)
      /\ misled' = misled /\ job[j].pc = "read"
  BY DEF JobAssign
<1>2. t \in Tickets /\ tickets[t] \in Row /\ tickets[t].present
  BY <1>1, JobKnown DEF AtomicInv, EventInv
<1> HIDE DEF t
<1>3. r = p
  BY <1>2 DEF BumpVersion, Row
<1>4. p.version = tickets[t].version + 1 /\ tickets[t].version \in Nat
  BY <1>2 DEF Row
<1> HIDE DEF r, p
<1>5. Atomic!WriteAndTell(t, p)
  BY <1>1, <1>3 DEF Announce, Atomic!WriteAndTell, Atomic!Tidings
<1>6. Atomic!AutomationAssigns(t, a)
  BY <1>1, <1>2, <1>5 DEF Atomic!AutomationAssigns, p
<1>7. tickets'[t].version # tickets[t].version
  BY <1>1, <1>2, <1>3, <1>4 DEF AtomicInv, EventInv, LInv, TypeOK
<1> QED BY <1>2, <1>6, <1>7 DEF Atomic!PromiseNext

LEMMA StepIsAtomic ==
  ASSUME AtomicInv, [Next]_vars
  PROVE  Atomic!PromiseNext \/ UNCHANGED Atomic!promiseVars
<1>1. ASSUME NEW c \in Clients, PersonStep(c)
      PROVE  Atomic!PromiseNext \/ UNCHANGED Atomic!promiseVars
  <2>1. CASE CommitCreate(c)
    BY <2>1, CreateIsAtomic
  <2>2. CASE CommitUpdate(c)
    BY <2>2, UpdateIsAtomic
  <2>3. CASE ~CommitCreate(c) /\ ~CommitUpdate(c)
    BY <1>1, <2>3 DEF PersonStep, BeginCreate, View, Load, ReadPrevious, Abandon,
       Atomic!promiseVars
  <2> QED BY <2>1, <2>2, <2>3
<1>2. ASSUME NEW j \in Jobs, JobStep(j)
      PROVE  Atomic!PromiseNext \/ UNCHANGED Atomic!promiseVars
  <2>1. ASSUME NEW to \in AutomationTargets, JobChangeStatus(j, to) PROVE Atomic!PromiseNext
    BY <2>1, ChangeStatusIsAtomic
  <2>2. ASSUME NEW a \in Users \cup {NoUser}, JobAssign(j, a) PROVE Atomic!PromiseNext
    BY <2>2, AssignIsAtomic
  <2>3. CASE JobNoop(j) \/ \E t \in Tickets : JobRead(j, t)
    BY <2>3 DEF JobRead, JobNoop, Atomic!promiseVars
  <2> QED BY <1>2, <2>1, <2>2, <2>3 DEF JobStep
<1>3. CASE UNCHANGED vars
  BY <1>3 DEF vars, Atomic!promiseVars
<1> QED BY <1>1, <1>2, <1>3 DEF Next

\* A command of a person, whatever overlaps its reads and its write, takes place
\* at the moment it commits, on the ticket as it then is, and what it changes is
\* told with it: the tickets implement their promise.
THEOREM CommandsTakeOneStep == Spec => CommandsAreAtomic
<1>1. Init => AtomicInv
  BY InitHeard DEF AtomicInv, Chosen, Init, IdleSession
<1>2. Init => Atomic!PromiseInit
  BY DEF Init, NoRow, Atomic!PromiseInit, Atomic!Blank, Atomic!Tidings
<1>3. AtomicInv /\ [Next]_vars => [Atomic!PromiseNext]_(Atomic!promiseVars)
  BY StepIsAtomic
<1> QED BY <1>1, <1>2, <1>3, AtomicStep, PTL DEF Spec, CommandsAreAtomic, Atomic!PromiseSpec

-----------------------------------------------------------------------------
(* What things are filed under                                             *)

\* The two kinds whose rows stay when deleted and whose checks cover every way
\* in: only of these is the consistency argued by who was alone.  (Foreign keys
\* keep the kinds whose rows go, whoever overlaps.)
Judged == tree \in {"asset_type", "service_category"}

Flat == tree \in {"asset_type", "asset_location"}

\* What foreign keys and the kind of deletion keep, whoever overlaps.
RowsStand ==
  /\ tree \in HardDeleted => \A n \in Nodes : node[n] # "deleted"
  /\ \A n \in Nodes : RowOrNone(parentOf[n])
  /\ Flat => \A n \in Nodes : parentOf[n] = NoNode

\* A request q in progress is about rows that there are, or were.
CallIs(q) ==
  /\ q.pc = "idle" <=> q.op = "none"
  /\ q.op # "none" => q.node \in Nodes
  /\ q.op = "add" => /\ q.pc = "checked"
                     /\ q.under # q.node
                     /\ Flat => q.under = NoNode
  /\ q.op = "move" => ~Flat /\ (q.pc = "begun" => tree = "service_category")
  /\ q.op \in {"move", "remove"} /\ tree \notin HardDeleted => node[q.node] # "absent"
  /\ q.op = "file" => q.pc = "checked" /\ q.thing \in Things

\* What the request q has checked is still so, unless another wrote since.
ChecksHold(q) ==
  Judged /\ q.alone =>
    /\ q.op \in {"add", "move"} => LiveOrNone(q.under)
    /\ q.op \in {"move", "remove"} => node[q.node] = "live"
    /\ q.op = "move" /\ q.pc = "checked" => q.under \notin Descendants(q.node)
    /\ q.op = "remove" /\ tree = "service_category" => Unused(q.node)
    /\ q.op = "remove" /\ q.pc = "checked" =>
         /\ Unused(q.node)
         /\ tree = "service_category" => LiveChildren(q.node) = {}
    /\ q.op = "file" => node[q.node] = "live"

AllFiled == HomesAreLive /\ ParentsAreLive /\ NoServiceCycle

TaxInv ==
  /\ TaxonomyTypeOK
  /\ RowsStand
  /\ HomesExist
  /\ \A c \in Clerks : CallIs(clerk[c]) /\ ChecksHold(clerk[c])
  /\ overlapped \/ ~Judged \/ AllFiled

\* What the tree is asked depends on the rows and homes alone.
LEMMA TreeAnswers ==
  ASSUME UNCHANGED <<tree, node, parentOf, home>>
  PROVE  /\ \A n \in Nodes : /\ LiveChildren(n)' = LiveChildren(n)
                             /\ Descendants(n)' = Descendants(n)
                             /\ Unused(n)' <=> Unused(n)
         /\ RowsStand' <=> RowsStand
         /\ HomesExist' <=> HomesExist
         /\ AllFiled' <=> AllFiled
         /\ Judged' <=> Judged
<1>1. \A n \in Nodes : LiveChildren(n)' = LiveChildren(n)
  BY DEF LiveChildren
<1>2. \A n \in Nodes : Descendants(n)' = Descendants(n)
  BY DEF Descendants, LiveChildren
<1>3. \A n \in Nodes : Unused(n)' <=> Unused(n)
  BY DEF Unused
<1>4. RowsStand' <=> RowsStand
  BY DEF RowsStand, RowOrNone, Flat
<1>5. /\ HomesExist' <=> HomesExist
      /\ AllFiled' <=> AllFiled
      /\ Judged' <=> Judged
  BY DEF HomesExist, HomesAreLive, LiveOrNone, AllFiled, ParentsAreLive, NoServiceCycle, Judged
<1> QED BY <1>1, <1>2, <1>3, <1>4, <1>5

\* Where nothing is written, a request says what it said.
LEMMA CallStays ==
  ASSUME UNCHANGED <<tree, node, parentOf, home>>, NEW q \in Clerk
  PROVE  /\ CallIs(q)' <=> CallIs(q)
         /\ ChecksHold(q) /\ CallIs(q) => ChecksHold(q)'
<1>1. CallIs(q)' <=> CallIs(q)
  BY DEF CallIs, Flat
<1>2. ASSUME ChecksHold(q), CallIs(q) PROVE ChecksHold(q)'
  <2>1. CASE q.op = "none"
    BY <2>1 DEF ChecksHold
  <2>2. CASE q.op # "none"
    <3>1. q.node \in Nodes
      BY <1>2, <2>2 DEF CallIs
    <3>2. /\ LiveChildren(q.node)' = LiveChildren(q.node)
          /\ Descendants(q.node)' = Descendants(q.node)
          /\ Unused(q.node)' <=> Unused(q.node)
          /\ Judged' <=> Judged
      BY <3>1, TreeAnswers
    <3> QED BY <1>2, <3>2 DEF ChecksHold, LiveOrNone
  <2> QED BY <2>1, <2>2
<1> QED BY <1>1, <1>2

\* A step of one request that writes nothing, for which the request, as it goes
\* on, has checked what it says.
LEMMA ClerkGoesOn ==
  ASSUME TaxInv, NEW c \in Clerks, NEW q \in Clerk,
         clerk' = [clerk EXCEPT ![c] = q],
         UNCHANGED <<tree, node, parentOf, home, overlapped>>,
         CallIs(q), ChecksHold(q)
  PROVE  TaxInv'
<1>1. TaxonomyTypeOK'
  BY DEF TaxInv, TaxonomyTypeOK
<1>2. RowsStand' /\ HomesExist' /\ (overlapped \/ ~Judged \/ AllFiled)'
  BY TreeAnswers DEF TaxInv
<1>3. ASSUME NEW d \in Clerks PROVE CallIs(clerk[d])' /\ ChecksHold(clerk[d])'
  <2>1. PICK r \in Clerk : r = clerk'[d] /\ CallIs(r) /\ ChecksHold(r)
    <3>1. CASE d = c
      BY <3>1 DEF TaxInv, TaxonomyTypeOK
    <3>2. CASE d # c
      BY <3>2 DEF TaxInv, TaxonomyTypeOK
    <3> QED BY <3>1, <3>2
  <2>2. CallIs(r)' /\ ChecksHold(r)'
    BY <2>1, CallStays
  <2>3. CallIs(clerk[d])'
    BY <2>1, <2>2 DEF CallIs, Flat
  <2>4. ChecksHold(clerk[d])'
    BY <2>1, <2>2 DEF ChecksHold, Judged, LiveOrNone, LiveChildren, Unused, Descendants
  <2> QED BY <2>3, <2>4
<1> QED BY <1>1, <1>2, <1>3 DEF TaxInv

\* A request ends: those in progress lose what they have checked if it wrote.
LEMMA ClerkEnds ==
  ASSUME TaxInv, NEW c \in Clerks, NEW wrote \in BOOLEAN, EndCall(c, wrote),
         tree' = tree,
         node' \in [Nodes -> {"absent", "live", "deleted"}],
         parentOf' \in [Nodes -> Nodes \cup {NoNode}],
         home' \in [Things -> Nodes \cup {NoNode}],
         RowsStand', HomesExist',
         tree \notin HardDeleted =>
           \A n \in Nodes : node[n] # "absent" => node'[n] # "absent",
         Judged /\ ~wrote => UNCHANGED <<node, parentOf, home>>,
         Judged /\ ~overlapped /\ wrote /\ clerk[c].alone => AllFiled'
  PROVE  TaxInv'
<1>1. NoClerk \in Clerk
  BY DEF NoClerk, Clerk
<1>2. TaxonomyTypeOK'
  <2>1. clerk' \in [Clerks -> Clerk]
    <3>1. \A r \in Clerk : [r EXCEPT !.alone = FALSE] \in Clerk
      BY DEF Clerk
    <3>2. \A d \in Clerks : clerk[d] \in Clerk
      BY DEF TaxInv, TaxonomyTypeOK
    <3>3. clerk' = [d \in Clerks |->
                      IF d = c THEN NoClerk
                      ELSE IF wrote /\ clerk[d].pc # "idle" THEN [clerk[d] EXCEPT !.alone = FALSE]
                      ELSE clerk[d]]
      BY DEF EndCall
    <3> QED BY <1>1, <3>1, <3>2, <3>3
  <2>2. overlapped' \in BOOLEAN
    BY DEF EndCall
  <2> QED BY <2>1, <2>2 DEF TaxInv, TaxonomyTypeOK
<1>3. (overlapped \/ ~Judged \/ AllFiled)'
  <2>1. Judged' <=> Judged
    BY DEF Judged
  <2>2. CASE ~wrote /\ Judged
    BY <2>2, TreeAnswers DEF TaxInv, EndCall
  <2>3. CASE wrote /\ Judged
    BY <2>1, <2>3 DEF TaxInv, EndCall
  <2> QED BY <2>1, <2>2, <2>3
<1>4. ASSUME NEW d \in Clerks PROVE CallIs(clerk[d])' /\ ChecksHold(clerk[d])'
  <2>1. CASE d = c
    <3>1. clerk'[d] = NoClerk
      BY <2>1 DEF EndCall
    <3>2. CallIs(clerk[d])'
      BY <3>1 DEF CallIs, NoClerk
    <3>3. ChecksHold(clerk[d])'
      BY <3>1 DEF ChecksHold, NoClerk
    <3> QED BY <3>2, <3>3
  <2>2. CASE d # c
    <3>1. PICK q \in Clerk : q = clerk[d] /\ CallIs(q) /\ ChecksHold(q)
      BY DEF TaxInv, TaxonomyTypeOK
    <3>2. PICK r \in Clerk : r = clerk'[d]
      BY <1>2 DEF TaxonomyTypeOK
    <3>3. /\ r.pc = q.pc /\ r.op = q.op /\ r.node = q.node /\ r.under = q.under
          /\ r.thing = q.thing
          /\ wrote /\ q.pc # "idle" => ~r.alone
          /\ ~wrote => r = q
      BY <2>2, <3>1, <3>2 DEF EndCall, Clerk
    <3>4. CallIs(r)'
      BY <3>1, <3>3 DEF CallIs, Flat
    <3>5. ChecksHold(r)'
      <4>1. CASE wrote
        <5>1. r.op = "none" \/ ~r.alone
          BY <3>1, <3>3, <4>1 DEF CallIs
        <5> QED BY <5>1 DEF ChecksHold
      <4>2. CASE ~wrote /\ Judged
        <5>1. ChecksHold(q)'
          BY <3>1, <4>2, CallStays
        <5> QED BY <3>3, <4>2, <5>1
      <4>3. CASE ~Judged
        BY <4>3 DEF ChecksHold, Judged
      <4> QED BY <4>1, <4>2, <4>3
    <3>6. CallIs(clerk[d])'
      BY <3>2, <3>4 DEF CallIs, Flat
    <3>7. ChecksHold(clerk[d])'
      BY <3>2, <3>5 DEF ChecksHold, Judged, LiveOrNone, LiveChildren, Unused, Descendants
    <3> QED BY <3>6, <3>7
  <2> QED BY <2>1, <2>2
<1> QED BY <1>2, <1>3, <1>4 DEF TaxInv

-----------------------------------------------------------------------------
(* Requests begin and check                                                *)

LEMMA ChildIsLive ==
  ASSUME NEW n \in Nodes, NEW m \in LiveChildren(n)
  PROVE  m \in Nodes /\ node[m] = "live" /\ parentOf[m] = n
BY DEF LiveChildren

LEMMA AddBegins ==
  ASSUME TaxInv, NEW c \in Clerks, NEW p \in Nodes \cup {NoNode}, BeginAdd(c, p),
         Flat => p = NoNode, Judged => LiveOrNone(p)
  PROVE  TaxInv'
<1> DEFINE fresh == {n \in Nodes : node[n] = "absent" /\ \A d \in Clerks : clerk[d].node # n}
<1> DEFINE new == CHOOSE n \in fresh : TRUE
<1>1. new \in Nodes /\ p # new
  BY DEF BeginAdd
<1>2. clerk' = [clerk EXCEPT ![c] =
        [NoClerk EXCEPT !.op = "add", !.pc = "checked", !.node = new, !.under = p]]
  BY DEF BeginAdd, BeginCall
<1> HIDE DEF new, fresh
<1>3. PICK q \in Clerk :
        q = [NoClerk EXCEPT !.op = "add", !.pc = "checked", !.node = new, !.under = p]
  BY <1>1 DEF NoClerk, Clerk
<1>4. q.op = "add" /\ q.pc = "checked" /\ q.node = new /\ q.under = p
  BY <1>3 DEF NoClerk
<1>5. CallIs(q)
  BY <1>1, <1>4 DEF CallIs
<1>6. ChecksHold(q)
  BY <1>4 DEF ChecksHold
<1>7. UNCHANGED <<tree, node, parentOf, home, overlapped>>
  BY DEF BeginAdd
<1> QED BY <1>2, <1>3, <1>5, <1>6, <1>7, ClerkGoesOn

LEMMA AddStep ==
  ASSUME TaxInv, NEW c \in Clerks, Add(c)
  PROVE  TaxInv'
<1>1. CASE AddAssetType(c)
  BY <1>1, AddBegins DEF AddAssetType, LiveOrNone
<1>2. CASE AddAssetLocation(c)
  BY <1>2, AddBegins DEF AddAssetLocation, LiveOrNone
<1>3. ASSUME NEW p \in Nodes \cup {NoNode},
             AddAssetCategory(c, p) \/ AddServiceCategory(c, p) \/ AddKbCategory(c, p)
      PROVE  TaxInv'
  <2>1. BeginAdd(c, p) /\ ~Flat /\ (Judged => LiveOrNone(p))
    BY <1>3 DEF AddAssetCategory, AddServiceCategory, AddKbCategory, Flat, Judged
  <2> QED BY <2>1, AddBegins
<1> QED BY <1>1, <1>2, <1>3 DEF Add

LEMMA MoveBegins ==
  ASSUME TaxInv, NEW c \in Clerks, NEW n \in Nodes, NEW p \in Nodes \cup {NoNode},
         NEW pc \in {"begun", "checked"}, BeginMove(c, n, p, pc), ~Flat,
         tree = "service_category" <=> pc = "begun"
  PROVE  TaxInv'
<1>1. PICK q \in Clerk :
        q = [NoClerk EXCEPT !.op = "move", !.pc = pc, !.node = n, !.under = p]
  BY DEF NoClerk, Clerk
<1>2. q.op = "move" /\ q.pc = pc /\ q.node = n /\ q.under = p
  BY <1>1 DEF NoClerk
<1>3. clerk' = [clerk EXCEPT ![c] = q] /\ UNCHANGED <<tree, node, parentOf, home, overlapped>>
  BY <1>1 DEF BeginMove, BeginCall
<1>4. CallIs(q)
  BY <1>2 DEF CallIs, BeginMove
<1>5. ChecksHold(q)
  BY <1>2 DEF ChecksHold, BeginMove, Judged, Flat
<1> QED BY <1>3, <1>4, <1>5, ClerkGoesOn

LEMMA MoveStep ==
  ASSUME TaxInv, NEW c \in Clerks, Move(c)
  PROVE  TaxInv'
<1>1. PICK n \in Nodes, p \in Nodes \cup {NoNode} :
        MoveAssetCategory(c, n, p) \/ MoveServiceCategory(c, n, p) \/ MoveKbCategory(c, n, p)
  BY DEF Move
<1>2. ~Flat
  BY <1>1 DEF MoveAssetCategory, MoveServiceCategory, MoveKbCategory, Flat
<1>3. CASE MoveServiceCategory(c, n, p)
  BY <1>2, <1>3, MoveBegins DEF MoveServiceCategory
<1>4. CASE MoveAssetCategory(c, n, p) \/ MoveKbCategory(c, n, p)
  BY <1>2, <1>4, MoveBegins DEF MoveAssetCategory, MoveKbCategory
<1> QED BY <1>1, <1>3, <1>4

LEMMA RemoveStep ==
  ASSUME TaxInv, NEW c \in Clerks, Remove(c)
  PROVE  TaxInv'
<1>1. PICK n \in Nodes :
        /\ BeginRemove(c, n)
        /\ tree = "service_category" => Unused(n)
  BY DEF Remove, RemoveAssetType, RemoveAssetLocation, RemoveAssetCategory,
         RemoveServiceCategory, RemoveKbCategory
<1>2. PICK q \in Clerk : q = [NoClerk EXCEPT !.op = "remove", !.pc = "begun", !.node = n]
  BY DEF NoClerk, Clerk
<1>3. q.op = "remove" /\ q.pc = "begun" /\ q.node = n
  BY <1>2 DEF NoClerk
<1>4. clerk' = [clerk EXCEPT ![c] = q] /\ UNCHANGED <<tree, node, parentOf, home, overlapped>>
  BY <1>1, <1>2 DEF BeginRemove, BeginCall
<1>5. node[n] = "live"
  BY <1>1 DEF BeginRemove
<1>6. CallIs(q)
  BY <1>3, <1>5 DEF CallIs
<1>7. ChecksHold(q)
  BY <1>1, <1>3, <1>5 DEF ChecksHold
<1> QED BY <1>4, <1>6, <1>7, ClerkGoesOn

LEMMA FileStep ==
  ASSUME TaxInv, NEW c \in Clerks, File(c)
  PROVE  TaxInv'
<1>1. PICK t \in Things, n \in Nodes :
        /\ BeginFile(c, t, n)
        /\ Judged => node[n] = "live"
  BY DEF File, FileNewAsset, RefileAsset, FileService, FileArticle, Judged
<1>2. PICK q \in Clerk :
        q = [NoClerk EXCEPT !.op = "file", !.pc = "checked", !.node = n, !.thing = t]
  BY DEF NoClerk, Clerk
<1>3. q.op = "file" /\ q.pc = "checked" /\ q.node = n /\ q.thing = t
  BY <1>2 DEF NoClerk
<1>4. clerk' = [clerk EXCEPT ![c] = q] /\ UNCHANGED <<tree, node, parentOf, home, overlapped>>
  BY <1>1, <1>2 DEF BeginFile, BeginCall
<1>5. CallIs(q)
  BY <1>3 DEF CallIs
<1>6. ChecksHold(q)
  BY <1>1, <1>3 DEF ChecksHold
<1> QED BY <1>4, <1>5, <1>6, ClerkGoesOn

\* A request that has been checked goes on with what it has found, or ends.
LEMMA CheckStep ==
  ASSUME TaxInv, NEW c \in Clerks, NEW ok \in BOOLEAN, GoOn(c, ok),
         clerk[c].op \in {"move", "remove"}, clerk[c].pc = "begun",
         UNCHANGED <<tree, node, parentOf, home, overlapped>>,
         ok /\ Judged /\ clerk[c].op = "move" => clerk[c].under \notin Descendants(clerk[c].node),
         ok /\ Judged /\ clerk[c].op = "remove" => 
           /\ Unused(clerk[c].node) \/ tree = "service_category"
           /\ tree = "service_category" => LiveChildren(clerk[c].node) = {}
  PROVE  TaxInv'
<1>1. PICK old \in Clerk : old = clerk[c] /\ CallIs(old) /\ ChecksHold(old)
  BY DEF TaxInv, TaxonomyTypeOK
<1>2. CASE ok
  <2>1. PICK q \in Clerk : q = [old EXCEPT !.pc = "checked"]
    BY DEF Clerk
  <2>2. clerk' = [clerk EXCEPT ![c] = q]
    BY <1>1, <1>2, <2>1 DEF GoOn
  <2>3. /\ q.pc = "checked" /\ q.op = old.op /\ q.node = old.node /\ q.under = old.under
        /\ q.thing = old.thing /\ q.alone = old.alone
    BY <2>1 DEF Clerk
  <2>4. CallIs(q)
    BY <1>1, <2>3 DEF CallIs
  <2>5. ChecksHold(q)
    BY <1>1, <1>2, <2>3 DEF ChecksHold
  <2> QED BY <2>2, <2>4, <2>5, ClerkGoesOn
<1>3. CASE ~ok
  <2>1. NoClerk \in Clerk
    BY DEF NoClerk, Clerk
  <2>2. clerk' = [clerk EXCEPT ![c] = NoClerk]
    BY <1>3 DEF GoOn
  <2>3. CallIs(NoClerk)
    BY DEF CallIs, NoClerk
  <2>4. ChecksHold(NoClerk)
    BY DEF ChecksHold, NoClerk
  <2> QED BY <2>1, <2>2, <2>3, <2>4, ClerkGoesOn
<1> QED BY <1>2, <1>3

-----------------------------------------------------------------------------
(* Requests write                                                          *)

LEMMA AddWriteStep ==
  ASSUME TaxInv, NEW c \in Clerks, AddWrite(c)
  PROVE  TaxInv'
<1>1. PICK q \in Clerk : q = clerk[c] /\ CallIs(q) /\ ChecksHold(q)
  BY DEF TaxInv, TaxonomyTypeOK
<1> DEFINE ok == node[q.node] = "absent" /\ RowOrNone(q.under)
<1>2. /\ q.op = "add" /\ q.node \in Nodes /\ q.under \in Nodes \cup {NoNode}
      /\ q.under # q.node /\ (Flat => q.under = NoNode)
  BY <1>1 DEF AddWrite, At, CallIs, Clerk
<1>3. /\ node' = IF ok THEN [node EXCEPT ![q.node] = "live"] ELSE node
      /\ parentOf' = IF ok THEN [parentOf EXCEPT ![q.node] = q.under] ELSE parentOf
      /\ EndCall(c, ok) /\ tree' = tree /\ home' = home
  BY <1>1 DEF AddWrite
<1>4. CASE ~ok
  <2>1. UNCHANGED <<tree, node, parentOf, home>>
    BY <1>3, <1>4
  <2>2. RowsStand' /\ HomesExist'
    BY <2>1, TreeAnswers DEF TaxInv
  <2>3. EndCall(c, FALSE)
    BY <1>3, <1>4
  <2> QED BY <2>1, <2>2, <2>3, ClerkEnds DEF TaxInv, TaxonomyTypeOK
<1>5. CASE ok
  <2>1. /\ node' = [node EXCEPT ![q.node] = "live"]
        /\ parentOf' = [parentOf EXCEPT ![q.node] = q.under]
        /\ EndCall(c, TRUE) /\ tree' = tree /\ home' = home
    BY <1>3, <1>5
  <2>2. /\ node[q.node] = "absent"
        /\ q.under # NoNode => node[q.under] # "absent"
    BY <1>5 DEF RowOrNone
  <2> HIDE DEF ok
  <2>3. /\ node' \in [Nodes -> {"absent", "live", "deleted"}]
        /\ parentOf' \in [Nodes -> Nodes \cup {NoNode}]
        /\ home' \in [Things -> Nodes \cup {NoNode}]
    BY <1>2, <2>1 DEF TaxInv, TaxonomyTypeOK
  <2>4. \A n \in Nodes : node'[n] = IF n = q.node THEN "live" ELSE node[n]
    BY <2>1 DEF TaxInv, TaxonomyTypeOK
  <2>5. \A n \in Nodes : parentOf'[n] = IF n = q.node THEN q.under ELSE parentOf[n]
    BY <2>1 DEF TaxInv, TaxonomyTypeOK
  <2>6. RowsStand'
    <3>1. (tree \in HardDeleted => \A n \in Nodes : node[n] # "deleted")'
      BY <2>1, <2>4 DEF TaxInv, RowsStand, HardDeleted
    <3>2. ASSUME NEW n \in Nodes PROVE RowOrNone(parentOf[n])'
      <4>1. parentOf[n] # NoNode => parentOf[n] \in Nodes /\ node[parentOf[n]] # "absent"
        BY DEF TaxInv, TaxonomyTypeOK, RowsStand, RowOrNone
      <4> QED BY <1>2, <2>2, <2>4, <2>5, <4>1 DEF RowOrNone
    <3>3. (Flat => \A n \in Nodes : parentOf[n] = NoNode)'
      BY <1>2, <2>1, <2>5 DEF TaxInv, RowsStand, Flat
    <3> QED BY <3>1, <3>2, <3>3 DEF RowsStand
  <2>7. HomesAreLive => HomesAreLive'
    BY <2>1, <2>4 DEF HomesAreLive, LiveOrNone, TaxInv, TaxonomyTypeOK
  <2>8. HomesExist'
    BY <2>1, <2>7 DEF TaxInv, HomesExist
  <2>9. ASSUME Judged, ~overlapped, clerk[c].alone PROVE AllFiled'
    <3>1. AllFiled
      BY <2>9 DEF TaxInv
    <3>2. LiveOrNone(q.under)
      BY <1>1, <1>2, <2>9 DEF ChecksHold
    <3>3. ASSUME NEW n \in Nodes, node'[n] = "live" PROVE LiveOrNone(parentOf[n])'
      <4>1. CASE n = q.node
        BY <1>2, <2>4, <2>5, <3>2, <4>1 DEF LiveOrNone
      <4>2. CASE n # q.node
        <5>1. parentOf'[n] = parentOf[n] /\ parentOf[n] \in Nodes \cup {NoNode}
          BY <2>5, <4>2 DEF TaxInv, TaxonomyTypeOK
        <5>2. parentOf[n] # NoNode => node[parentOf[n]] = "live"
          BY <2>4, <3>1, <3>3, <4>2 DEF AllFiled, ParentsAreLive, LiveOrNone
        <5> QED BY <2>4, <5>1, <5>2 DEF LiveOrNone
      <4> QED BY <4>1, <4>2
    <3>4. ParentsAreLive'
      BY <3>3 DEF ParentsAreLive
    <3>5. NoServiceCycle'
      <4> SUFFICES ASSUME tree = "service_category", NEW S \in (SUBSET Nodes) \ {{}},
                          \A n \in S : parentOf'[n] \in S
                   PROVE  FALSE
        BY <2>1 DEF NoServiceCycle
      <4>1. \A n \in S : n # q.node => parentOf[n] \in S
        BY <2>5
      <4>2. PICK T \in SUBSET Nodes : T = S \ {q.node}
        OBVIOUS
      <4>3. T # {}
        <5>1. CASE q.node \in S
          <6>1. q.under \in S
            BY <1>2, <2>5, <5>1
          <6> QED BY <1>2, <4>2, <6>1
        <5>2. CASE q.node \notin S
          BY <4>2, <5>2
        <5> QED BY <5>1, <5>2
      <4>4. PICK n \in T : parentOf[n] \notin T
        BY <3>1, <4>2, <4>3 DEF AllFiled, NoServiceCycle
      <4>5. parentOf[n] = q.node
        BY <4>1, <4>2, <4>4
      <4>6. RowOrNone(parentOf[n])
        BY <4>2, <4>4 DEF TaxInv, RowsStand
      <4> QED BY <1>2, <2>2, <4>5, <4>6, TaxonomyConstants DEF RowOrNone
    <3> QED BY <2>7, <3>1, <3>4, <3>5 DEF AllFiled
  <2>10. \A n \in Nodes : node[n] # "absent" => node'[n] # "absent"
    BY <2>4
  <2> QED BY <2>1, <2>3, <2>6, <2>8, <2>9, <2>10, ClerkEnds
<1> QED BY <1>4, <1>5

\* listDescendantIds finds whatever is live below.
LEMMA DescendantsAreClosed ==
  ASSUME NEW n \in Nodes
  PROVE  /\ n \in Descendants(n)
         /\ \A m \in Descendants(n) : LiveChildren(m) \subseteq Descendants(n)
<1>1. n \in Descendants(n)
  BY DEF Descendants
<1>2. ASSUME NEW m \in Descendants(n), NEW x \in LiveChildren(m)
      PROVE  x \in Descendants(n)
  <2>1. x \in Nodes
    BY DEF LiveChildren
  <2>2. ASSUME NEW S \in SUBSET Nodes, n \in S, \A y \in S : LiveChildren(y) \subseteq S
        PROVE  x \in S
    <3>1. m \in S
      BY <2>2 DEF Descendants
    <3> QED BY <2>2, <3>1
  <2> QED BY <2>1, <2>2 DEF Descendants
<1> QED BY <1>1, <1>2

LEMMA MoveWriteStep ==
  ASSUME TaxInv, NEW c \in Clerks, MoveWrite(c)
  PROVE  TaxInv'
<1>1. PICK q \in Clerk : q = clerk[c] /\ CallIs(q) /\ ChecksHold(q)
  BY DEF TaxInv, TaxonomyTypeOK
<1> DEFINE ok == node[q.node] = "live" /\ RowOrNone(q.under)
<1>2. /\ q.op = "move" /\ q.pc = "checked" /\ q.node \in Nodes
      /\ q.under \in Nodes \cup {NoNode} /\ ~Flat
  BY <1>1 DEF MoveWrite, At, CallIs, Clerk
<1>3. /\ parentOf' = IF ok THEN [parentOf EXCEPT ![q.node] = q.under] ELSE parentOf
      /\ EndCall(c, ok) /\ tree' = tree /\ home' = home /\ node' = node
  BY <1>1 DEF MoveWrite
<1>4. CASE ~ok
  <2>1. UNCHANGED <<tree, node, parentOf, home>>
    BY <1>3, <1>4
  <2>2. RowsStand' /\ HomesExist'
    BY <2>1, TreeAnswers DEF TaxInv
  <2>3. EndCall(c, FALSE)
    BY <1>3, <1>4
  <2> QED BY <2>1, <2>2, <2>3, ClerkEnds DEF TaxInv, TaxonomyTypeOK
<1>5. CASE ok
  <2>1. /\ parentOf' = [parentOf EXCEPT ![q.node] = q.under]
        /\ EndCall(c, TRUE) /\ tree' = tree /\ home' = home /\ node' = node
    BY <1>3, <1>5
  <2>2. RowOrNone(q.under)
    BY <1>5
  <2> HIDE DEF ok
  <2>3. /\ node' \in [Nodes -> {"absent", "live", "deleted"}]
        /\ parentOf' \in [Nodes -> Nodes \cup {NoNode}]
        /\ home' \in [Things -> Nodes \cup {NoNode}]
    BY <1>2, <2>1 DEF TaxInv, TaxonomyTypeOK
  <2>5. \A n \in Nodes : parentOf'[n] = IF n = q.node THEN q.under ELSE parentOf[n]
    BY <2>1 DEF TaxInv, TaxonomyTypeOK
  <2>6. RowsStand'
    <3>1. ASSUME NEW n \in Nodes PROVE RowOrNone(parentOf[n])'
      BY <2>1, <2>2, <2>5 DEF RowOrNone, TaxInv, RowsStand
    <3> QED BY <1>2, <2>1, <3>1 DEF TaxInv, RowsStand, Flat
  <2>7. HomesExist' /\ (HomesAreLive' <=> HomesAreLive)
    BY <2>1 DEF TaxInv, HomesExist, HomesAreLive, LiveOrNone
  <2>8. ASSUME Judged, ~overlapped, clerk[c].alone PROVE AllFiled'
    <3>1. AllFiled
      BY <2>8 DEF TaxInv
    <3>2. tree = "service_category"
      BY <1>2, <2>8 DEF Judged, Flat
    <3>3. LiveOrNone(q.under) /\ q.under \notin Descendants(q.node)
      BY <1>1, <1>2, <2>8 DEF ChecksHold
    <3>4. ParentsAreLive'
      BY <2>1, <2>5, <3>1, <3>3 DEF AllFiled, ParentsAreLive, LiveOrNone
    <3>5. NoServiceCycle'
      <4> SUFFICES ASSUME NEW S \in (SUBSET Nodes) \ {{}}, \A n \in S : parentOf'[n] \in S
                   PROVE  FALSE
        BY DEF NoServiceCycle
      <4>1. \A n \in S : n # q.node => parentOf[n] \in S
        BY <2>5
      <4>2. PICK T \in SUBSET Nodes :
              T = {m \in S : m \notin Descendants(q.node) /\ node[m] = "live"}
        OBVIOUS
      <4>3. q.node \in S
        BY <3>1, <3>2, <4>1 DEF AllFiled, NoServiceCycle
      <4>4. q.under \in S
        BY <1>2, <2>5, <4>3
      <4>5. q.under \in T
        BY <3>3, <4>2, <4>4, TaxonomyConstants DEF LiveOrNone
      <4>6. PICK m \in T : parentOf[m] \notin T
        BY <3>1, <3>2, <4>5 DEF AllFiled, NoServiceCycle
      <4>7. m \in Nodes /\ m # q.node /\ node[m] = "live"
        BY <1>2, <4>2, <4>6, DescendantsAreClosed
      <4>8. parentOf[m] \in S
        BY <4>1, <4>2, <4>6, <4>7
      <4>9. parentOf[m] \in Nodes /\ node[parentOf[m]] = "live"
        BY <3>1, <4>7, <4>8, TaxonomyConstants DEF AllFiled, ParentsAreLive, LiveOrNone
      <4>10. parentOf[m] \in Descendants(q.node)
        BY <4>2, <4>6, <4>8, <4>9
      <4>11. m \in LiveChildren(parentOf[m])
        BY <4>7 DEF LiveChildren
      <4>12. m \in Descendants(q.node)
        BY <1>2, <4>10, <4>11, DescendantsAreClosed
      <4> QED BY <4>2, <4>6, <4>12
    <3> QED BY <2>7, <3>1, <3>4, <3>5 DEF AllFiled
  <2> QED BY <2>1, <2>3, <2>6, <2>7, <2>8, ClerkEnds
<1> QED BY <1>4, <1>5

LEMMA RemoveSoftlyStep ==
  ASSUME TaxInv, NEW c \in Clerks, RemoveSoftly(c)
  PROVE  TaxInv'
<1>1. PICK q \in Clerk : q = clerk[c] /\ CallIs(q) /\ ChecksHold(q)
  BY DEF TaxInv, TaxonomyTypeOK
<1>2. /\ q.op = "remove" /\ q.pc = "checked" /\ q.node \in Nodes
      /\ tree \notin HardDeleted /\ node[q.node] # "absent"
  BY <1>1 DEF RemoveSoftly, At, CallIs
<1>3. PICK wrote \in BOOLEAN : (wrote <=> node[q.node] = "live")
  OBVIOUS
<1>4. /\ node' = [node EXCEPT ![q.node] = "deleted"]
      /\ EndCall(c, node[q.node] = "live") /\ tree' = tree /\ home' = home /\ parentOf' = parentOf
  BY <1>1 DEF RemoveSoftly
<1>5. EndCall(c, wrote)
  BY <1>3, <1>4 DEF EndCall
<1>6. \A n \in Nodes : node'[n] = IF n = q.node THEN "deleted" ELSE node[n]
  BY <1>4 DEF TaxInv, TaxonomyTypeOK
<1>7. /\ node' \in [Nodes -> {"absent", "live", "deleted"}]
      /\ parentOf' \in [Nodes -> Nodes \cup {NoNode}]
      /\ home' \in [Things -> Nodes \cup {NoNode}]
  BY <1>2, <1>4 DEF TaxInv, TaxonomyTypeOK
<1>8. RowsStand'
  <2>1. ASSUME NEW n \in Nodes PROVE RowOrNone(parentOf[n])'
    <3>1. parentOf[n] # NoNode => parentOf[n] \in Nodes /\ node[parentOf[n]] # "absent"
      BY DEF TaxInv, TaxonomyTypeOK, RowsStand, RowOrNone
    <3> QED BY <1>4, <1>6, <3>1 DEF RowOrNone
  <2> QED BY <1>2, <1>4, <2>1 DEF TaxInv, RowsStand, Flat
<1>9. HomesExist'
  BY <1>2, <1>4 DEF HomesExist
<1>10. \A n \in Nodes : node[n] # "absent" => node'[n] # "absent"
  BY <1>6
<1>11. ~wrote => node' = node
  <2>1. ~wrote => node[q.node] = "deleted"
    BY <1>2, <1>3 DEF TaxInv, TaxonomyTypeOK
  <2>2. ~wrote => \A n \in Nodes : node'[n] = node[n]
    BY <1>6, <2>1
  <2> QED BY <1>7, <2>2 DEF TaxInv, TaxonomyTypeOK
<1>12. ASSUME Judged, ~overlapped, clerk[c].alone PROVE AllFiled'
  <2>1. AllFiled
    BY <1>12 DEF TaxInv
  <2>2. /\ Unused(q.node)
        /\ tree = "service_category" => LiveChildren(q.node) = {}
    BY <1>1, <1>2, <1>12 DEF ChecksHold
  <2>3. HomesAreLive'
    <3>1. \A t \in Things : home[t] # q.node /\ home[t] \in Nodes \cup {NoNode}
      BY <2>2 DEF Unused, TaxInv, TaxonomyTypeOK
    <3> QED BY <1>4, <1>6, <2>1, <3>1 DEF AllFiled, HomesAreLive, LiveOrNone
  <2>4. ParentsAreLive'
    <3> SUFFICES ASSUME NEW n \in Nodes, node'[n] = "live", parentOf[n] # NoNode
                 PROVE  node'[parentOf[n]] = "live"
      BY <1>4 DEF ParentsAreLive, LiveOrNone
    <3>1. node[n] = "live" /\ parentOf[n] \in Nodes
      BY <1>6 DEF TaxInv, TaxonomyTypeOK
    <3>2. node[parentOf[n]] = "live"
      BY <2>1, <3>1 DEF AllFiled, ParentsAreLive, LiveOrNone
    <3>3. tree = "service_category"
      BY <1>12, <3>1 DEF Judged, Flat, TaxInv, RowsStand
    <3>4. parentOf[n] # q.node
      BY <2>2, <3>1, <3>3 DEF LiveChildren
    <3> QED BY <1>6, <3>1, <3>2, <3>4
  <2>5. NoServiceCycle'
    BY <1>4, <2>1 DEF AllFiled, NoServiceCycle
  <2> QED BY <2>3, <2>4, <2>5 DEF AllFiled
<1> QED BY <1>4, <1>5, <1>7, <1>8, <1>9, <1>10, <1>11, <1>12, ClerkEnds

LEMMA RemoveLocationStep ==
  ASSUME TaxInv, NEW c \in Clerks, RemoveLocation(c)
  PROVE  TaxInv'
<1>1. PICK q \in Clerk : q = clerk[c] /\ CallIs(q)
  BY DEF TaxInv, TaxonomyTypeOK
<1>2. /\ q.node \in Nodes /\ tree = "asset_location"
  BY <1>1 DEF RemoveLocation, At, CallIs
<1>3. PICK wrote \in BOOLEAN : (wrote <=> node[q.node] = "live")
  OBVIOUS
<1>4. /\ node' = [node EXCEPT ![q.node] = "absent"]
      /\ home' = [t \in Things |-> IF home[t] = q.node THEN NoNode ELSE home[t]]
      /\ EndCall(c, node[q.node] = "live") /\ tree' = tree /\ parentOf' = parentOf
  BY <1>1 DEF RemoveLocation
<1>5. EndCall(c, wrote)
  BY <1>3, <1>4 DEF EndCall
<1>6. \A n \in Nodes : node'[n] = IF n = q.node THEN "absent" ELSE node[n]
  BY <1>4 DEF TaxInv, TaxonomyTypeOK
<1>7. /\ node' \in [Nodes -> {"absent", "live", "deleted"}]
      /\ parentOf' \in [Nodes -> Nodes \cup {NoNode}]
      /\ home' \in [Things -> Nodes \cup {NoNode}]
  BY <1>2, <1>4 DEF TaxInv, TaxonomyTypeOK
<1>8. RowsStand'
  BY <1>2, <1>4, <1>6 DEF TaxInv, RowsStand, Flat, RowOrNone, HardDeleted
<1>9. HomesExist'
  <2> SUFFICES ASSUME NEW t \in Things, home'[t] # NoNode PROVE node'[home'[t]] = "live"
    BY DEF HomesExist, HomesAreLive, LiveOrNone
  <2>1. home'[t] = home[t] /\ home[t] # q.node /\ home[t] \in Nodes
    BY <1>4 DEF TaxInv, TaxonomyTypeOK
  <2>2. node[home[t]] = "live"
    BY <1>2, <2>1 DEF TaxInv, HomesExist, HomesAreLive, LiveOrNone, HardDeleted
  <2> QED BY <1>6, <2>1, <2>2
<1>10. ~Judged /\ tree \in HardDeleted
  BY <1>2 DEF Judged, HardDeleted
<1> QED BY <1>4, <1>5, <1>7, <1>8, <1>9, <1>10, ClerkEnds

LEMMA RemoveFromKbStep ==
  ASSUME TaxInv, NEW c \in Clerks, RemoveFromKb(c)
  PROVE  TaxInv'
<1>1. PICK q \in Clerk : q = clerk[c] /\ CallIs(q)
  BY DEF TaxInv, TaxonomyTypeOK
<1>2. q.node \in Nodes /\ tree = "kb_category"
  BY <1>1 DEF RemoveFromKb, At, CallIs
<1>3. ~Judged /\ tree \in HardDeleted /\ ~Flat
  BY <1>2 DEF Judged, HardDeleted, Flat
<1>4. PICK wrote \in BOOLEAN : (wrote <=> node[q.node] = "live")
  OBVIOUS
<1>5. CASE Unused(q.node)
  <2>1. /\ node' = [node EXCEPT ![q.node] = "absent"]
        /\ parentOf' = [m \in Nodes |->
                          IF q.node \in {m, parentOf[m]} THEN NoNode ELSE parentOf[m]]
        /\ EndCall(c, node[q.node] = "live") /\ tree' = tree /\ home' = home
    BY <1>1, <1>5 DEF RemoveFromKb
  <2>2. EndCall(c, wrote)
    BY <1>4, <2>1 DEF EndCall
  <2>3. \A n \in Nodes : node'[n] = IF n = q.node THEN "absent" ELSE node[n]
    BY <2>1 DEF TaxInv, TaxonomyTypeOK
  <2>4. /\ node' \in [Nodes -> {"absent", "live", "deleted"}]
        /\ parentOf' \in [Nodes -> Nodes \cup {NoNode}]
        /\ home' \in [Things -> Nodes \cup {NoNode}]
    BY <1>2, <2>1 DEF TaxInv, TaxonomyTypeOK
  <2>5. RowsStand'
    <3>1. ASSUME NEW n \in Nodes, parentOf'[n] # NoNode PROVE node'[parentOf'[n]] # "absent"
      <4>1. parentOf'[n] = parentOf[n] /\ parentOf[n] # q.node /\ parentOf[n] \in Nodes
        BY <2>1, <3>1 DEF TaxInv, TaxonomyTypeOK
      <4>2. node[parentOf[n]] # "absent"
        BY <3>1, <4>1 DEF TaxInv, RowsStand, RowOrNone
      <4> QED BY <2>3, <4>1, <4>2
    <3>2. \A n \in Nodes : node'[n] # "deleted"
      BY <1>3, <2>3 DEF TaxInv, RowsStand
    <3> QED BY <1>3, <2>1, <3>1, <3>2 DEF RowsStand, RowOrNone, Flat
  <2>6. HomesExist'
    <3>1. \A t \in Things : home[t] # q.node /\ home[t] \in Nodes \cup {NoNode}
      BY <1>5 DEF Unused, TaxInv, TaxonomyTypeOK
    <3> QED BY <1>3, <2>1, <2>3, <3>1 DEF TaxInv, HomesExist, HomesAreLive, LiveOrNone
  <2> QED BY <1>3, <2>1, <2>2, <2>4, <2>5, <2>6, ClerkEnds
<1>6. CASE ~Unused(q.node)
  <2>1. UNCHANGED <<tree, node, parentOf, home>> /\ EndCall(c, FALSE)
    BY <1>1, <1>6 DEF RemoveFromKb
  <2>2. RowsStand' /\ HomesExist'
    BY <2>1, TreeAnswers DEF TaxInv
  <2> QED BY <2>1, <2>2, ClerkEnds DEF TaxInv, TaxonomyTypeOK
<1> QED BY <1>5, <1>6

LEMMA FileWriteStep ==
  ASSUME TaxInv, NEW c \in Clerks, FileWrite(c)
  PROVE  TaxInv'
<1>1. PICK q \in Clerk : q = clerk[c] /\ CallIs(q) /\ ChecksHold(q)
  BY DEF TaxInv, TaxonomyTypeOK
<1> DEFINE ok == RowOrNone(q.node)
<1>2. q.op = "file" /\ q.node \in Nodes /\ q.thing \in Things
  BY <1>1 DEF FileWrite, At, CallIs
<1>3. /\ home' = IF ok THEN [home EXCEPT ![q.thing] = q.node] ELSE home
      /\ EndCall(c, ok) /\ tree' = tree /\ node' = node /\ parentOf' = parentOf
  BY <1>1 DEF FileWrite
<1>4. CASE ~ok
  <2>1. UNCHANGED <<tree, node, parentOf, home>> /\ EndCall(c, FALSE)
    BY <1>3, <1>4 DEF EndCall, RowOrNone
  <2>2. RowsStand' /\ HomesExist'
    BY <2>1, TreeAnswers DEF TaxInv
  <2> QED BY <2>1, <2>2, ClerkEnds DEF TaxInv, TaxonomyTypeOK
<1>5. CASE ok
  <2>1. /\ home' = [home EXCEPT ![q.thing] = q.node]
        /\ EndCall(c, TRUE) /\ tree' = tree /\ node' = node /\ parentOf' = parentOf
    BY <1>3, <1>5 DEF EndCall, RowOrNone
  <2>2. q.node # NoNode => node[q.node] # "absent"
    BY <1>5 DEF RowOrNone
  <2> HIDE DEF ok
  <2>3. /\ node' \in [Nodes -> {"absent", "live", "deleted"}]
        /\ parentOf' \in [Nodes -> Nodes \cup {NoNode}]
        /\ home' \in [Things -> Nodes \cup {NoNode}]
    BY <1>2, <2>1 DEF TaxInv, TaxonomyTypeOK
  <2>4. \A t \in Things : home'[t] = IF t = q.thing THEN q.node ELSE home[t]
    BY <2>1 DEF TaxInv, TaxonomyTypeOK
  <2>5. RowsStand'
    BY <2>1 DEF TaxInv, RowsStand, RowOrNone, Flat
  <2>6. HomesAreLive /\ node[q.node] = "live" => HomesAreLive'
    BY <2>1, <2>4 DEF HomesAreLive, LiveOrNone
  <2>7. HomesExist'
    <3>1. tree \in HardDeleted => node[q.node] = "live"
      BY <1>2, <2>2, TaxonomyConstants DEF TaxInv, TaxonomyTypeOK, RowsStand
    <3> QED BY <2>1, <2>6, <3>1 DEF TaxInv, HomesExist
  <2>8. ASSUME Judged, ~overlapped, clerk[c].alone PROVE AllFiled'
    <3>1. AllFiled
      BY <2>8 DEF TaxInv
    <3>2. node[q.node] = "live"
      BY <1>1, <1>2, <2>8 DEF ChecksHold
    <3>3. ParentsAreLive' /\ NoServiceCycle'
      BY <2>1, <3>1 DEF AllFiled, ParentsAreLive, NoServiceCycle, LiveOrNone
    <3> QED BY <2>6, <3>1, <3>2, <3>3 DEF AllFiled
  <2> QED BY <2>1, <2>3, <2>5, <2>7, <2>8, ClerkEnds
<1> QED BY <1>4, <1>5

LEMMA ChecksStep ==
  ASSUME TaxInv, NEW c \in Clerks, MoveDescend(c) \/ RemoveCheckUse(c) \/ RemoveCheckChildren(c)
  PROVE  TaxInv'
<1>1. CASE MoveDescend(c)
  <2>1. PICK ok \in BOOLEAN : (ok <=> clerk[c].under \notin Descendants(clerk[c].node))
    OBVIOUS
  <2>2. GoOn(c, ok)
    BY <1>1, <2>1 DEF MoveDescend, GoOn
  <2>3. /\ clerk[c].op = "move" /\ clerk[c].pc = "begun"
        /\ UNCHANGED <<tree, node, parentOf, home, overlapped>>
    BY <1>1 DEF MoveDescend, At
  <2> QED BY <2>1, <2>2, <2>3, CheckStep
<1>2. CASE RemoveCheckUse(c)
  <2>1. PICK ok \in BOOLEAN : (ok <=> Unused(clerk[c].node))
    OBVIOUS
  <2>2. GoOn(c, ok)
    BY <1>2, <2>1 DEF RemoveCheckUse, GoOn
  <2>3. /\ clerk[c].op = "remove" /\ clerk[c].pc = "begun" /\ tree # "service_category"
        /\ UNCHANGED <<tree, node, parentOf, home, overlapped>>
    BY <1>2 DEF RemoveCheckUse, At
  <2> QED BY <2>1, <2>2, <2>3, CheckStep
<1>3. CASE RemoveCheckChildren(c)
  <2>1. PICK ok \in BOOLEAN : (ok <=> LiveChildren(clerk[c].node) = {})
    OBVIOUS
  <2>2. GoOn(c, ok)
    BY <1>3, <2>1 DEF RemoveCheckChildren, GoOn
  <2>3. /\ clerk[c].op = "remove" /\ clerk[c].pc = "begun"
        /\ Judged => tree = "service_category"
        /\ UNCHANGED <<tree, node, parentOf, home, overlapped>>
    BY <1>3 DEF RemoveCheckChildren, At, Judged
  <2> QED BY <2>1, <2>2, <2>3, CheckStep
<1> QED BY <1>1, <1>2, <1>3

LEMMA TaxStep ==
  ASSUME TaxInv, [TaxonomyNext]_taxonomyVars
  PROVE  TaxInv'
<1>1. CASE TaxonomyNext
  <2>1. PICK c \in Clerks :
          \/ Add(c) \/ Move(c) \/ Remove(c) \/ File(c)
          \/ AddWrite(c)
          \/ MoveDescend(c)
          \/ MoveWrite(c)
          \/ RemoveCheckUse(c)
          \/ RemoveCheckChildren(c)
          \/ RemoveSoftly(c)
          \/ RemoveLocation(c)
          \/ RemoveFromKb(c)
          \/ FileWrite(c)
    BY <1>1 DEF TaxonomyNext
  <2>2. CASE Add(c) \/ Move(c) \/ Remove(c) \/ File(c)
    BY <2>2, AddStep, MoveStep, RemoveStep, FileStep
  <2>3. CASE MoveDescend(c) \/ RemoveCheckUse(c) \/ RemoveCheckChildren(c)
    BY <2>3, ChecksStep
  <2>4. CASE AddWrite(c) \/ MoveWrite(c) \/ FileWrite(c)
    BY <2>4, AddWriteStep, MoveWriteStep, FileWriteStep
  <2>5. CASE RemoveSoftly(c) \/ RemoveLocation(c) \/ RemoveFromKb(c)
    BY <2>5, RemoveSoftlyStep, RemoveLocationStep, RemoveFromKbStep
  <2> QED BY <2>1, <2>2, <2>3, <2>4, <2>5
<1>2. CASE UNCHANGED taxonomyVars
  <2>1. UNCHANGED <<tree, node, parentOf, home>> /\ clerk' = clerk /\ overlapped' = overlapped
    BY <1>2 DEF taxonomyVars
  <2>2. ASSUME NEW d \in Clerks PROVE CallIs(clerk[d])' /\ ChecksHold(clerk[d])'
    <3>1. PICK r \in Clerk : r = clerk'[d] /\ CallIs(r) /\ ChecksHold(r)
      BY <2>1 DEF TaxInv, TaxonomyTypeOK
    <3>2. CallIs(r)' /\ ChecksHold(r)'
      BY <2>1, <3>1, CallStays
    <3>3. CallIs(clerk[d])'
      BY <3>1, <3>2 DEF CallIs, Flat
    <3>4. ChecksHold(clerk[d])'
      BY <3>1, <3>2 DEF ChecksHold, Judged, LiveOrNone, LiveChildren, Unused, Descendants
    <3> QED BY <3>3, <3>4
  <2>3. TaxonomyTypeOK'
    BY <2>1 DEF TaxInv, TaxonomyTypeOK
  <2> QED BY <2>1, <2>2, <2>3, TreeAnswers DEF TaxInv
<1> QED BY <1>1, <1>2

LEMMA TaxStart == TaxonomyInit => TaxInv
<1> SUFFICES ASSUME TaxonomyInit PROVE TaxInv
  OBVIOUS
<1>1. TaxonomyTypeOK
  BY DEF TaxonomyInit, TaxonomyTypeOK, NoClerk, Clerk
<1>2. RowsStand
  BY DEF TaxonomyInit, RowsStand, RowOrNone
<1>3. \A c \in Clerks : CallIs(clerk[c]) /\ ChecksHold(clerk[c])
  BY DEF TaxonomyInit, CallIs, ChecksHold, NoClerk
<1>4. HomesAreLive /\ ParentsAreLive
  BY DEF TaxonomyInit, HomesAreLive, ParentsAreLive, LiveOrNone
<1>5. NoServiceCycle
  BY TaxonomyConstants DEF TaxonomyInit, NoServiceCycle
<1> QED BY <1>1, <1>2, <1>3, <1>4, <1>5 DEF TaxInv, HomesExist, AllFiled

LEMMA TaxSound == TaxInv => TaxonomyConsistent
<1> SUFFICES ASSUME TaxInv PROVE TaxonomyConsistent
  OBVIOUS
<1>1. CASE Judged
  BY <1>1 DEF TaxInv, AllFiled, TaxonomyConsistent
<1>2. CASE ~Judged
  <2>1. tree \in HardDeleted \/ tree = "asset_category"
    BY <1>2 DEF Judged, TaxInv, TaxonomyTypeOK, Kinds, Trees, HardDeleted
  <2>2. tree \in HardDeleted => ParentsAreLive
    <3> SUFFICES ASSUME tree \in HardDeleted, NEW n \in Nodes, parentOf[n] # NoNode
                 PROVE  node[parentOf[n]] = "live"
      BY DEF ParentsAreLive, LiveOrNone
    <3>1. parentOf[n] \in Nodes
      BY DEF TaxInv, TaxonomyTypeOK
    <3> QED BY <3>1 DEF TaxInv, TaxonomyTypeOK, RowsStand, RowOrNone
  <2>3. NoServiceCycle
    BY <1>2 DEF Judged, NoServiceCycle
  <2> QED BY <2>1, <2>2, <2>3 DEF TaxInv, HomesExist, TaxonomyConsistent
<1> QED BY <1>1, <1>2

\* The inductive invariant of what things are filed under: foreign keys keep what
\* they keep whoever overlaps, and what a request has checked is still so unless
\* another wrote since.
THEOREM TaxonomyInvariant == TaxonomySpec => []TaxInv
BY TaxStart, TaxStep, PTL DEF TaxonomySpec

\* Nothing live is filed under a deleted type or service category, no live
\* category hangs under a deleted one, service categories form no cycle (as long
\* as requests do not overlap); articles and locations have homes that exist.
THEOREM TaxonomyStaysConsistent == TaxonomySpec => []TaxonomyConsistent
BY TaxonomyInvariant, TaxSound, PTL

-----------------------------------------------------------------------------
(* What workflows may say                                                  *)

\* What publication has found of a definition and nothing can change: all but
\* who is active.
Approved(d) ==
  /\ DraftErrors(d) = {}
  /\ Structural(d)
  /\ \A t \in ElementsOf(d.triggers) : ~TriggerError(t)
  /\ \A c \in ElementsOf(d.conditions) : ~ConditionError(c)
  /\ \A a \in ElementsOf(d.actions) : ~ActionError(a)
  /\ ~CycleRisk(d)

\* The published definition was approved, and who it names was active then.
RuleInv ==
  /\ RulesTypeOK
  /\ ruleLive # NoRules => /\ Approved(ruleLive)
                           /\ ReferencedUsers(ruleLive) \subseteq active \cup gone

LEMMA NoErrors ==
  ASSUME NEW d
  PROVE  /\ DraftErrors(d) = {} <=>
              /\ Structural(d) /\ WithinLimits(d)
              /\ ~Refers(d, "group") /\ ~Refers(d, "other")
         /\ PublishErrors(d) = {} <=>
              /\ Structural(d) /\ WithinLimits(d)
              /\ ~Refers(d, "group") /\ ~Refers(d, "other")
              /\ \A t \in ElementsOf(d.triggers) : ~TriggerError(t)
              /\ \A c \in ElementsOf(d.conditions) : ~ConditionError(c)
              /\ \A a \in ElementsOf(d.actions) : ~ActionError(a)
              /\ ~CycleRisk(d)
              /\ ReferencedUsers(d) \subseteq active \cap members
<1> DEFINE draft == [structure |-> ~Structural(d),
                         limit |-> ~WithinLimits(d),
                         group |-> Refers(d, "group"),
                         uuid |-> Refers(d, "other")]
<1> DEFINE publish == [structure |-> ~Structural(d),
                         limit |-> ~WithinLimits(d),
                         group |-> Refers(d, "group"),
                         uuid |-> Refers(d, "other"),
                         trigger |-> \E t \in ElementsOf(d.triggers) : TriggerError(t),
                         condition |-> \E c \in ElementsOf(d.conditions) : ConditionError(c),
                         action |-> \E a \in ElementsOf(d.actions) : ActionError(a),
                         cycle |-> CycleRisk(d),
                         user |-> ~(ReferencedUsers(d) \subseteq active \cap members)]
<1>1. DOMAIN draft = {"structure", "limit", "group", "uuid"}
  OBVIOUS
<1>2. /\ draft["structure"] = (~Structural(d))
      /\ draft["limit"] = (~WithinLimits(d))
      /\ draft["group"] = (Refers(d, "group"))
      /\ draft["uuid"] = (Refers(d, "other"))
  OBVIOUS
<1>3. DOMAIN publish = {"structure", "limit", "group", "uuid"} \cup
                       {"trigger", "condition", "action", "cycle", "user"}
  OBVIOUS
<1>4. /\ publish["structure"] = (~Structural(d))
      /\ publish["limit"] = (~WithinLimits(d))
      /\ publish["group"] = (Refers(d, "group"))
      /\ publish["uuid"] = (Refers(d, "other"))
      /\ publish["trigger"] = (\E t \in ElementsOf(d.triggers) : TriggerError(t))
      /\ publish["condition"] = (\E c \in ElementsOf(d.conditions) : ConditionError(c))
      /\ publish["action"] = (\E a \in ElementsOf(d.actions) : ActionError(a))
      /\ publish["cycle"] = (CycleRisk(d))
      /\ publish["user"] = (~(ReferencedUsers(d) \subseteq active \cap members))
  OBVIOUS
<1>5. DraftErrors(d) = ErrorsAmong(draft) /\ PublishErrors(d) = ErrorsAmong(publish)
  BY DEF DraftErrors, PublishErrors
<1> HIDE DEF draft, publish
<1>6. ErrorsAmong(draft) = {} <=>
        /\ ~draft["structure"]
        /\ ~draft["limit"]
        /\ ~draft["group"]
        /\ ~draft["uuid"]
  BY <1>1 DEF ErrorsAmong
<1>7. ErrorsAmong(publish) = {} <=>
        /\ ~publish["structure"]
        /\ ~publish["limit"]
        /\ ~publish["group"]
        /\ ~publish["uuid"]
        /\ ~publish["trigger"]
        /\ ~publish["condition"]
        /\ ~publish["action"]
        /\ ~publish["cycle"]
        /\ ~publish["user"]
  BY <1>3 DEF ErrorsAmong
<1> QED BY <1>2, <1>4, <1>5, <1>6, <1>7

AssetEvents == {"asset.created", AssetStatusChanged}
AssetFields == {"assetType", "lifecycleState"}

\* What is there under a flat name of an event's payloads.
There(field, eventType) == {s[field] : s \in Snapshots(eventType)}

\* What a payload tells of an asset, and that nothing of it is named in vain.
LEMMA ThereIs ==
  ASSUME NEW e \in AssetEvents, NEW f \in AssetFields
  PROVE  /\ There("lifecycleState", e) = AssetStates \ InVain("lifecycleState", e)
         /\ There("assetType", e) = RuleAssetTypes
         /\ There(f, e) \cap InVain(f, e) = {}
         /\ \A s \in Snapshots(e) : GetNestedValue(s, f) = s[f]
<1> DEFINE states == AssetStates \ InVain("lifecycleState", e)
<1>1. Snapshots(e) = [assetType : RuleAssetTypes, lifecycleState : states]
  BY DEF Snapshots, InVain, AssetEvents, AssetStatusChanged
<1>2. InVain("assetType", e) = RuleUsers
  BY DEF InVain
<1>3. PICK ty \in RuleAssetTypes : TRUE
  BY RuleConstants
<1>4. "LOST" \in states
  BY DEF InVain, AssetEvents, AssetStatusChanged, AssetStates
<1> HIDE DEF states
<1>5. \A ty2 \in RuleAssetTypes : \A st \in states :
        [assetType |-> ty2, lifecycleState |-> st] \in Snapshots(e)
  BY <1>1
<1>6. There("lifecycleState", e) = states
  <2>1. ASSUME NEW st \in states PROVE st \in There("lifecycleState", e)
    <3>1. [assetType |-> ty, lifecycleState |-> st] \in Snapshots(e)
      BY <1>5
    <3>2. [assetType |-> ty, lifecycleState |-> st]["lifecycleState"] = st
      OBVIOUS
    <3> QED BY <3>1, <3>2 DEF There
  <2>2. \A s \in Snapshots(e) : s["lifecycleState"] \in states
    BY <1>1
  <2> QED BY <2>1, <2>2 DEF There
<1>7. There("assetType", e) = RuleAssetTypes
  <2>1. ASSUME NEW ty2 \in RuleAssetTypes PROVE ty2 \in There("assetType", e)
    <3>1. [assetType |-> ty2, lifecycleState |-> "LOST"] \in Snapshots(e)
      BY <1>4, <1>5
    <3>2. [assetType |-> ty2, lifecycleState |-> "LOST"]["assetType"] = ty2
      OBVIOUS
    <3> QED BY <3>1, <3>2 DEF There
  <2>2. \A s \in Snapshots(e) : s["assetType"] \in RuleAssetTypes
    BY <1>1
  <2> QED BY <2>1, <2>2 DEF There
<1>8. \A s \in Snapshots(e) : GetNestedValue(s, f) = s[f]
  BY <1>1 DEF GetNestedValue, AssetFields
<1>9. There(f, e) \cap InVain(f, e) = {}
  <2>1. CASE f = "assetType"
    BY <1>2, <1>7, <2>1, RuleConstants
  <2>2. CASE f = "lifecycleState"
    BY <1>6, <2>2 DEF states
  <2> QED BY <2>1, <2>2 DEF AssetFields
<1> QED BY <1>6, <1>7, <1>8, <1>9 DEF states

\* Where nothing is to be read, a condition holds always or never.
LEMMA NothingToRead ==
  ASSUME NEW e, NEW c, ~(e \in AssetEvents /\ c.field \in AssetFields)
  PROVE  ~Decides(c, e)
<1>1. CASE e \notin AssetEvents
  <2>1. Snapshots(e) = {NoFields}
    BY <1>1 DEF Snapshots, AssetEvents
  <2> QED BY <2>1 DEF Decides
<1>2. CASE e \in AssetEvents /\ c.field \notin AssetFields
  <2>1. \A s \in Snapshots(e) : DOMAIN s = {"assetType", "lifecycleState"}
    BY <1>2 DEF Snapshots, AssetEvents, AssetStatusChanged
  <2>2. \A s \in Snapshots(e) : GetNestedValue(s, c.field) = "undefined"
    BY <1>2, <2>1 DEF GetNestedValue, AssetFields
  <2>3. \A s1, s2 \in Snapshots(e) : EvaluateCondition(c, s1) <=> EvaluateCondition(c, s2)
    BY <2>2 DEF EvaluateCondition
  <2> QED BY <2>3 DEF Decides
<1> QED BY <1>1, <1>2

\* What a condition that passed validation finds is there, or is named in vain.
LEMMA FoundIsThere ==
  ASSUME NEW e \in AssetEvents, NEW c, ~ConditionError(c),
         c.field \in AssetFields, c.list \in BOOLEAN,
         c.operator \in ListOperators \cup {"contains"},
         c.operator \in ListOperators => c.list
  PROVE  /\ c.operator = "contains" => ~c.list
         /\ Found(c) \ InVain(c.field, e) \subseteq There(c.field, e)
<1>1. \A v \in CheckedValues(c) : ProperValue(c.field, v)
  BY DEF ConditionError, AssetFields, EnumFields, UuidFields
<1>2. ~ProperValue(c.field, NoValue)
  BY RuleConstants DEF ProperValue, NoValue, EnumValues, AssetStates, AssetFields, EnumFields,
     UuidFields
<1>3. c.operator = "contains" => ~c.list
  BY <1>1, <1>2 DEF CheckedValues, ListOperators
<1>4. CheckedValues(c) = c.values
  BY <1>3 DEF CheckedValues, ListOperators
<1>5. \A x \in Found(c) : \E v \in c.values : v.says = x
  BY DEF Found
<1>6. CASE c.field = "lifecycleState"
  <2>1. Found(c) \subseteq AssetStates
    BY <1>1, <1>4, <1>5, <1>6 DEF ProperValue, EnumValues, UuidFields
  <2> QED BY <1>3, <1>6, <2>1, ThereIs DEF AssetFields
<1>7. CASE c.field = "assetType"
  <2>1. Found(c) \subseteq RuleUsers \cup RuleAssetTypes
    BY <1>1, <1>4, <1>5, <1>7 DEF ProperValue, EnumFields
  <2>2. InVain(c.field, e) = RuleUsers
    BY <1>7 DEF InVain
  <2>3. There(c.field, e) = RuleAssetTypes
    BY <1>7, ThereIs DEF AssetFields
  <2> QED BY <1>3, <2>1, <2>2, <2>3
<1> QED BY <1>6, <1>7 DEF AssetFields

\* What is approved does as RulesSound says.
LEMMA ApprovedRuns ==
  ASSUME RuleInv, ruleLive # NoRules
  PROVE  RulesSound
<1>1. Approved(ruleLive) /\ ruleLive \in Definitions
  BY DEF RuleInv, RulesTypeOK
<1>2. ASSUME NEW a \in ElementsOf(ruleLive.actions)
      PROVE  \/ Executable(a)
             \/ a.type = "change_status" /\ a.param \in DOMAIN LowerCase
             \/ a.type \in SlaActions /\ a.param # ""
             \/ a.type = "assign" /\ a.param \in gone
  <2>1. ParamsThere(a) /\ ~ActionError(a)
    BY <1>1 DEF Approved, Structural
  <2>2. CASE a.type = "change_status"
    <3>1. ToTicketStatus(a.param) # "none"
      BY <2>1, <2>2 DEF ActionError
    <3>2. a.param \in TicketStatus \/ a.param \in DOMAIN LowerCase
      BY <3>1 DEF ToTicketStatus
    <3> QED BY <2>2, <3>2 DEF Executable, StatusRuns, SlaActions
  <2>3. CASE a.type = "assign"
    <3>1. a.param # "" => a.param \in ReferencedUsers(ruleLive)
      BY <2>3 DEF ReferencedUsers, ActionsOf
    <3>2. a.param = "" \/ a.param \in active \cup gone
      BY <3>1 DEF RuleInv
    <3> QED BY <2>3, <3>2 DEF Executable, AssigneeRuns, SlaActions
  <2>4. CASE a.type \in SlaActions
    BY <2>4 DEF Executable, TargetRuns, SlaActions
  <2>5. CASE a.type = "change_asset_status"
    BY <2>1, <2>5 DEF Executable, AssetStateRuns, ParamsThere, SlaActions
  <2>6. CASE a.type = "add_internal_comment"
    BY <2>1, <2>6 DEF Executable, CommentRuns, ParamsThere, SlaActions
  <2>7. CASE a.type \notin {"change_status", "assign", "change_asset_status",
                            "add_internal_comment"} \cup SlaActions
    BY <2>7 DEF Executable
  <2> QED BY <2>2, <2>3, <2>4, <2>5, <2>6, <2>7
<1>3. ASSUME NEW t \in TriggersOf(ruleLive, StatusChanged),
             NEW a \in ActionsOf(ruleLive, "change_status")
      PROVE  \/ t.to # "unset" /\ ToTicketStatus(t.to) # ToTicketStatus(a.param)
             \/ t.to = "unset" /\ t.from # "unset"
  <2>1. ToTicketStatus(a.param) # "none"
    BY <1>1, <1>3 DEF Approved, ActionError, ActionsOf
  <2>2. ~Unrestricted(t) /\ ToTicketStatus(t.to) # ToTicketStatus(a.param)
    BY <1>1, <1>3, <2>1 DEF Approved, CycleRisk
  <2> QED BY <2>2 DEF Unrestricted
<1>4. \/ ActionsOf(ruleLive, "change_asset_status") = {}
      \/ \A t \in TriggersOf(ruleLive, AssetStatusChanged) : ~Unrestricted(t)
      \/ TriggersOf(ruleLive, StatusChanged) = {} \/ ActionsOf(ruleLive, "change_status") = {}
  BY <1>1 DEF Approved, CycleRisk
<1>5. ASSUME NEW t \in ElementsOf(ruleLive.triggers), NEW c \in ElementsOf(ruleLive.conditions)
      PROVE  Decides(c, t.type) <=>
               /\ t.type \in {"asset.created", AssetStatusChanged}
               /\ c.field \in {"assetType", "lifecycleState"}
               /\ c.operator \notin {"eq", "neq"}
               /\ c.operator \in ListOperators => c.list
               /\ LET named == Found(c) \ InVain(c.field, t.type)
                      there == {s[c.field] : s \in Snapshots(t.type)} IN
                  named # {} /\ named # there
  <2> DEFINE named == Found(c) \ InVain(c.field, t.type)
  <2> DEFINE there == There(c.field, t.type)
  <2> DEFINE listed == c.operator \in ListOperators => c.list
  <2> DEFINE known == c.operator \notin {"eq", "neq"}
  <2>1. c.operator \in {"eq", "neq", "contains", "in", "not_in"} /\ ~ConditionError(c)
    BY <1>1 DEF Approved, Structural, ConditionOperators, ListOperators
  <2>2. c.list \in BOOLEAN
    BY <1>1, RuleConstants DEF Definitions, ElementsOf
  <2>3. CASE ~(t.type \in AssetEvents /\ c.field \in AssetFields)
    BY <2>3, NothingToRead DEF AssetEvents, AssetFields
  <2>4. CASE t.type \in AssetEvents /\ c.field \in AssetFields
    <3>1. CASE ~known
      <4>1. \A s : ~EvaluateCondition(c, s)
        BY <3>1 DEF EvaluateCondition
      <4> QED BY <3>1, <4>1 DEF Decides
    <3>2. CASE ~listed
      <4>1. \A s1, s2 : EvaluateCondition(c, s1) <=> EvaluateCondition(c, s2)
        BY <3>2 DEF EvaluateCondition, ListOperators
      <4> QED BY <3>2, <4>1 DEF Decides
    <3>3. CASE known /\ listed
      <4>1. c.operator \in ListOperators \cup {"contains"}
        BY <2>1, <3>3 DEF ListOperators
      <4>2. (c.operator = "contains" => ~c.list) /\ named \subseteq there
        BY <2>1, <2>2, <2>4, <3>3, <4>1, FoundIsThere
      <4>3. /\ there \cap InVain(c.field, t.type) = {}
            /\ \A s \in Snapshots(t.type) : GetNestedValue(s, c.field) = s[c.field]
        BY <2>4, ThereIs
      <4>4. \A s \in Snapshots(t.type) : s[c.field] \in there
        BY DEF There
      <4>5. \A v \in there : v \in Found(c) <=> v \in named
        BY <4>3
      <4>6. \A s \in Snapshots(t.type) :
              EvaluateCondition(c, s) <=>
                IF c.operator = "not_in" THEN s[c.field] \notin named ELSE s[c.field] \in named
        BY <3>3, <4>1, <4>2, <4>3, <4>4, <4>5 DEF EvaluateCondition, ListOperators
      <4>7. \A v \in there : \E s \in Snapshots(t.type) : s[c.field] = v
        BY DEF There
      <4> HIDE DEF named, there
      <4>8. Decides(c, t.type) <=> /\ \E v \in there : v \in named
                                   /\ \E v \in there : v \notin named
        BY <4>4, <4>6, <4>7 DEF Decides
      <4>9. Decides(c, t.type) <=> named # {} /\ named # there
        BY <4>2, <4>8
      <4> QED BY <2>4, <3>3, <4>9 DEF named, there, There, AssetEvents, AssetFields
    <3> QED BY <3>1, <3>2, <3>3
  <2> QED BY <2>3, <2>4
<1>6. PublishedActionsRun
  BY <1>2 DEF PublishedActionsRun
<1>7. OwnChangesDoNotFire
  BY <1>3, <1>4 DEF OwnChangesDoNotFire
<1>8. ConditionsDecide
  BY <1>5 DEF ConditionsDecide
<1>9. PublishedCanBeSaved
  BY <1>1 DEF PublishedCanBeSaved, Approved
<1> QED BY <1>6, <1>7, <1>8, <1>9 DEF RulesSound

LEMMA RuleStep ==
  ASSUME RuleInv, [RulesNext]_ruleVars
  PROVE  RuleInv'
<1>1. ASSUME NEW d \in Definitions, SaveRules(d) PROVE RuleInv'
  <2>1. ruleDraft' = d /\ UNCHANGED <<ruleLive, active, members, gone>>
    BY <1>1 DEF SaveRules
  <2>2. RulesTypeOK'
    BY <2>1 DEF RuleInv, RulesTypeOK
  <2> QED BY <2>1, <2>2 DEF RuleInv
<1>2. CASE PublishRules
  <2>1. /\ ruleDraft # NoRules /\ PublishErrors(ruleDraft) = {}
        /\ ruleLive' = ruleDraft /\ ruleDraft' = NoRules
        /\ UNCHANGED <<active, members, gone>>
    BY <1>2 DEF PublishRules
  <2>2. RulesTypeOK'
    BY <2>1 DEF RuleInv, RulesTypeOK
  <2>3. PICK d : d = ruleDraft
    OBVIOUS
  <2>4. Approved(d) /\ ReferencedUsers(d) \subseteq active
    BY <2>1, <2>3, NoErrors DEF Approved
  <2>5. /\ ruleLive' = d
        /\ ReferencedUsers(d) \subseteq active' \cup gone'
    BY <2>1, <2>3, <2>4
  <2>6. Approved(ruleLive)' /\ (ReferencedUsers(ruleLive) \subseteq active \cup gone)'
    BY <2>4, <2>5
  <2> QED BY <2>2, <2>6 DEF RuleInv
<1>3. CASE CloneRules
  <2>1. ruleDraft' = ruleLive /\ UNCHANGED <<ruleLive, active, members, gone>>
    BY <1>3 DEF CloneRules
  <2>2. RulesTypeOK'
    BY <2>1 DEF RuleInv, RulesTypeOK
  <2> QED BY <2>1, <2>2 DEF RuleInv
<1>4. ASSUME NEW u \in RuleUsers, UserLeaves(u) PROVE RuleInv'
  <2>1. /\ UNCHANGED <<ruleDraft, ruleLive>>
        /\ active' \subseteq active /\ members' \subseteq members
        /\ active \cup gone \subseteq active' \cup gone'
        /\ gone' \subseteq RuleUsers
    BY <1>4 DEF UserLeaves, RuleInv, RulesTypeOK
  <2>2. RulesTypeOK'
    BY <2>1 DEF RuleInv, RulesTypeOK
  <2>3. ruleLive # NoRules =>
          Approved(ruleLive)' /\ (ReferencedUsers(ruleLive) \subseteq active \cup gone)'
    BY <2>1 DEF RuleInv
  <2> QED BY <2>1, <2>2, <2>3 DEF RuleInv
<1>5. CASE UNCHANGED ruleVars
  <2>1. UNCHANGED <<ruleDraft, ruleLive, active, members, gone>>
    BY <1>5 DEF ruleVars
  <2>2. RulesTypeOK'
    BY <2>1 DEF RuleInv, RulesTypeOK
  <2> QED BY <2>1, <2>2 DEF RuleInv
<1> QED BY <1>1, <1>2, <1>3, <1>4, <1>5 DEF RulesNext

LEMMA RuleStart == RulesInit => RuleInv
BY DEF RulesInit, RuleInv, RulesTypeOK

LEMMA RulesHold == RuleInv => RulesTypeOK /\ RulesSound
<1>1. ruleLive = NoRules => RulesSound
  BY DEF RulesSound, PublishedActionsRun, OwnChangesDoNotFire, ConditionsDecide,
         PublishedCanBeSaved
<1> QED BY <1>1, ApprovedRuns DEF RuleInv

\* What was published had been approved, and who it names was active then.
THEOREM RuleInvariant == RulesSpec => []RuleInv
BY RuleStart, RuleStep, PTL DEF RulesSpec

\* What the validation of workflows promises of whatever was published.
THEOREM RulesAreSound == RulesSpec => []RulesSound
BY RuleInvariant, RulesHold, PTL

-----------------------------------------------------------------------------
(* Forms and what was answered                                             *)

SubmissionRow == [service : Services \cup {NoService}, version : Nat,
                  answers : [FormKeys -> Answer], edited : BOOLEAN]

\* The form of a service is well made and was issued under its version, the
\* latest one unless two requests replaced it at a time.
CatalogFits(s) ==
  /\ catalog[s].state = "NONE" => ~catalog[s].deleted /\ \A x \in issued : x[1] # s
  /\ catalog[s].state # "NONE" => /\ WellFormed(catalog[s].form)
                                  /\ <<s, catalog[s].version, catalog[s].form>> \in issued
  /\ s \notin crossed => \A x \in issued : x[1] = s => x[2] <= catalog[s].version

\* The version a request records was issued; its answers fit that form, or after
\* an edit that of a later version.
SubmissionFits(r) ==
  LET q == submission[r] IN
  q.service # NoService =>
    /\ \E f \in DraftForms : /\ <<q.service, q.version, f>> \in issued
                             /\ ~q.edited => ValidAnswers(f, q.answers)
    /\ q.edited => \E v \in Nat, f \in DraftForms :
                     /\ <<q.service, v, f>> \in issued
                     /\ v >= q.version \/ q.service \in crossed
                     /\ ValidAnswers(f, q.answers)

NoneAsked(s) == RequestsOf(s) = {} \/ s \in outrun

\* What the call q has read was so, and is still so as far as it matters: its form
\* was issued, and the service it is about to delete has no request but those that
\* outran it.
FormCallFits(q) ==
  /\ q.pc = "idle" <=> q.op = "none"
  /\ q.op = "replace" => /\ q.service \in Services
                         /\ catalog[q.service].state # "NONE"
                         /\ WellFormed(q.seen.form)
  /\ q.op = "delete" => q.pc = "checked" /\ q.service \in Services /\ NoneAsked(q.service)
  /\ q.op = "submit" => /\ q.service \in Services
                        /\ <<q.service, q.seen.version, q.seen.form>> \in issued
  /\ q.op = "answer" =>
       /\ q.submission \in Submissions
       /\ submission[q.submission].service # NoService
       /\ <<submission[q.submission].service, q.seen.version, q.seen.form>> \in issued
       /\ \/ q.seen.version >= submission[q.submission].version
          \/ submission[q.submission].service \in crossed

FormInv ==
  /\ FormTypeOK
  /\ submission \in [Submissions -> SubmissionRow]
  /\ \A s \in Services : CatalogFits(s)
  /\ \A r \in Submissions : SubmissionFits(r)
  /\ \A c \in FormCalls : FormCallFits(formCall[c])
  /\ VersionTellsForm
  /\ RequestsKeepServices

\* A form without an impossible field is answered by answering every field, seen
\* or not: what is hidden is not looked at.
LEMMA WellMadeIsAnswerable ==
  ASSUME NEW form \in DraftForms, WellFormed(form), \A f \in FieldsOf(form) : f.accepts # {}
  PROVE  \E answers \in [FormKeys -> Answer] : ValidAnswers(form, answers)
<1>1. form \in Seq(Field)
  BY FormConstants
<1>2. \A i \in DOMAIN form : form[i] \in Field
  BY <1>1
<1>3. \A f \in FieldsOf(form) : f \in Field
  BY <1>2 DEF FieldsOf
<1> DEFINE asking(k) == CHOOSE f \in FieldsOf(form) : f.key = k
<1> DEFINE some(f) == CHOOSE v \in f.accepts : TRUE
<1> DEFINE whole(f) == [many |-> f.type = "MULTI_SELECT", values |-> {some(f)}]
<1> DEFINE reply == [k \in FormKeys |-> IF k \in KeysIn(form) THEN whole(asking(k)) ELSE Blank]
<1>4. \A f, g \in FieldsOf(form) : f.key = g.key => f = g
  BY DEF WellFormed, FieldsOf
<1>5. \A f \in FieldsOf(form) : asking(f.key) = f
  BY <1>4
<1>6. \A f \in FieldsOf(form) : some(f) \in f.accepts
  OBVIOUS
<1>7. ASSUME NEW f \in FieldsOf(form)
      PROVE  whole(f) \in Answer /\ whole(f).values = {some(f)} /\ ValidFieldValue(f, whole(f))
  <2>1. some(f) \in f.accepts /\ some(f) \in AnswerValues
    BY <1>3, <1>6 DEF Field
  <2> HIDE DEF some
  <2>2. whole(f) \in Answer
    BY <2>1 DEF Answer
  <2>3. whole(f).values = {some(f)}
    OBVIOUS
  <2>4. whole(f).many = (f.type = "MULTI_SELECT")
    OBVIOUS
  <2> HIDE DEF whole
  <2>5. ValidFieldValue(f, whole(f))
    BY <2>1, <2>3, <2>4 DEF ValidFieldValue
  <2> QED BY <2>2, <2>3, <2>5
<1>8. \A k \in KeysIn(form) : \E f \in FieldsOf(form) : k = f.key /\ asking(k) = f
  BY <1>5 DEF KeysIn
<1>9. Blank \in Answer
  BY DEF Blank, Answer
<1> HIDE DEF whole, asking, some
<1>10. reply \in [FormKeys -> Answer]
  BY <1>7, <1>8, <1>9
<1>11. \A k \in FormKeys : reply[k] # Blank => k \in KeysIn(form)
  OBVIOUS
<1>12. ASSUME NEW f \in FieldsOf(form)
       PROVE  reply[f.key].values # {} /\ ValidFieldValue(f, reply[f.key])
  <2>1. f.key \in FormKeys /\ f.key \in KeysIn(form)
    BY <1>3 DEF Field, KeysIn
  <2>2. reply[f.key] = whole(f)
    BY <1>5, <2>1
  <2> QED BY <1>7, <2>2
<1> HIDE DEF reply
<1>13. ValidAnswers(form, reply)
  BY <1>11, <1>12 DEF ValidAnswers
<1> QED BY <1>10, <1>13

LEMMA SanitizedAreAnswers ==
  ASSUME NEW form, NEW reply \in Replies
  PROVE  Sanitized(form, reply) \in [FormKeys -> Answer]
<1>1. reply \in [FormKeys -> Answer]
  BY FormConstants
<1>2. Blank \in Answer
  BY DEF Blank, Answer
<1> QED BY <1>1, <1>2 DEF Sanitized

\* A step after which the rows are typed, what was issued is still issued, and
\* nobody's promises are broken.
LEMMA FormCallsGoOn ==
  ASSUME FormInv, NEW c \in FormCalls, NEW q \in FormCall,
         formCall' = [formCall EXCEPT ![c] = q],
         \A s \in Services : catalog[s].state # "NONE" => catalog'[s].state # "NONE",
         issued \subseteq issued', crossed \subseteq crossed',
         \A r \in Submissions : submission[r].service # NoService =>
           submission'[r].service = submission[r].service
             /\ submission'[r].version = submission[r].version,
         \A s \in Services, d \in FormCalls \ {c} :
           formCall[d].op = "delete" /\ formCall[d].service = s /\ NoneAsked(s) =>
             NoneAsked(s)',
         FormCallFits(q)'
  PROVE  /\ formCall' \in [FormCalls -> FormCall]
         /\ \A d \in FormCalls : FormCallFits(formCall[d])'
<1>1. formCall' \in [FormCalls -> FormCall]
  BY DEF FormInv, FormTypeOK
<1>2. ASSUME NEW d \in FormCalls PROVE FormCallFits(formCall[d])'
  <2>1. CASE d = c
    <3>1. formCall'[d] = q
      BY <2>1 DEF FormInv, FormTypeOK
    <3> QED BY <3>1 DEF FormCallFits, NoneAsked, RequestsOf
  <2>2. CASE d # c
    <3>1. PICK p \in FormCall : p = formCall[d] /\ FormCallFits(p)
      BY DEF FormInv, FormTypeOK
    <3>2. formCall'[d] = p
      BY <2>2, <3>1 DEF FormInv, FormTypeOK
    <3>3. p.op = "delete" => NoneAsked(p.service)'
      <4>1. p.op = "delete" => p.service \in Services /\ NoneAsked(p.service)
        BY <3>1 DEF FormCallFits
      <4> QED BY <2>2, <3>1, <4>1
    <3>4. FormCallFits(p)'
      <4>1. /\ p.pc = "idle" <=> p.op = "none"
            /\ p.op = "replace" => /\ p.service \in Services
                                   /\ catalog'[p.service].state # "NONE"
                                   /\ WellFormed(p.seen.form)
            /\ p.op = "submit" => /\ p.service \in Services
                                  /\ <<p.service, p.seen.version, p.seen.form>> \in issued'
        BY <3>1 DEF FormCallFits
      <4>2. p.op = "delete" =>
              p.pc = "checked" /\ p.service \in Services /\ NoneAsked(p.service)'
        BY <3>1, <3>3 DEF FormCallFits
      <4>3. p.op = "answer" =>
              /\ p.submission \in Submissions
              /\ submission'[p.submission].service # NoService
              /\ <<submission'[p.submission].service, p.seen.version, p.seen.form>> \in issued'
              /\ \/ p.seen.version >= submission'[p.submission].version
                 \/ submission'[p.submission].service \in crossed'
        BY <3>1 DEF FormCallFits
      <4> QED BY <4>1, <4>2, <4>3 DEF FormCallFits
    <3> QED BY <3>2, <3>4 DEF FormCallFits, NoneAsked, RequestsOf
  <2> QED BY <2>1, <2>2
<1> QED BY <1>1, <1>2

\* Requests for which nothing but histories changed still fit.
LEMMA SubmissionStays ==
  ASSUME NEW r \in Submissions, SubmissionFits(r), submission'[r] = submission[r],
         issued \subseteq issued', crossed \subseteq crossed'
  PROVE  SubmissionFits(r)'
BY DEF SubmissionFits

\* A step of one call that only reads.
LEMMA FormCallReads ==
  ASSUME FormInv, NEW c \in FormCalls, NEW q \in FormCall,
         formCall' = [formCall EXCEPT ![c] = q], FormCallFits(q),
         UNCHANGED <<catalog, submission, issued, crossed, outrun>>
  PROVE  FormInv'
<1>1. FormCallFits(q)'
  BY DEF FormCallFits, NoneAsked, RequestsOf
<1>2. \A s \in Services : NoneAsked(s) => NoneAsked(s)'
  BY DEF NoneAsked, RequestsOf
<1>4. /\ formCall' \in [FormCalls -> FormCall]
      /\ \A d \in FormCalls : FormCallFits(formCall[d])'
  BY <1>1, <1>2, FormCallsGoOn
<1>5. FormTypeOK'
  BY <1>4 DEF FormInv, FormTypeOK
<1>6. \A s \in Services : CatalogFits(s)'
  BY DEF FormInv, CatalogFits
<1>7. \A r \in Submissions : SubmissionFits(r)'
  BY SubmissionStays DEF FormInv
<1>8. VersionTellsForm' <=> VersionTellsForm
  BY DEF VersionTellsForm
<1>9. RequestsKeepServices' <=> RequestsKeepServices
  BY DEF RequestsKeepServices, RequestsOf
<1> QED BY <1>4, <1>5, <1>6, <1>7, <1>8, <1>9 DEF FormInv

-----------------------------------------------------------------------------
LEMMA FormCallsTyped ==
  /\ AnyForm \in DraftForms
  /\ NoServiceYet \in Service
  /\ NoFormCall \in FormCall
  /\ \A form \in DraftForms : [NoServiceYet EXCEPT !.form = form] \in Service
<1>1. AnyForm \in DraftForms
  BY FormConstants DEF AnyForm
<1>2. NoServiceYet \in Service
  BY <1>1 DEF NoServiceYet, Service
<1>3. NoFormCall \in FormCall
  BY <1>2 DEF NoFormCall, FormCall
<1>4. \A form \in DraftForms : [NoServiceYet EXCEPT !.form = form] \in Service
  BY <1>2 DEF Service
<1> QED BY <1>1, <1>2, <1>3, <1>4

\* A call that ends promises nothing.
LEMMA NoCallFits == FormCallFits(NoFormCall) /\ FormCallFits(NoFormCall)'
BY DEF FormCallFits, NoFormCall

LEMMA ReplaceCheckStep ==
  ASSUME FormInv, NEW c \in FormCalls, NEW s \in Services, NEW form \in DraftForms,
         ReplaceCheck(c, s, form)
  PROVE  FormInv'
<1>1. PICK seen \in Service : seen = [NoServiceYet EXCEPT !.form = form]
  BY FormCallsTyped
<1>2. PICK q \in FormCall :
        q = [NoFormCall EXCEPT !.op = "replace", !.pc = "checked", !.service = s,
                               !.seen = seen]
  BY FormCallsTyped DEF FormCall
<1>3. q.op = "replace" /\ q.pc = "checked" /\ q.service = s /\ q.seen.form = form
  BY <1>1, <1>2 DEF NoFormCall, NoServiceYet
<1>4. [NoFormCall EXCEPT !.op = "replace", !.pc = "checked", !.service = s,
                         !.seen.form = form] = q
  BY <1>1, <1>2 DEF NoFormCall
<1>5. formCall' = [formCall EXCEPT ![c] = q]
  BY <1>4 DEF ReplaceCheck, StartsCall
<1>6. FormCallFits(q)
  BY <1>3 DEF FormCallFits, ReplaceCheck, FindService
<1> QED BY <1>5, <1>6, FormCallReads DEF ReplaceCheck

LEMMA ReplaceReadStep ==
  ASSUME FormInv, NEW c \in FormCalls, ReplaceRead(c)
  PROVE  FormInv'
<1>1. PICK old \in FormCall : old = formCall[c] /\ FormCallFits(old)
  BY DEF FormInv, FormTypeOK
<1>2. old.op = "replace" /\ old.pc = "checked" /\ old.service \in Services
  BY <1>1 DEF ReplaceRead, InCall, FormCallFits
<1>3. PICK v \in Nat : v = catalog[old.service].version
  BY <1>2 DEF FormInv, FormTypeOK, Service
<1>4. PICK seen \in Service : seen = [old.seen EXCEPT !.version = v]
  BY DEF FormCall, Service
<1>5. seen.form = old.seen.form
  BY <1>4 DEF FormCall, Service
<1>6. PICK q \in FormCall : q = [old EXCEPT !.pc = "read", !.seen = seen]
  BY DEF FormCall
<1>7. formCall' = [formCall EXCEPT ![c] = q]
  <2>1. formCall' = [formCall EXCEPT ![c].pc = "read", ![c].seen.version = v]
    BY <1>1, <1>3 DEF ReplaceRead
  <2>2. formCall' = [formCall EXCEPT ![c] = [old EXCEPT !.pc = "read", !.seen.version = v]]
    BY <1>1, <2>1 DEF FormInv, FormTypeOK, FormCall
  <2>3. [old EXCEPT !.pc = "read", !.seen.version = v] = q
    BY <1>4, <1>6 DEF FormCall
  <2> QED BY <2>2, <2>3
<1>8. q.op = "replace" /\ q.pc = "read" /\ q.service = old.service /\ q.seen = seen
  BY <1>2, <1>6 DEF FormCall
<1>9. FormCallFits(q)
  BY <1>1, <1>2, <1>5, <1>8 DEF FormCallFits
<1> QED BY <1>7, <1>9, FormCallReads DEF ReplaceRead

LEMMA DeleteCountStep ==
  ASSUME FormInv, NEW c \in FormCalls, NEW s \in Services, DeleteCount(c, s)
  PROVE  FormInv'
<1>1. PICK q \in FormCall :
        q = [NoFormCall EXCEPT !.op = "delete", !.pc = "checked", !.service = s]
  BY FormCallsTyped DEF FormCall
<1>2. q.op = "delete" /\ q.pc = "checked" /\ q.service = s
  BY <1>1 DEF NoFormCall
<1>3. formCall' = [formCall EXCEPT ![c] = q]
  BY <1>1 DEF DeleteCount, StartsCall
<1>4. FormCallFits(q)
  BY <1>2 DEF FormCallFits, DeleteCount, NoneAsked
<1> QED BY <1>3, <1>4, FormCallReads DEF DeleteCount

LEMMA SubmitAnswersStep ==
  ASSUME FormInv, NEW c \in FormCalls, NEW s \in Services, SubmitAnswers(c, s)
  PROVE  FormInv'
<1>1. PICK seen \in Service : seen = catalog[s]
  BY DEF FormInv, FormTypeOK
<1>2. PICK q \in FormCall :
        q = [NoFormCall EXCEPT !.op = "submit", !.pc = "read", !.service = s, !.seen = seen]
  BY FormCallsTyped DEF FormCall
<1>3. q.op = "submit" /\ q.pc = "read" /\ q.service = s /\ q.seen = seen
  BY <1>2 DEF NoFormCall
<1>4. formCall' = [formCall EXCEPT ![c] = q]
  BY <1>1, <1>2 DEF SubmitAnswers, StartsCall
<1>5. <<s, seen.version, seen.form>> \in issued
  BY <1>1 DEF SubmitAnswers, FindService, FormInv, CatalogFits
<1>6. FormCallFits(q)
  BY <1>3, <1>5 DEF FormCallFits
<1> QED BY <1>4, <1>6, FormCallReads DEF SubmitAnswers

LEMMA ReviseAnswersStep ==
  ASSUME FormInv, NEW c \in FormCalls, NEW r \in Submissions, ReviseAnswers(c, r)
  PROVE  FormInv'
<1>1. PICK s \in Services : s = submission[r].service
  BY DEF FormInv, SubmissionRow, ReviseAnswers
<1>2. PICK seen \in Service : seen = catalog[s]
  BY DEF FormInv, FormTypeOK
<1>3. PICK q \in FormCall :
        q = [NoFormCall EXCEPT !.op = "answer", !.pc = "read", !.submission = r, !.seen = seen]
  BY FormCallsTyped DEF FormCall
<1>4. q.op = "answer" /\ q.pc = "read" /\ q.submission = r /\ q.seen = seen
  BY <1>3 DEF NoFormCall
<1>5. formCall' = [formCall EXCEPT ![c] = q]
  BY <1>1, <1>2, <1>3 DEF ReviseAnswers, StartsCall
<1>6. s # NoService /\ <<s, seen.version, seen.form>> \in issued
  BY <1>1, <1>2 DEF ReviseAnswers, FindService, FormInv, CatalogFits
<1>7. seen.version >= submission[r].version \/ s \in crossed
  <2>1. PICK f \in DraftForms : <<s, submission[r].version, f>> \in issued
    BY <1>1, <1>6 DEF FormInv, SubmissionFits
  <2>2. PICK x : x = <<s, submission[r].version, f>>
    OBVIOUS
  <2>3. x \in issued /\ x[1] = s /\ x[2] = submission[r].version
    BY <2>1, <2>2
  <2>4. s \notin crossed => x[2] <= catalog[s].version
    BY <2>3 DEF FormInv, CatalogFits
  <2>5. seen.version \in Nat /\ submission[r].version \in Nat
    BY DEF Service, FormInv, SubmissionRow
  <2> QED BY <1>2, <2>3, <2>4, <2>5
<1>8. FormCallFits(q)
  BY <1>1, <1>4, <1>6, <1>7 DEF FormCallFits
<1> QED BY <1>5, <1>8, FormCallReads DEF ReviseAnswers

LEMMA RefuseStep ==
  ASSUME FormInv, NEW c \in FormCalls, RefuseAnswers(c)
  PROVE  FormInv'
BY FormCallsTyped, NoCallFits, FormCallReads DEF RefuseAnswers, EndsCall

-----------------------------------------------------------------------------
LEMMA CreateServiceStep ==
  ASSUME FormInv, NEW s \in Services, NEW form \in DraftForms, CreateService(s, form)
  PROVE  FormInv'
<1>1. PICK row \in Service :
        row = [state |-> "DRAFT", deleted |-> FALSE, version |-> 1, form |-> form]
  BY DEF Service
<1>2. /\ catalog' = [catalog EXCEPT ![s] = row]
      /\ issued' = issued \cup {<<s, 1, form>>}
      /\ UNCHANGED <<submission, formCall, crossed, outrun>>
      /\ catalog[s].state = "NONE" /\ WellFormed(form)
  BY <1>1 DEF CreateService
<1>3. /\ row.state = "DRAFT" /\ ~row.deleted /\ row.version = 1 /\ row.form = form
  BY <1>1
<1>4. \A t \in Services : catalog'[t] = IF t = s THEN row ELSE catalog[t]
  BY <1>2 DEF FormInv, FormTypeOK
<1>5. \A x \in issued : x[1] # s
  BY <1>2 DEF FormInv, CatalogFits
<1>6. FormTypeOK' /\ (submission \in [Submissions -> SubmissionRow])'
  BY <1>2 DEF FormInv, FormTypeOK
<1>7. ASSUME NEW t \in Services PROVE CatalogFits(t)'
  <2>1. CASE t = s
    BY <1>2, <1>3, <1>4, <1>5, <2>1 DEF CatalogFits
  <2>2. CASE t # s
    <3>1. catalog'[t] = catalog[t] /\ \A x \in issued' : x \in issued \/ x[1] # t
      BY <1>2, <1>4, <2>2
    <3> QED BY <1>2, <3>1 DEF FormInv, CatalogFits
  <2> QED BY <2>1, <2>2
<1>8. \A r \in Submissions : SubmissionFits(r)'
  BY <1>2, SubmissionStays DEF FormInv
<1>9. ASSUME NEW d \in FormCalls PROVE FormCallFits(formCall[d])'
  <2>1. FormCallFits(formCall[d])
    BY DEF FormInv
  <2>2. \A t \in Services : catalog[t].state # "NONE" => catalog'[t].state # "NONE"
    BY <1>3, <1>4
  <2> QED BY <1>2, <2>1, <2>2 DEF FormCallFits, NoneAsked, RequestsOf
<1>10. VersionTellsForm'
  <2> SUFFICES ASSUME NEW x \in issued', NEW y \in issued', x[1] = y[1], x[2] = y[2],
                      x[1] \notin crossed
               PROVE  x[3] = y[3]
    BY <1>2 DEF VersionTellsForm
  <2>1. CASE x \in issued /\ y \in issued
    BY <2>1 DEF FormInv, VersionTellsForm
  <2>2. CASE x = <<s, 1, form>> /\ y = <<s, 1, form>>
    BY <2>2
  <2>3. CASE x = <<s, 1, form>> /\ y \in issued
    BY <1>5, <2>3
  <2>4. CASE x \in issued /\ y = <<s, 1, form>>
    BY <1>5, <2>4
  <2> QED BY <1>2, <2>1, <2>2, <2>3, <2>4
<1>11. RequestsKeepServices'
  BY <1>2, <1>3, <1>4 DEF FormInv, RequestsKeepServices, RequestsOf
<1> QED BY <1>6, <1>7, <1>8, <1>9, <1>10, <1>11 DEF FormInv

LEMMA PublishServiceStep ==
  ASSUME FormInv, NEW s \in Services, NEW state \in {"PUBLISHED", "RETIRED"},
         PublishService(s, state)
  PROVE  FormInv'
<1>1. PICK old \in Service : old = catalog[s]
  BY DEF FormInv, FormTypeOK
<1>2. PICK row \in Service : row = [old EXCEPT !.state = state]
  BY DEF Service
<1>3. /\ row.state = state /\ row.deleted = old.deleted
      /\ row.version = old.version /\ row.form = old.form
  BY <1>2 DEF Service
<1>4. /\ catalog' = [catalog EXCEPT ![s] = row]
      /\ UNCHANGED <<submission, formCall, issued, crossed, outrun>>
      /\ old.state # "NONE"
  BY <1>1, <1>2 DEF PublishService, FindService
<1>5. \A t \in Services : catalog'[t] = IF t = s THEN row ELSE catalog[t]
  BY <1>4 DEF FormInv, FormTypeOK
<1>6. FormTypeOK' /\ (submission \in [Submissions -> SubmissionRow])'
  BY <1>4 DEF FormInv, FormTypeOK
<1>7. ASSUME NEW t \in Services PROVE CatalogFits(t)'
  <2>1. CatalogFits(t)
    BY DEF FormInv
  <2> QED BY <1>1, <1>3, <1>4, <1>5, <2>1 DEF CatalogFits
<1>8. \A r \in Submissions : SubmissionFits(r)'
  BY <1>4, SubmissionStays DEF FormInv
<1>9. ASSUME NEW d \in FormCalls PROVE FormCallFits(formCall[d])'
  <2>1. FormCallFits(formCall[d])
    BY DEF FormInv
  <2>2. \A t \in Services : catalog[t].state # "NONE" => catalog'[t].state # "NONE"
    BY <1>3, <1>5
  <2> QED BY <1>4, <2>1, <2>2 DEF FormCallFits, NoneAsked, RequestsOf
<1>10. VersionTellsForm'
  BY <1>4 DEF FormInv, VersionTellsForm
<1>11. RequestsKeepServices'
  BY <1>1, <1>3, <1>4, <1>5 DEF FormInv, RequestsKeepServices, RequestsOf
<1> QED BY <1>6, <1>7, <1>8, <1>9, <1>10, <1>11 DEF FormInv

\* Of two requests that replace a form at a time the later one does not find the
\* version it read: from then on the versions tell nothing.
LEMMA ReplaceWriteStep ==
  ASSUME FormInv, NEW c \in FormCalls, ReplaceWrite(c)
  PROVE  FormInv'
<1>1. PICK q \in FormCall : q = formCall[c] /\ FormCallFits(q)
  BY DEF FormInv, FormTypeOK
<1>2. PICK s \in Services, v \in Nat, form \in DraftForms :
        /\ s = q.service /\ v = q.seen.version /\ form = q.seen.form
        /\ catalog[s].state # "NONE" /\ WellFormed(form)
  BY <1>1 DEF ReplaceWrite, InCall, FormCallFits, FormCall, Service
<1>3. PICK old \in Service : old = catalog[s]
  BY DEF FormInv, FormTypeOK
<1>4. PICK row \in Service : row = [old EXCEPT !.form = form, !.version = v + 1]
  <2>1. PICK w \in Nat : w = v + 1
    OBVIOUS
  <2>2. [old EXCEPT !.form = form, !.version = w] \in Service
    BY DEF Service
  <2> QED BY <2>1, <2>2
<1>5. /\ row.state = old.state /\ row.deleted = old.deleted
      /\ row.version = v + 1 /\ row.form = form
  BY <1>4 DEF Service
<1>6. /\ catalog' = [catalog EXCEPT ![s] = row]
      /\ issued' = issued \cup {<<s, v + 1, form>>}
      /\ crossed' = IF old.version = v THEN crossed ELSE crossed \cup {s}
      /\ formCall' = [formCall EXCEPT ![c] = NoFormCall]
      /\ UNCHANGED <<submission, outrun>>
  BY <1>1, <1>2, <1>3, <1>4 DEF ReplaceWrite, EndsCall, FormInv, FormTypeOK
<1>7. \A t \in Services : catalog'[t] = IF t = s THEN row ELSE catalog[t]
  BY <1>6 DEF FormInv, FormTypeOK
<1>8. /\ issued \subseteq issued' /\ crossed \subseteq crossed'
      /\ \A t \in Services : catalog[t].state # "NONE" => catalog'[t].state # "NONE"
  BY <1>2, <1>3, <1>5, <1>6, <1>7
<1>9. \A t \in Services : NoneAsked(t) => NoneAsked(t)'
  BY <1>6 DEF NoneAsked, RequestsOf
<1>10. /\ formCall' \in [FormCalls -> FormCall]
       /\ \A d \in FormCalls : FormCallFits(formCall[d])'
  BY <1>6, <1>8, <1>9, FormCallsTyped, NoCallFits, FormCallsGoOn
<1>11. FormTypeOK' /\ (submission \in [Submissions -> SubmissionRow])'
  <2>1. issued' \subseteq Services \X Nat \X DraftForms
    BY <1>6 DEF FormInv, FormTypeOK
  <2>2. crossed' \subseteq Services
    BY <1>6 DEF FormInv, FormTypeOK
  <2> QED BY <1>6, <1>10, <2>1, <2>2 DEF FormInv, FormTypeOK
<1>12. s \notin crossed' => old.version = v /\ s \notin crossed
  <2>1. CASE old.version = v
    BY <1>6, <2>1
  <2>2. CASE old.version # v
    BY <1>6, <2>2
  <2> QED BY <2>1, <2>2
<1>13. s \notin crossed' => \A x \in issued : x[1] = s => x[2] <= v
  <2>1. CatalogFits(s)
    BY DEF FormInv
  <2>2. s \notin crossed => \A x \in issued : x[1] = s => x[2] <= old.version
    BY <1>3, <2>1 DEF CatalogFits
  <2> QED BY <1>12, <2>2
<1>14. \A x \in issued : x[2] \in Nat
  BY DEF FormInv, FormTypeOK
<1>15. ASSUME NEW t \in Services PROVE CatalogFits(t)'
  <2>1. CASE t = s
    <3>1. s \notin crossed' => \A x \in issued' : x[1] = s => x[2] <= v + 1
      BY <1>6, <1>13, <1>14
    <3>2. <<s, v + 1, form>> \in issued'
      BY <1>6
    <3> QED BY <1>2, <1>3, <1>5, <1>7, <2>1, <3>1, <3>2 DEF CatalogFits
  <2>2. CASE t # s
    <3>1. /\ catalog'[t] = catalog[t] /\ (t \in crossed' <=> t \in crossed)
          /\ \A x \in issued' : x \in issued \/ x[1] # t
      BY <1>6, <1>7, <2>2
    <3> QED BY <1>8, <3>1 DEF FormInv, CatalogFits
  <2> QED BY <2>1, <2>2
<1>16. \A r \in Submissions : SubmissionFits(r)'
  BY <1>6, <1>8, SubmissionStays DEF FormInv
<1>17. VersionTellsForm'
  <2> SUFFICES ASSUME NEW x \in issued', NEW y \in issued', x[1] = y[1], x[2] = y[2],
                      x[1] \notin crossed'
               PROVE  x[3] = y[3]
    BY DEF VersionTellsForm
  <2>1. CASE x \in issued /\ y \in issued
    BY <1>8, <2>1 DEF FormInv, VersionTellsForm
  <2>2. CASE x = <<s, v + 1, form>> /\ y = <<s, v + 1, form>>
    BY <2>2
  <2>3. CASE x = <<s, v + 1, form>> /\ y \in issued
    BY <1>13, <1>14, <2>3
  <2>4. CASE x \in issued /\ y = <<s, v + 1, form>>
    BY <1>13, <1>14, <2>4
  <2> QED BY <1>6, <2>1, <2>2, <2>3, <2>4
<1>18. RequestsKeepServices'
  BY <1>3, <1>5, <1>6, <1>7 DEF FormInv, RequestsKeepServices, RequestsOf
<1> QED BY <1>10, <1>11, <1>15, <1>16, <1>17, <1>18 DEF FormInv

LEMMA DeleteSoftlyStep ==
  ASSUME FormInv, NEW c \in FormCalls, DeleteSoftly(c)
  PROVE  FormInv'
<1>1. PICK q \in FormCall : q = formCall[c] /\ FormCallFits(q)
  BY DEF FormInv, FormTypeOK
<1>2. PICK s \in Services : s = q.service /\ NoneAsked(s)
  BY <1>1 DEF DeleteSoftly, InCall, FormCallFits
<1>3. CASE ~FindService(s)
  BY <1>1, <1>2, <1>3, FormCallsTyped, NoCallFits, FormCallReads DEF DeleteSoftly, EndsCall
<1>4. CASE FindService(s)
  <2>1. PICK old \in Service : old = catalog[s]
    BY DEF FormInv, FormTypeOK
  <2>2. PICK row \in Service : row = [old EXCEPT !.deleted = TRUE, !.state = "RETIRED"]
    BY DEF Service
  <2>3. /\ row.state = "RETIRED" /\ row.version = old.version /\ row.form = old.form
    BY <2>2 DEF Service
  <2>4. /\ catalog' = [catalog EXCEPT ![s] = row]
        /\ formCall' = [formCall EXCEPT ![c] = NoFormCall]
        /\ UNCHANGED <<submission, issued, crossed, outrun>>
        /\ old.state # "NONE"
    BY <1>1, <1>2, <1>4, <2>1, <2>2 DEF DeleteSoftly, EndsCall, FindService, FormInv, FormTypeOK
  <2>5. \A t \in Services : catalog'[t] = IF t = s THEN row ELSE catalog[t]
    BY <2>4 DEF FormInv, FormTypeOK
  <2>6. \A t \in Services : catalog[t].state # "NONE" => catalog'[t].state # "NONE"
    BY <2>3, <2>5
  <2>7. \A t \in Services : NoneAsked(t)' <=> NoneAsked(t)
    BY <2>4 DEF NoneAsked, RequestsOf
  <2>8. /\ formCall' \in [FormCalls -> FormCall]
        /\ \A d \in FormCalls : FormCallFits(formCall[d])'
    BY <2>4, <2>6, <2>7, FormCallsTyped, NoCallFits, FormCallsGoOn
  <2>9. FormTypeOK' /\ (submission \in [Submissions -> SubmissionRow])'
    BY <2>4, <2>8 DEF FormInv, FormTypeOK
  <2>10. ASSUME NEW t \in Services PROVE CatalogFits(t)'
    <3>1. CatalogFits(t)
      BY DEF FormInv
    <3> QED BY <2>1, <2>3, <2>4, <2>5, <3>1 DEF CatalogFits
  <2>11. \A r \in Submissions : SubmissionFits(r)'
    BY <2>4, SubmissionStays DEF FormInv
  <2>12. VersionTellsForm'
    BY <2>4 DEF FormInv, VersionTellsForm
  <2>13. ASSUME NEW t \in Services, RequestsOf(t) # {}, catalog'[t].deleted PROVE t \in outrun
    <3>1. CASE t = s
      BY <1>2, <2>13, <3>1 DEF NoneAsked
    <3>2. CASE t # s
      BY <2>5, <2>13, <3>2 DEF FormInv, RequestsKeepServices
    <3> QED BY <3>1, <3>2
  <2>14. RequestsKeepServices'
    BY <2>4, <2>13 DEF RequestsKeepServices, RequestsOf
  <2> QED BY <2>8, <2>9, <2>10, <2>11, <2>12, <2>14 DEF FormInv
<1> QED BY <1>3, <1>4

-----------------------------------------------------------------------------
LEMMA CreateSubmissionStep ==
  ASSUME FormInv, NEW c \in FormCalls, NEW r \in Submissions, NEW reply \in Replies,
         CreateSubmission(c, r, reply)
  PROVE  FormInv'
<1>1. PICK q \in FormCall : q = formCall[c] /\ FormCallFits(q)
  BY DEF FormInv, FormTypeOK
<1>2. PICK s \in Services, v \in Nat, form \in DraftForms :
        /\ s = q.service /\ v = q.seen.version /\ form = q.seen.form
        /\ <<s, v, form>> \in issued
  BY <1>1 DEF CreateSubmission, InCall, FormCallFits, FormCall, Service
<1>3. PICK answers \in [FormKeys -> Answer] : answers = Sanitized(form, reply)
  BY SanitizedAreAnswers
<1>4. PICK new \in SubmissionRow :
        new = [service |-> s, version |-> v, answers |-> answers, edited |-> FALSE]
  BY DEF SubmissionRow
<1>5. /\ new.service = s /\ new.version = v /\ new.answers = answers /\ ~new.edited
  BY <1>4
<1> DEFINE late == \/ catalog[s].deleted
                   \/ \E d \in FormCalls : /\ InCall(d, "delete", "checked")
                                           /\ formCall[d].service = s
<1>6. /\ submission' = [submission EXCEPT ![r] = new]
      /\ outrun' = IF late THEN outrun \cup {s} ELSE outrun
      /\ formCall' = [formCall EXCEPT ![c] = NoFormCall]
      /\ UNCHANGED <<catalog, issued, crossed>>
      /\ submission[r] = NotSubmitted /\ ValidAnswers(form, answers)
  BY <1>1, <1>2, <1>3, <1>4 DEF CreateSubmission, EndsCall
<1>7. outrun \subseteq outrun' /\ outrun' \subseteq outrun \cup {s} /\ (late => s \in outrun')
  BY <1>6
<1> HIDE DEF late
<1>8. \A t \in Submissions : submission'[t] = IF t = r THEN new ELSE submission[t]
  BY <1>6 DEF FormInv
<1>9. submission[r].service = NoService
  BY <1>6 DEF NotSubmitted
<1>10. ASSUME NEW t \in Services, t # s PROVE RequestsOf(t)' = RequestsOf(t)
  BY <1>5, <1>8, <1>9, <1>10, FormConstants DEF RequestsOf
<1>11. ASSUME NEW t \in Services, NEW d \in FormCalls \ {c},
              formCall[d].op = "delete" /\ formCall[d].service = t /\ NoneAsked(t)
       PROVE  NoneAsked(t)'
  <2>1. CASE t = s
    <3>1. InCall(d, "delete", "checked")
      BY <1>11 DEF InCall, FormInv, FormCallFits
    <3>2. late
      BY <1>11, <2>1, <3>1 DEF late
    <3> QED BY <1>7, <2>1, <3>2 DEF NoneAsked
  <2>2. CASE t # s
    BY <1>7, <1>10, <1>11, <2>2 DEF NoneAsked
  <2> QED BY <2>1, <2>2
<1>12. /\ formCall' \in [FormCalls -> FormCall]
       /\ \A d \in FormCalls : FormCallFits(formCall[d])'
  <2>1. /\ issued \subseteq issued' /\ crossed \subseteq crossed'
        /\ \A t \in Services : catalog[t].state # "NONE" => catalog'[t].state # "NONE"
    BY <1>6
  <2>2. \A t \in Submissions : submission[t].service # NoService =>
          submission'[t].service = submission[t].service
            /\ submission'[t].version = submission[t].version
    BY <1>8, <1>9
  <2> QED BY <1>6, <1>11, <2>1, <2>2, FormCallsTyped, NoCallFits, FormCallsGoOn
<1>13. (submission \in [Submissions -> SubmissionRow])'
  BY <1>6 DEF FormInv
<1>14. FormTypeOK'
  <2>1. \A t \in Submissions : /\ submission'[t].service \in Services \cup {NoService}
                               /\ submission'[t].version \in Nat
                               /\ submission'[t].answers \in [FormKeys -> Answer]
    BY <1>13 DEF SubmissionRow
  <2>2. outrun' \subseteq Services
    BY <1>7 DEF FormInv, FormTypeOK
  <2> QED BY <1>6, <1>12, <2>1, <2>2 DEF FormInv, FormTypeOK
<1>15. \A t \in Services : CatalogFits(t)'
  BY <1>6 DEF FormInv, CatalogFits
<1>16. ASSUME NEW t \in Submissions PROVE SubmissionFits(t)'
  <2>1. CASE t = r
    <3>1. submission'[t] = new
      BY <1>8, <2>1
    <3>2. <<s, v, form>> \in issued'
      BY <1>2, <1>6
    <3> QED BY <1>5, <1>6, <3>1, <3>2 DEF SubmissionFits
  <2>2. CASE t # r
    BY <1>6, <1>8, <2>2, SubmissionStays DEF FormInv
  <2> QED BY <2>1, <2>2
<1>17. VersionTellsForm'
  BY <1>6 DEF FormInv, VersionTellsForm
<1>18. ASSUME NEW t \in Services, RequestsOf(t)' # {}, catalog[t].deleted PROVE t \in outrun'
  <2>1. CASE t = s
    BY <1>7, <1>18, <2>1 DEF late
  <2>2. CASE t # s
    BY <1>7, <1>10, <1>18, <2>2 DEF FormInv, RequestsKeepServices
  <2> QED BY <2>1, <2>2
<1>19. RequestsKeepServices'
  BY <1>6, <1>18 DEF RequestsKeepServices
<1> QED BY <1>12, <1>13, <1>14, <1>15, <1>16, <1>17, <1>19 DEF FormInv

LEMMA WriteAnswersStep ==
  ASSUME FormInv, NEW c \in FormCalls, NEW reply \in Replies, WriteAnswers(c, reply)
  PROVE  FormInv'
<1>1. PICK q \in FormCall : q = formCall[c] /\ FormCallFits(q)
  BY DEF FormInv, FormTypeOK
<1>2. PICK r \in Submissions, v \in Nat, form \in DraftForms :
        r = q.submission /\ v = q.seen.version /\ form = q.seen.form
  BY <1>1 DEF WriteAnswers, InCall, FormCallFits, FormCall, Service
<1>3. PICK old \in SubmissionRow : old = submission[r]
  BY DEF FormInv
<1>4. /\ old.service # NoService /\ <<old.service, v, form>> \in issued
      /\ v >= old.version \/ old.service \in crossed
  BY <1>1, <1>2, <1>3 DEF WriteAnswers, InCall, FormCallFits
<1>5. PICK answers \in [FormKeys -> Answer] : answers = Sanitized(form, reply)
  BY SanitizedAreAnswers
<1>6. PICK new \in SubmissionRow : new = [old EXCEPT !.answers = answers, !.edited = TRUE]
  BY DEF SubmissionRow
<1>7. /\ new.service = old.service /\ new.version = old.version /\ new.answers = answers
      /\ new.edited
  BY <1>6 DEF SubmissionRow
<1>8. /\ submission' = [submission EXCEPT ![r] = new]
      /\ formCall' = [formCall EXCEPT ![c] = NoFormCall]
      /\ UNCHANGED <<catalog, issued, crossed, outrun>>
      /\ ValidAnswers(form, answers)
  BY <1>1, <1>2, <1>3, <1>5, <1>6 DEF WriteAnswers, EndsCall, FormInv, SubmissionRow
<1>9. \A t \in Submissions : submission'[t] = IF t = r THEN new ELSE submission[t]
  BY <1>8 DEF FormInv
<1>10. \A t \in Submissions : /\ submission'[t].service = submission[t].service
                              /\ submission'[t].version = submission[t].version
  BY <1>3, <1>7, <1>9
<1>11. \A s \in Services : RequestsOf(s)' = RequestsOf(s)
  BY <1>10 DEF RequestsOf
<1>12. \A s \in Services : NoneAsked(s)' <=> NoneAsked(s)
  BY <1>8, <1>11 DEF NoneAsked
<1>13. /\ formCall' \in [FormCalls -> FormCall]
       /\ \A d \in FormCalls : FormCallFits(formCall[d])'
  <2>1. /\ issued \subseteq issued' /\ crossed \subseteq crossed'
        /\ \A t \in Services : catalog[t].state # "NONE" => catalog'[t].state # "NONE"
    BY <1>8
  <2> QED BY <1>8, <1>10, <1>12, <2>1, FormCallsTyped, NoCallFits, FormCallsGoOn
<1>14. (submission \in [Submissions -> SubmissionRow])'
  BY <1>8 DEF FormInv
<1>15. FormTypeOK'
  <2>1. \A t \in Submissions : /\ submission'[t].service \in Services \cup {NoService}
                               /\ submission'[t].version \in Nat
                               /\ submission'[t].answers \in [FormKeys -> Answer]
    BY <1>14 DEF SubmissionRow
  <2> QED BY <1>8, <1>13, <2>1 DEF FormInv, FormTypeOK
<1>16. \A t \in Services : CatalogFits(t)'
  BY <1>8 DEF FormInv, CatalogFits
<1>17. ASSUME NEW t \in Submissions PROVE SubmissionFits(t)'
  <2>1. CASE t = r
    <3>1. submission'[t] = new
      BY <1>9, <2>1
    <3>2. <<old.service, v, form>> \in issued'
      BY <1>4, <1>8
    <3>3. PICK f \in DraftForms : <<old.service, old.version, f>> \in issued'
      BY <1>3, <1>4, <1>8 DEF FormInv, SubmissionFits
    <3> QED BY <1>4, <1>7, <1>8, <3>1, <3>2, <3>3 DEF SubmissionFits
  <2>2. CASE t # r
    BY <1>8, <1>9, <2>2, SubmissionStays DEF FormInv
  <2> QED BY <2>1, <2>2
<1>18. VersionTellsForm'
  BY <1>8 DEF FormInv, VersionTellsForm
<1>19. RequestsKeepServices'
  BY <1>8, <1>11 DEF FormInv, RequestsKeepServices
<1> QED BY <1>13, <1>14, <1>15, <1>16, <1>17, <1>18, <1>19 DEF FormInv

LEMMA FormStep ==
  ASSUME FormInv, [FormNext]_formVars
  PROVE  FormInv'
<1>1. CASE FormNext
  <2>1. ASSUME NEW s \in Services,
               \/ \E form \in DraftForms : CreateService(s, form)
               \/ \E state \in {"PUBLISHED", "RETIRED"} : PublishService(s, state)
        PROVE  FormInv'
    BY <2>1, CreateServiceStep, PublishServiceStep
  <2>2. ASSUME NEW c \in FormCalls, NEW s \in Services,
               \/ \E form \in DraftForms : ReplaceCheck(c, s, form)
               \/ DeleteCount(c, s)
               \/ SubmitAnswers(c, s)
        PROVE  FormInv'
    BY <2>2, ReplaceCheckStep, DeleteCountStep, SubmitAnswersStep
  <2>3. ASSUME NEW c \in FormCalls, ReplaceRead(c) \/ ReplaceWrite(c) \/ DeleteSoftly(c)
        PROVE  FormInv'
    BY <2>3, ReplaceReadStep, ReplaceWriteStep, DeleteSoftlyStep
  <2>4. ASSUME NEW c \in FormCalls, NEW reply \in Replies,
               \/ \E r \in Submissions : CreateSubmission(c, r, reply)
               \/ WriteAnswers(c, reply)
        PROVE  FormInv'
    BY <2>4, CreateSubmissionStep, WriteAnswersStep
  <2>5. ASSUME NEW c \in FormCalls, (\E r \in Submissions : ReviseAnswers(c, r)) \/ RefuseAnswers(c)
        PROVE  FormInv'
    BY <2>5, ReviseAnswersStep, RefuseStep
  <2> QED BY <1>1, <2>1, <2>2, <2>3, <2>4, <2>5 DEF FormNext
<1>2. CASE UNCHANGED formVars
  <2>1. UNCHANGED <<catalog, submission, formCall, issued, crossed, outrun>>
    BY <1>2 DEF formVars
  <2>2. FormTypeOK' /\ (submission \in [Submissions -> SubmissionRow])'
    BY <2>1 DEF FormInv, FormTypeOK
  <2>3. \A s \in Services : CatalogFits(s)'
    BY <2>1 DEF FormInv, CatalogFits
  <2>4. \A r \in Submissions : SubmissionFits(r)'
    BY <2>1, SubmissionStays DEF FormInv
  <2>5. \A c \in FormCalls : FormCallFits(formCall[c])'
    BY <2>1 DEF FormInv, FormCallFits, NoneAsked, RequestsOf
  <2>6. VersionTellsForm'
    BY <2>1 DEF FormInv, VersionTellsForm
  <2>7. RequestsKeepServices'
    BY <2>1 DEF FormInv, RequestsKeepServices, RequestsOf
  <2> QED BY <2>2, <2>3, <2>4, <2>5, <2>6, <2>7 DEF FormInv
<1> QED BY <1>1, <1>2

LEMMA FormStart == FormInit => FormInv
<1> SUFFICES ASSUME FormInit PROVE FormInv
  OBVIOUS
<1>1. NoAnswers \in [FormKeys -> Answer]
  BY DEF NoAnswers, Blank, Answer
<1>2. NotSubmitted \in SubmissionRow
  BY <1>1 DEF NotSubmitted, SubmissionRow
<1>3. submission \in [Submissions -> SubmissionRow]
  BY <1>2 DEF FormInit
<1>4. FormTypeOK
  BY <1>3, FormCallsTyped DEF FormInit, FormTypeOK, SubmissionRow
<1>5. \A s \in Services : CatalogFits(s)
  BY DEF FormInit, CatalogFits, NoServiceYet
<1>6. \A r \in Submissions : SubmissionFits(r)
  BY DEF FormInit, SubmissionFits, NotSubmitted
<1>7. \A c \in FormCalls : FormCallFits(formCall[c])
  BY NoCallFits DEF FormInit
<1>8. VersionTellsForm /\ RequestsKeepServices
  BY DEF FormInit, VersionTellsForm, RequestsKeepServices, NoServiceYet
<1> QED BY <1>3, <1>4, <1>5, <1>6, <1>7, <1>8 DEF FormInv

LEMMA FormsHold == FormInv => FormTypeOK /\ FormsSound
<1> SUFFICES ASSUME FormInv PROVE FormTypeOK /\ FormsSound
  OBVIOUS
<1>1. FormsAreAnswerable
  <2> SUFFICES ASSUME NEW s \in Services, FindService(s),
                      \A f \in FieldsOf(catalog[s].form) : f.accepts # {}
               PROVE  \E answers \in [FormKeys -> Answer] : ValidAnswers(catalog[s].form, answers)
    BY DEF FormsAreAnswerable
  <2>1. catalog[s].form \in DraftForms /\ WellFormed(catalog[s].form)
    BY DEF FormInv, FormTypeOK, Service, CatalogFits, FindService
  <2> QED BY <2>1, WellMadeIsAnswerable
<1>2. AnswersFitForm
  <2> SUFFICES ASSUME NEW r \in Submissions, submission[r].service # NoService
               PROVE  \E x \in issued :
                        /\ x[1] = submission[r].service
                        /\ IF submission[r].edited
                           THEN x[2] >= submission[r].version \/ submission[r].service \in crossed
                           ELSE x[2] = submission[r].version
                        /\ ValidAnswers(x[3], submission[r].answers)
    BY DEF AnswersFitForm
  <2>1. SubmissionFits(r) /\ submission[r] \in SubmissionRow
    BY DEF FormInv
  <2>2. CASE submission[r].edited
    <3>1. PICK v \in Nat, f \in DraftForms :
            /\ <<submission[r].service, v, f>> \in issued
            /\ v >= submission[r].version \/ submission[r].service \in crossed
            /\ ValidAnswers(f, submission[r].answers)
      BY <2>1, <2>2 DEF SubmissionFits
    <3>2. PICK x : x = <<submission[r].service, v, f>>
      OBVIOUS
    <3> QED BY <2>2, <3>1, <3>2
  <2>3. CASE ~submission[r].edited
    <3>1. PICK f \in DraftForms :
            /\ <<submission[r].service, submission[r].version, f>> \in issued
            /\ ValidAnswers(f, submission[r].answers)
      BY <2>1, <2>3 DEF SubmissionFits
    <3>2. PICK x : x = <<submission[r].service, submission[r].version, f>>
      OBVIOUS
    <3> QED BY <2>3, <3>1, <3>2
  <2> QED BY <2>2, <2>3
<1> QED BY <1>1, <1>2 DEF FormInv, FormsSound

\* What a call read of a form was issued, and a service that is about to be
\* deleted has no request but those that outran the count.
THEOREM FormInvariant == FormSpec => []FormInv
BY FormStart, FormStep, PTL DEF FormSpec

\* Every published form can be answered, versions tell forms (unless two were
\* written at a time), answers fit the form they were given for, and services
\* with requests stay.
THEOREM FormsAreSound == FormSpec => []FormsSound
BY FormInvariant, FormsHold, PTL

-----------------------------------------------------------------------------
(* Comments                                                                *)

\* A notice of r that f may have: it is not the author's own, and f requested the
\* ticket of a public comment, or was the assignee the call read.
MayTell(r, f) ==
  /\ f # remark[r].author
  /\ \/ f = Asker /\ remark[r].visibility = "PUBLIC"
     \/ \E i \in DOMAIN remarkEvents : remarkEvents[i].remark = r /\ remarkEvents[i].read = f

\* What the request q relies on: the row of a new comment is not there before its
\* event and is what was written after it, those still to be told have not been;
\* an edit saw a row that was there, and that is the row if the version is.
PostFits(q) ==
  /\ q.pc = "idle" <=> q.op = "none"
  /\ q.op # "none" => q.remark \in Remarks
  /\ q.pc = "created" => q.op = "create"
  /\ q.op = "create" /\ q.pc = "checked" =>
       /\ remark[q.remark].status = "NONE"
       /\ q.row.status = "THERE" /\ q.row.version = 1
  /\ q.pc = "created" =>
       /\ remark[q.remark].status # "NONE"
       /\ remark[q.remark].author = q.row.author
       /\ remark[q.remark].visibility = q.row.visibility
       /\ q.remark \notin answered \cup cut
       /\ \A i \in DOMAIN q.told : /\ remarkNotices[<<q.remark, q.told[i]>>] = 0
                                   /\ MayTell(q.remark, q.told[i])
       /\ \A i, j \in DOMAIN q.told : q.told[i] = q.told[j] => i = j
  /\ q.op \in {"edit", "delete"} =>
       /\ remark[q.remark].status # "NONE"
       /\ q.row.version <= remark[q.remark].version
       /\ q.row.version = remark[q.remark].version => remark[q.remark] = q.row

\* A comment nobody wrote yet has left no trace.
Untouched(r) ==
  remark[r].status = "NONE" =>
    /\ remark[r].version = 1
    /\ \A c \in changes : c.remark # r
    /\ r \notin answered \cup cut
    /\ \A f \in Folk : remarkNotices[<<r, f>>] = 0

\* One event for each comment that was written.
EventsFit ==
  /\ \A i \in DOMAIN remarkEvents : remark[remarkEvents[i].remark].status # "NONE"
  /\ \A i, j \in DOMAIN remarkEvents : remarkEvents[i].remark = remarkEvents[j].remark => i = j
  /\ \A r \in Remarks : remark[r].status # "NONE" =>
       \E i \in DOMAIN remarkEvents : remarkEvents[i].remark = r

ChangesOf(r) == {c.version : c \in {d \in changes : d.remark = r}}

\* The changes of a comment are numbered on, and the last one may delete it.
ChangesFit(r) ==
  /\ remark[r].version \in Nat \ {0}
  /\ ChangesOf(r) = 2..remark[r].version
  /\ remark[r].status = "DELETED" <=> \E d \in changes : d.remark = r /\ d.op = "delete"
  /\ \A c \in changes : c.remark = r /\ c.op = "delete" => c.version = remark[r].version

RemarkTold(r) ==
  /\ \A f \in Folk : /\ remarkNotices[<<r, f>>] <= 1
                     /\ remarkNotices[<<r, f>>] = 1 => MayTell(r, f)
  /\ r \in answered => remark[r].visibility = "PUBLIC" /\ r \notin cut
  /\ remark[r].status # "NONE" /\ remark[r].visibility = "PUBLIC" =>
       \/ r \in answered \cup cut
       \/ \E p \in Posters : poster[p].pc = "created" /\ poster[p].remark = r

RemarkInv ==
  /\ CommentsTypeOK
  /\ \A c \in changes : c.saw = c.had
  /\ \A r \in Remarks : Untouched(r) /\ ChangesFit(r) /\ RemarkTold(r)
  /\ EventsFit
  /\ \A p \in Posters : PostFits(poster[p])
  /\ \A p, d \in Posters : p # d /\ poster[p].op = "create" /\ poster[d].op = "create" =>
                             poster[p].remark # poster[d].remark

\* A request goes on or ends, comments and what is known of them stay.
LEMMA PosterGoesOn ==
  ASSUME RemarkInv, NEW p \in Posters, NEW q \in Post,
         poster' = [poster EXCEPT ![p] = q], PostFits(q),
         q.op = "create" => \A d \in Posters \ {p} :
                              poster[d].op = "create" => poster[d].remark # q.remark,
         poster[p].pc # "created",
         UNCHANGED <<remark, remarkEvents, remarkNotices, answered, cut, changes>>,
         handler' \in Folk \cup {Nobody}, expired' \subseteq Remarks
  PROVE  RemarkInv'
<1>1. \A d \in Posters : poster'[d] = IF d = p THEN q ELSE poster[d]
  BY DEF RemarkInv, CommentsTypeOK
<1>2. CommentsTypeOK'
  BY DEF RemarkInv, CommentsTypeOK
<1>3. (\A c \in changes : c.saw = c.had)' /\ EventsFit'
  BY DEF RemarkInv, EventsFit
<1>4. ASSUME NEW r \in Remarks PROVE Untouched(r)' /\ ChangesFit(r)' /\ RemarkTold(r)'
  <2>1. Untouched(r) /\ ChangesFit(r) /\ RemarkTold(r)
    BY DEF RemarkInv
  <2>2. Untouched(r)'
    BY <2>1 DEF Untouched
  <2>3. ChangesFit(r)'
    BY <2>1 DEF ChangesFit, ChangesOf
  <2>4. \A f \in Folk : MayTell(r, f)' <=> MayTell(r, f)
    BY DEF MayTell
  <2>5. \A d \in Posters : poster[d].pc = "created" => poster'[d] = poster[d]
    BY <1>1
  <2>6. RemarkTold(r)'
    BY <2>1, <2>4, <2>5 DEF RemarkTold
  <2> QED BY <2>2, <2>3, <2>6
<1>5. ASSUME NEW d \in Posters PROVE PostFits(poster[d])'
  <2>1. PICK x \in Post : x = poster'[d] /\ PostFits(x)
    BY <1>1 DEF RemarkInv, CommentsTypeOK
  <2>2. PostFits(x)'
    BY <2>1 DEF PostFits, MayTell
  <2> QED BY <2>1, <2>2 DEF PostFits, MayTell
<1>6. (\A d, e \in Posters : d # e /\ poster[d].op = "create" /\ poster[e].op = "create" =>
                               poster[d].remark # poster[e].remark)'
  <2> SUFFICES ASSUME NEW d \in Posters, NEW e \in Posters, d # e,
                      poster'[d].op = "create", poster'[e].op = "create"
               PROVE  poster'[d].remark # poster'[e].remark
    OBVIOUS
  <2>1. CASE d = p
    BY <1>1, <2>1
  <2>2. CASE e = p
    BY <1>1, <2>2
  <2>3. CASE d # p /\ e # p
    BY <1>1, <2>3 DEF RemarkInv
  <2> QED BY <2>1, <2>2, <2>3
<1> QED BY <1>2, <1>3, <1>4, <1>5, <1>6 DEF RemarkInv

LEMMA PostsTyped ==
  /\ AnyBody \in Bodies /\ NoRemarkRow \in Remark /\ NoPost \in Post
  /\ NoPost.op = "none" /\ NoPost.pc = "idle"
  /\ NoRemarkRow.status = "NONE" /\ NoRemarkRow.version = 1
  /\ PostFits(NoPost) /\ PostFits(NoPost)'
<1>1. AnyBody \in Bodies
  BY CommentConstants DEF AnyBody
<1>2. NoRemarkRow \in Remark
  BY <1>1, CommentConstants DEF NoRemarkRow, Remark, RemarkVisibility
<1>3. <<>> \in Seq(Folk)
  OBVIOUS
<1>4. NoPost \in Post
  BY <1>1, <1>2, <1>3 DEF NoPost, Post
<1>5. NoPost.op = "none" /\ NoPost.pc = "idle"
  BY DEF NoPost
<1>6. NoRemarkRow.status = "NONE" /\ NoRemarkRow.version = 1
  BY DEF NoRemarkRow
<1>7. PostFits(NoPost) /\ PostFits(NoPost)'
  BY <1>5 DEF PostFits
<1> QED BY <1>1, <1>2, <1>4, <1>5, <1>6, <1>7

LEMMA CreateCommentStep ==
  ASSUME RemarkInv, NEW p \in Posters, NEW f \in Folk, NEW x \in Bodies,
         NEW v \in RemarkVisibility, CreateComment(p, f, x, v)
  PROVE  RemarkInv'
<1> DEFINE fresh == {y \in Remarks : /\ remark[y].status = "NONE"
                                     /\ \A d \in Posters : poster[d].remark # y}
<1>1. PICK r \in Remarks : /\ r = (CHOOSE y \in fresh : TRUE)
                           /\ remark[r].status = "NONE"
                           /\ \A d \in Posters : poster[d].remark # r
  BY DEF CreateComment
<1>2. PICK row \in Remark :
        row = [NoRemarkRow EXCEPT !.status = "THERE", !.author = f, !.body = x, !.visibility = v]
  BY PostsTyped DEF Remark
<1>3. row.status = "THERE" /\ row.version = 1
  BY <1>2, PostsTyped DEF Remark
<1>4. handler \in Folk \cup {Nobody}
  BY DEF RemarkInv, CommentsTypeOK
<1>5. PICK q \in Post :
        q = [NoPost EXCEPT !.op = "create", !.pc = "checked", !.handler = handler,
                           !.remark = r, !.row = row]
  BY <1>4, PostsTyped DEF Post
<1>6. q.op = "create" /\ q.pc = "checked" /\ q.remark = r /\ q.row = row
  BY <1>5, PostsTyped DEF Post
<1>7. poster' = [poster EXCEPT ![p] = q]
  BY <1>1, <1>2, <1>5 DEF CreateComment
<1>8. PostFits(q)
  BY <1>1, <1>3, <1>6 DEF PostFits
<1>9. /\ poster[p].pc = "idle"
      /\ UNCHANGED <<remark, remarkEvents, remarkNotices, answered, cut, changes>>
      /\ handler' \in Folk \cup {Nobody} /\ expired' \subseteq Remarks
  BY <1>4 DEF CreateComment, RemarkInv, CommentsTypeOK
<1>10. \A d \in Posters \ {p} : poster[d].op = "create" => poster[d].remark # q.remark
  BY <1>1, <1>6
<1> HIDE DEF fresh
<1> QED BY <1>7, <1>8, <1>9, <1>10, PosterGoesOn

LEMMA CheckedStep ==
  ASSUME RemarkInv, NEW p \in Posters, NEW op \in {"edit", "delete"}, NEW r \in Remarks,
         NEW x \in Bodies, Checked(p, op, r, x)
  PROVE  RemarkInv'
<1>1. PICK row \in Remark : row = remark[r]
  BY DEF RemarkInv, CommentsTypeOK
<1>2. PICK q \in Post :
        q = [NoPost EXCEPT !.op = op, !.pc = "checked", !.remark = r, !.row = row, !.body = x]
  BY PostsTyped DEF Post
<1>3. q.op = op /\ q.pc = "checked" /\ q.remark = r /\ q.row = row
  BY <1>2, PostsTyped DEF Post
<1>4. poster' = [poster EXCEPT ![p] = q]
  BY <1>1, <1>2 DEF Checked
<1>5. row.status = "THERE" /\ row.version \in Nat
  BY <1>1 DEF Checked, Remark
<1>6. PostFits(q)
  BY <1>1, <1>3, <1>5 DEF PostFits
<1> QED BY <1>3, <1>4, <1>6, PosterGoesOn DEF Checked, RemarkInv, CommentsTypeOK

\* Who is told of a comment: nobody twice, not the author, the requester of what
\* is public and the assignee.
LEMMA RecipientsFit ==
  ASSUME NEW row \in Remark, NEW assignee \in Folk \cup {Nobody}
  PROVE  /\ Recipients(row, assignee) \in Seq(Folk)
         /\ \A i, j \in DOMAIN Recipients(row, assignee) :
              Recipients(row, assignee)[i] = Recipients(row, assignee)[j] => i = j
         /\ \A i \in DOMAIN Recipients(row, assignee) :
              \E f \in Folk : /\ f = Recipients(row, assignee)[i] /\ f # row.author
                              /\ \/ f = Asker /\ row.visibility = "PUBLIC"
                                 \/ f = assignee
<1> DEFINE asked == row.visibility = "PUBLIC"
<1> DEFINE first == IF asked /\ Asker # row.author THEN <<Asker>> ELSE <<>>
<1>1. Asker \in Folk
  BY CommentConstants
<1>2. /\ first \in Seq(Folk) /\ Len(first) \in {0, 1}
      /\ Len(first) = 1 => first[1] = Asker /\ asked /\ Asker # row.author
  <2>1. CASE asked /\ Asker # row.author
    BY <1>1, <2>1
  <2>2. CASE ~(asked /\ Asker # row.author)
    BY <2>2
  <2> QED BY <2>1, <2>2
<1>3. CASE assignee \in {Nobody, row.author} \/ (asked /\ assignee = Asker)
  <2>1. PICK s \in Seq(Folk) : s = first
    BY <1>2
  <2>2. Recipients(row, assignee) = s
    BY <1>3, <2>1 DEF Recipients
  <2> HIDE DEF first
  <2>3. DOMAIN s = 1..Len(s)
    OBVIOUS
  <2> QED BY <1>1, <1>2, <2>1, <2>2, <2>3
<1>4. CASE ~(assignee \in {Nobody, row.author} \/ (asked /\ assignee = Asker))
  <2>1. assignee \in Folk /\ assignee # row.author
    BY <1>4
  <2> HIDE DEF first
  <2>2. PICK s \in Seq(Folk) : s = Append(first, assignee)
    <3>1. first \in Seq(Folk)
      BY <1>2
    <3>2. Append(first, assignee) \in Seq(Folk)
      BY <2>1, <3>1, AppendProperties
    <3> QED BY <3>2
  <2>3. Recipients(row, assignee) = s
    BY <1>4, <2>2 DEF Recipients, first
  <2>4. /\ DOMAIN s = 1..(Len(first) + 1)
        /\ s[Len(first) + 1] = assignee
        /\ Len(first) = 1 => s[1] = first[1]
    BY <1>2, <2>1, <2>2
  <2>5. CASE Len(first) = 0
    <3>1. DOMAIN s = {1} /\ s[1] = assignee
      BY <2>4, <2>5
    <3> QED BY <2>1, <2>3, <3>1
  <2>6. CASE Len(first) = 1
    <3>1. DOMAIN s = {1, 2} /\ s[1] = Asker /\ s[2] = assignee /\ Asker # assignee
      BY <1>2, <1>4, <2>4, <2>6
    <3> QED BY <1>1, <1>2, <2>1, <2>3, <2>6, <3>1
  <2> QED BY <1>2, <2>5, <2>6
<1> QED BY <1>3, <1>4

\* A comment and its event are written together.
LEMMA CreateWithAuditStep ==
  ASSUME RemarkInv, NEW p \in Posters, CreateWithAudit(p)
  PROVE  RemarkInv'
<1>1. PICK q \in Post : q = poster[p] /\ PostFits(q)
  BY DEF RemarkInv, CommentsTypeOK
<1>2. q.op = "create" /\ q.pc = "checked"
  BY <1>1 DEF CreateWithAudit, Stands
<1>3. PICK r \in Remarks, row \in Remark :
        /\ r = q.remark /\ row = q.row
        /\ remark[r].status = "NONE" /\ row.status = "THERE" /\ row.version = 1
  BY <1>1, <1>2 DEF PostFits, Post
<1>4. PICK told \in Seq(Folk) : told = Recipients(row, q.handler)
  BY RecipientsFit DEF Post
<1>5. PICK e \in RemarkEvent : e = [remark |-> r, handler |-> handler, read |-> q.handler]
  BY DEF RemarkEvent, RemarkInv, CommentsTypeOK, Post
<1>6. e.remark = r /\ e.read = q.handler
  BY <1>5
<1>7. PICK new \in Post : new = [q EXCEPT !.pc = "created", !.told = told]
  BY DEF Post
<1>8. /\ new.op = "create" /\ new.pc = "created" /\ new.remark = r /\ new.row = row
      /\ new.told = told
  BY <1>2, <1>3, <1>7 DEF Post
<1>9. /\ remark' = [remark EXCEPT ![r] = row]
      /\ remarkEvents' = Append(remarkEvents, e)
      /\ UNCHANGED <<handler, remarkNotices, expired, answered, cut, changes>>
  BY <1>1, <1>3, <1>5 DEF CreateWithAudit
<1>10. poster' = [poster EXCEPT ![p] = new]
  BY <1>1, <1>3, <1>4, <1>7 DEF CreateWithAudit, RemarkInv, CommentsTypeOK, Post
<1>11. \A t \in Remarks : remark'[t] = IF t = r THEN row ELSE remark[t]
  BY <1>9 DEF RemarkInv, CommentsTypeOK
<1>12. \A d \in Posters : poster'[d] = IF d = p THEN new ELSE poster[d]
  BY <1>10 DEF RemarkInv, CommentsTypeOK
<1>13. PICK n \in Nat : n = Len(remarkEvents) /\ DOMAIN remarkEvents = 1..n
  BY DEF RemarkInv, CommentsTypeOK
<1>14. /\ remarkEvents' \in Seq(RemarkEvent)
       /\ DOMAIN remarkEvents' = 1..(n + 1)
       /\ \A i \in 1..n : remarkEvents'[i] = remarkEvents[i]
       /\ remarkEvents'[n + 1] = e
  BY <1>9, <1>13 DEF RemarkInv, CommentsTypeOK
<1>15. \A i \in 1..n : remarkEvents[i] \in RemarkEvent /\ remarkEvents[i].remark \in Remarks
  <2>1. \A i \in 1..n : remarkEvents[i] \in RemarkEvent
    BY <1>13 DEF RemarkInv, CommentsTypeOK
  <2>2. \A x \in RemarkEvent : x.remark \in Remarks
    BY DEF RemarkEvent
  <2> QED BY <2>1, <2>2
<1>16. \A i \in 1..n : remarkEvents[i].remark # r
  BY <1>3, <1>13 DEF RemarkInv, EventsFit
<1>17. CommentsTypeOK'
  BY <1>9, <1>10, <1>14 DEF RemarkInv, CommentsTypeOK
<1>18. EventsFit'
  <2>1. \A i \in DOMAIN remarkEvents' : remark'[remarkEvents'[i].remark].status # "NONE"
    <3> SUFFICES ASSUME NEW i \in 1..(n + 1)
                 PROVE  remark'[remarkEvents'[i].remark].status # "NONE"
      BY <1>14
    <3>1. CASE i = n + 1
      BY <1>3, <1>6, <1>11, <1>14, <3>1
    <3>2. CASE i \in 1..n
      BY <1>11, <1>13, <1>14, <1>15, <1>16, <3>2 DEF RemarkInv, EventsFit
    <3> QED BY <3>1, <3>2
  <2>2. \A i, j \in DOMAIN remarkEvents' :
          remarkEvents'[i].remark = remarkEvents'[j].remark => i = j
    <3> SUFFICES ASSUME NEW i \in 1..(n + 1), NEW j \in 1..(n + 1),
                        remarkEvents'[i].remark = remarkEvents'[j].remark
                 PROVE  i = j
      BY <1>14
    <3>1. CASE i \in 1..n /\ j \in 1..n
      BY <1>13, <1>14, <3>1 DEF RemarkInv, EventsFit
    <3>2. CASE i = n + 1 /\ j = n + 1
      BY <3>2
    <3>3. CASE i = n + 1 /\ j \in 1..n
      BY <1>6, <1>14, <1>16, <3>3
    <3>4. CASE i \in 1..n /\ j = n + 1
      BY <1>6, <1>14, <1>16, <3>4
    <3> QED BY <3>1, <3>2, <3>3, <3>4
  <2>3. ASSUME NEW t \in Remarks, remark'[t].status # "NONE"
        PROVE  \E i \in DOMAIN remarkEvents' : remarkEvents'[i].remark = t
    <3>1. CASE t = r
      BY <1>6, <1>14, <3>1
    <3>2. CASE t # r
      <4>1. PICK i \in 1..n : remarkEvents[i].remark = t
        BY <1>11, <1>13, <2>3, <3>2 DEF RemarkInv, EventsFit
      <4> QED BY <1>14, <4>1
    <3> QED BY <3>1, <3>2
  <2> QED BY <2>1, <2>2, <2>3 DEF EventsFit
<1>19. \A t \in Remarks \ {r}, f \in Folk : MayTell(t, f) => MayTell(t, f)'
  <2> SUFFICES ASSUME NEW t \in Remarks \ {r}, NEW f \in Folk, MayTell(t, f)
               PROVE  MayTell(t, f)'
    OBVIOUS
  <2>1. remark'[t] = remark[t]
    BY <1>11
  <2>2. (\E i \in DOMAIN remarkEvents : remarkEvents[i].remark = t /\ remarkEvents[i].read = f) =>
          \E i \in DOMAIN remarkEvents' : remarkEvents'[i].remark = t /\ remarkEvents'[i].read = f
    BY <1>13, <1>14
  <2> QED BY <2>1, <2>2 DEF MayTell
<1>20. \A i \in DOMAIN told : told[i] \in Folk /\ MayTell(r, told[i])'
  <2> SUFFICES ASSUME NEW i \in DOMAIN told PROVE told[i] \in Folk /\ MayTell(r, told[i])'
    OBVIOUS
  <2>1. PICK f \in Folk : /\ f = told[i] /\ f # row.author
                          /\ \/ f = Asker /\ row.visibility = "PUBLIC"
                             \/ f = q.handler
    BY <1>4, RecipientsFit DEF Post
  <2>2. remark'[r] = row
    BY <1>11
  <2>3. f = q.handler =>
          \E k \in DOMAIN remarkEvents' : remarkEvents'[k].remark = r /\ remarkEvents'[k].read = f
    BY <1>6, <1>14
  <2> QED BY <2>1, <2>2, <2>3 DEF MayTell
<1>21. Untouched(r)
  BY DEF RemarkInv
<1>22. ASSUME NEW t \in Remarks PROVE Untouched(t)' /\ ChangesFit(t)' /\ RemarkTold(t)'
  <2>1. Untouched(t) /\ ChangesFit(t) /\ RemarkTold(t)
    BY DEF RemarkInv
  <2>2. CASE t # r
    <3>1. remark'[t] = remark[t]
      BY <1>11, <2>2
    <3>2. Untouched(t)'
      BY <1>9, <2>1, <3>1 DEF Untouched
    <3>3. ChangesFit(t)'
      BY <1>9, <2>1, <3>1 DEF ChangesFit, ChangesOf
    <3>4. \A d \in Posters : poster[d].pc = "created" => d # p
      BY <1>1, <1>2
    <3>5. \A d \in Posters : poster[d].pc = "created" => poster'[d] = poster[d]
      BY <1>12, <3>4
    <3>6. \A f \in Folk : MayTell(t, f) => MayTell(t, f)'
      BY <1>19, <2>2
    <3>7. RemarkTold(t)'
      BY <1>9, <2>1, <3>1, <3>5, <3>6 DEF RemarkTold
    <3> QED BY <3>2, <3>3, <3>7
  <2>3. CASE t = r
    <3>1. remark'[t] = row
      BY <1>11, <2>3
    <3>2. Untouched(t)'
      BY <1>3, <3>1 DEF Untouched
    <3>3. ChangesFit(t)'
      <4>1. /\ ChangesOf(t)' = ChangesOf(t) /\ ChangesOf(t) = 2..1
            /\ \A d \in changes : d.remark # t
        BY <1>3, <1>9, <1>21, <2>1, <2>3 DEF ChangesFit, ChangesOf, Untouched
      <4> QED BY <1>3, <1>9, <3>1, <4>1 DEF ChangesFit
    <3>4. RemarkTold(t)'
      <4>1. /\ t \notin answered' \cup cut'
            /\ \A f \in Folk : remarkNotices'[<<t, f>>] = 0
        BY <1>3, <1>9, <1>21, <2>3 DEF Untouched
      <4>2. poster'[p].pc = "created" /\ poster'[p].remark = t
        BY <1>8, <1>12, <2>3
      <4> QED BY <4>1, <4>2 DEF RemarkTold
    <3> QED BY <3>2, <3>3, <3>4
  <2> QED BY <2>2, <2>3
<1>23. ASSUME NEW d \in Posters PROVE PostFits(poster[d])'
  <2>1. CASE d = p
    <3>1. poster'[d] = new
      BY <1>12, <2>1
    <3>2. \A i \in DOMAIN told : remarkNotices'[<<r, told[i]>>] = 0
      BY <1>3, <1>9, <1>20, <1>21 DEF Untouched
    <3>3. r \notin answered' \cup cut'
      BY <1>3, <1>9, <1>21 DEF Untouched
    <3>4. \A i, j \in DOMAIN told : told[i] = told[j] => i = j
      BY <1>4, RecipientsFit DEF Post
    <3>5. remark'[r] = row
      BY <1>11
    <3>6. PostFits(new)'
      BY <1>3, <1>8, <1>20, <3>2, <3>3, <3>4, <3>5 DEF PostFits
    <3> QED BY <3>1, <3>6 DEF PostFits, MayTell
  <2>2. CASE d # p
    <3>1. PICK x \in Post : x = poster[d] /\ PostFits(x)
      BY DEF RemarkInv, CommentsTypeOK
    <3>2. poster'[d] = x
      BY <1>12, <2>2, <3>1
    <3>3. x.op = "create" => x.remark # r
      BY <1>1, <1>2, <1>3, <2>2, <3>1 DEF RemarkInv
    <3>4. x.op \in {"edit", "delete"} => x.remark # r
      BY <1>3, <3>1 DEF PostFits
    <3>5. x.op \in {"none", "create", "edit", "delete"}
      BY DEF Post
    <3>6. x.op # "none" => x.remark \in Remarks \ {r} /\ remark'[x.remark] = remark[x.remark]
      BY <1>11, <3>1, <3>3, <3>4, <3>5 DEF PostFits
    <3>7. x.told \in Seq(Folk)
      BY DEF Post
    <3>8. x.pc = "created" => \A i \in DOMAIN x.told : MayTell(x.remark, x.told[i])'
      <4> SUFFICES ASSUME x.pc = "created", NEW i \in DOMAIN x.told
                   PROVE  MayTell(x.remark, x.told[i])'
        OBVIOUS
      <4>1. x.told[i] \in Folk
        BY <3>7
      <4>2. x.remark \in Remarks \ {r} /\ MayTell(x.remark, x.told[i])
        BY <3>1, <3>6 DEF PostFits
      <4> QED BY <1>19, <4>1, <4>2
    <3>9. PostFits(x)'
      BY <1>9, <3>1, <3>6, <3>8 DEF PostFits
    <3> QED BY <3>2, <3>9 DEF PostFits, MayTell
  <2> QED BY <2>1, <2>2
<1>24. (\A d, x \in Posters : d # x /\ poster[d].op = "create" /\ poster[x].op = "create" =>
                                poster[d].remark # poster[x].remark)'
  <2>1. \A d \in Posters : poster'[d].op = poster[d].op /\ poster'[d].remark = poster[d].remark
    BY <1>1, <1>2, <1>3, <1>8, <1>12
  <2> QED BY <2>1 DEF RemarkInv
<1> QED BY <1>9, <1>17, <1>18, <1>22, <1>23, <1>24 DEF RemarkInv

LEMMA TellNextStep ==
  ASSUME RemarkInv, NEW p \in Posters, NEW arrives \in BOOLEAN, TellNext(p, arrives)
  PROVE  RemarkInv'
<1>1. PICK q \in Post : q = poster[p] /\ PostFits(q)
  BY DEF RemarkInv, CommentsTypeOK
<1>2. q.op = "create" /\ q.pc = "created" /\ q.told # <<>>
  BY <1>1 DEF TellNext, Stands
<1>3. PICK r \in Remarks, told \in Seq(Folk) : r = q.remark /\ told = q.told
  BY <1>1, <1>2 DEF PostFits, Post
<1>4. told # <<>> /\ Len(told) \in Nat \ {0} /\ DOMAIN told = 1..Len(told)
  BY <1>2, <1>3
<1>5. PICK f \in Folk : f = told[1] /\ f = Head(told)
  BY <1>4
<1>6. PICK rest \in Seq(Folk) : rest = Tail(told)
  BY <1>4, HeadTailProperties
<1>7. /\ DOMAIN rest = 1..(Len(told) - 1)
      /\ \A i \in DOMAIN rest : rest[i] = told[i + 1] /\ i + 1 \in DOMAIN told
  BY <1>4, <1>6, HeadTailProperties
<1>8. PICK new \in Post : new = [q EXCEPT !.told = rest]
  BY DEF Post
<1>9. /\ new.op = "create" /\ new.pc = "created" /\ new.remark = r /\ new.row = q.row
      /\ new.told = rest
  BY <1>2, <1>3, <1>8 DEF Post
<1>10. PICK m \in Nat : m = (IF arrives THEN 1 ELSE 0)
  OBVIOUS
<1>11. /\ remarkNotices[<<r, f>>] = 0 /\ MayTell(r, f)
       /\ \A i \in DOMAIN rest : remarkNotices[<<r, rest[i]>>] = 0 /\ MayTell(r, rest[i])
       /\ \A i \in DOMAIN rest : rest[i] # f /\ rest[i] \in Folk
       /\ \A i, j \in DOMAIN rest : rest[i] = rest[j] => i = j
  <2>1. /\ \A i \in DOMAIN told : remarkNotices[<<r, told[i]>>] = 0 /\ MayTell(r, told[i])
        /\ \A i, j \in DOMAIN told : told[i] = told[j] => i = j
    BY <1>1, <1>2, <1>3 DEF PostFits
  <2>2. 1 \in DOMAIN told
    BY <1>4
  <2>3. remarkNotices[<<r, f>>] = 0 /\ MayTell(r, f)
    BY <1>5, <2>1, <2>2
  <2>4. \A i \in DOMAIN rest : remarkNotices[<<r, rest[i]>>] = 0 /\ MayTell(r, rest[i])
    BY <1>7, <2>1
  <2>5. \A i \in DOMAIN rest : rest[i] # f /\ rest[i] \in Folk
    BY <1>4, <1>5, <1>6, <1>7, <2>1, <2>2
  <2>6. \A i, j \in DOMAIN rest : rest[i] = rest[j] => i = j
    BY <1>7, <2>1
  <2> QED BY <2>3, <2>4, <2>5, <2>6
<1>12. remarkNotices' = [remarkNotices EXCEPT ![<<r, f>>] = m]
  BY <1>1, <1>3, <1>5, <1>10, <1>11 DEF TellNext, RemarkInv, CommentsTypeOK
<1>13. \A t \in Remarks, g \in Folk :
         remarkNotices'[<<t, g>>] = IF t = r /\ g = f THEN m ELSE remarkNotices[<<t, g>>]
  BY <1>12 DEF RemarkInv, CommentsTypeOK
<1>14. /\ poster' = [poster EXCEPT ![p] = new]
       /\ UNCHANGED <<remark, handler, remarkEvents, expired, answered, cut, changes>>
  BY <1>1, <1>3, <1>6, <1>8 DEF TellNext, RemarkInv, CommentsTypeOK, Post
<1>15. \A d \in Posters : poster'[d] = IF d = p THEN new ELSE poster[d]
  BY <1>14 DEF RemarkInv, CommentsTypeOK
<1>16. CommentsTypeOK'
  <2>1. remarkNotices' \in [Remarks \X Folk -> Nat]
    BY <1>12 DEF RemarkInv, CommentsTypeOK
  <2> QED BY <1>14, <2>1 DEF RemarkInv, CommentsTypeOK
<1>17. (\A c \in changes : c.saw = c.had)' /\ EventsFit'
  BY <1>14 DEF RemarkInv, EventsFit
<1>18. \A t, g : MayTell(t, g)' <=> MayTell(t, g)
  BY <1>14 DEF MayTell
<1>19. ASSUME NEW t \in Remarks PROVE Untouched(t)' /\ ChangesFit(t)' /\ RemarkTold(t)'
  <2>1. Untouched(t) /\ ChangesFit(t) /\ RemarkTold(t)
    BY DEF RemarkInv
  <2>2. remark[r].status # "NONE"
    BY <1>1, <1>2, <1>3 DEF PostFits
  <2>3. Untouched(t)'
    BY <1>13, <1>14, <2>1, <2>2 DEF Untouched
  <2>4. ChangesFit(t)'
    BY <1>14, <2>1 DEF ChangesFit, ChangesOf
  <2>5. \A g \in Folk : /\ remarkNotices'[<<t, g>>] <= 1
                        /\ remarkNotices'[<<t, g>>] = 1 => MayTell(t, g)'
    <3> SUFFICES ASSUME NEW g \in Folk
                 PROVE  /\ remarkNotices'[<<t, g>>] <= 1
                        /\ remarkNotices'[<<t, g>>] = 1 => MayTell(t, g)'
      OBVIOUS
    <3>1. CASE t = r /\ g = f
      BY <1>10, <1>11, <1>13, <1>18, <3>1
    <3>2. CASE ~(t = r /\ g = f)
      BY <1>13, <1>18, <2>1, <3>2 DEF RemarkTold
    <3> QED BY <3>1, <3>2
  <2>6. \A d \in Posters : /\ poster'[d].pc = poster[d].pc
                           /\ poster'[d].remark = poster[d].remark
    BY <1>1, <1>2, <1>3, <1>9, <1>15
  <2>7. RemarkTold(t)'
    BY <1>14, <2>1, <2>5, <2>6 DEF RemarkTold
  <2> QED BY <2>3, <2>4, <2>7
<1>20. ASSUME NEW d \in Posters PROVE PostFits(poster[d])'
  <2>1. CASE d = p
    <3>1. poster'[d] = new
      BY <1>15, <2>1
    <3>2. \A i \in DOMAIN rest : remarkNotices'[<<r, rest[i]>>] = 0
      BY <1>11, <1>13
    <3>3. PostFits(new)'
      BY <1>1, <1>2, <1>3, <1>9, <1>11, <1>14, <1>18, <3>2 DEF PostFits
    <3> QED BY <3>1, <3>3 DEF PostFits, MayTell
  <2>2. CASE d # p
    <3>1. PICK x \in Post : x = poster[d] /\ PostFits(x)
      BY DEF RemarkInv, CommentsTypeOK
    <3>2. poster'[d] = x
      BY <1>15, <2>2, <3>1
    <3>3. x.pc = "created" => x.remark \in Remarks /\ x.remark # r
      BY <1>1, <1>2, <1>3, <2>2, <3>1 DEF PostFits, RemarkInv
    <3>4. x.told \in Seq(Folk)
      BY DEF Post
    <3>5. \A i \in DOMAIN x.told : x.told[i] \in Folk
      BY <3>4
    <3>6. x.pc = "created" => \A i \in DOMAIN x.told : remarkNotices'[<<x.remark, x.told[i]>>] = 0
      <4>1. x.pc = "created" => \A i \in DOMAIN x.told : remarkNotices[<<x.remark, x.told[i]>>] = 0
        BY <3>1 DEF PostFits
      <4>2. \A t \in Remarks, g \in Folk : t # r => remarkNotices'[<<t, g>>] = remarkNotices[<<t, g>>]
        BY <1>13
      <4> QED BY <3>3, <3>5, <4>1, <4>2
    <3>7. PostFits(x)'
      BY <1>14, <1>18, <3>1, <3>6 DEF PostFits
    <3> QED BY <3>2, <3>7 DEF PostFits, MayTell
  <2> QED BY <2>1, <2>2
<1>21. (\A d, x \in Posters : d # x /\ poster[d].op = "create" /\ poster[x].op = "create" =>
                                poster[d].remark # poster[x].remark)'
  <2>1. \A d \in Posters : poster'[d].op = poster[d].op /\ poster'[d].remark = poster[d].remark
    BY <1>1, <1>2, <1>3, <1>9, <1>15
  <2> QED BY <2>1 DEF RemarkInv
<1> QED BY <1>16, <1>17, <1>19, <1>20, <1>21 DEF RemarkInv

\* The call of a comment that was created ends: the SLA engine was told, or not.
LEMMA CreatedEnds ==
  ASSUME RemarkInv, NEW p \in Posters, NEW r \in Remarks,
         poster[p].pc = "created", poster[p].remark = r,
         poster' = [poster EXCEPT ![p] = NoPost],
         UNCHANGED <<remark, handler, remarkEvents, remarkNotices, expired, changes>>,
         answered \subseteq answered', answered' \subseteq answered \cup {r},
         cut \subseteq cut', cut' \subseteq cut \cup {r},
         r \in answered' => remark[r].visibility = "PUBLIC" /\ r \notin cut',
         remark[r].visibility = "PUBLIC" => r \in answered' \cup cut'
  PROVE  RemarkInv'
<1>1. \A d \in Posters : poster'[d] = IF d = p THEN NoPost ELSE poster[d]
  BY DEF RemarkInv, CommentsTypeOK
<1>2. CommentsTypeOK'
  BY PostsTyped DEF RemarkInv, CommentsTypeOK
<1>3. (\A c \in changes : c.saw = c.had)' /\ EventsFit'
  BY DEF RemarkInv, EventsFit
<1>4. \A t, f : MayTell(t, f)' <=> MayTell(t, f)
  BY DEF MayTell
<1>5. PostFits(poster[p]) /\ poster[p].op = "create" /\ remark[r].status # "NONE"
  BY DEF RemarkInv, PostFits
<1>6. ASSUME NEW t \in Remarks PROVE Untouched(t)' /\ ChangesFit(t)' /\ RemarkTold(t)'
  <2>1. Untouched(t) /\ ChangesFit(t) /\ RemarkTold(t)
    BY DEF RemarkInv
  <2>2. Untouched(t)'
    BY <1>5, <2>1 DEF Untouched
  <2>3. ChangesFit(t)'
    BY <2>1 DEF ChangesFit, ChangesOf
  <2>4. RemarkTold(t)'
    <3>1. CASE t = r
      BY <1>4, <2>1, <3>1 DEF RemarkTold
    <3>2. CASE t # r
      <4>1. \A d \in Posters : poster[d].remark = t => poster'[d] = poster[d]
        BY <1>1, <3>2
      <4>2. (t \in answered' <=> t \in answered) /\ (t \in cut' <=> t \in cut)
        BY <3>2
      <4> QED BY <1>4, <2>1, <4>1, <4>2 DEF RemarkTold
    <3> QED BY <3>1, <3>2
  <2> QED BY <2>2, <2>3, <2>4
<1>7. ASSUME NEW d \in Posters PROVE PostFits(poster[d])'
  <2>1. CASE d = p
    <3>1. poster'[d] = NoPost
      BY <1>1, <2>1
    <3>2. PostFits(NoPost)'
      BY PostsTyped
    <3> QED BY <3>1, <3>2 DEF PostFits, MayTell
  <2>2. CASE d # p
    <3>1. PICK x \in Post : x = poster[d] /\ PostFits(x)
      BY DEF RemarkInv, CommentsTypeOK
    <3>2. poster'[d] = x
      BY <1>1, <2>2, <3>1
    <3>3. x.pc = "created" => x.remark # r
      BY <1>5, <2>2, <3>1 DEF PostFits, RemarkInv
    <3>4. x.pc = "created" => x.remark \notin answered' \cup cut'
      BY <3>1, <3>3 DEF PostFits
    <3>5. PostFits(x)'
      BY <1>4, <3>1, <3>4 DEF PostFits
    <3> QED BY <3>2, <3>5 DEF PostFits, MayTell
  <2> QED BY <2>1, <2>2
<1>8. (\A d, x \in Posters : d # x /\ poster[d].op = "create" /\ poster[x].op = "create" =>
                               poster[d].remark # poster[x].remark)'
  BY <1>1, PostsTyped DEF RemarkInv
<1> QED BY <1>2, <1>3, <1>6, <1>7, <1>8 DEF RemarkInv

LEMMA TellSlaStep ==
  ASSUME RemarkInv, NEW p \in Posters, TellSla(p)
  PROVE  RemarkInv'
<1>1. PICK q \in Post : q = poster[p] /\ PostFits(q)
  BY DEF RemarkInv, CommentsTypeOK
<1>2. q.op = "create" /\ q.pc = "created"
  BY <1>1 DEF TellSla, Stands
<1>3. PICK r \in Remarks : r = q.remark
  BY <1>1, <1>2 DEF PostFits
<1>4. remark[r].visibility = q.row.visibility /\ r \notin answered \cup cut
  BY <1>1, <1>2, <1>3 DEF PostFits
<1>5. /\ answered' = IF q.row.visibility = "PUBLIC" THEN answered \cup {r} ELSE answered
      /\ poster' = [poster EXCEPT ![p] = NoPost]
      /\ UNCHANGED <<remark, handler, remarkEvents, remarkNotices, expired, cut, changes>>
  BY <1>1, <1>3 DEF TellSla, Ends
<1>6. /\ answered \subseteq answered' /\ answered' \subseteq answered \cup {r}
      /\ r \in answered' => remark[r].visibility = "PUBLIC" /\ r \notin cut'
      /\ remark[r].visibility = "PUBLIC" => r \in answered' \cup cut'
  <2>1. CASE q.row.visibility = "PUBLIC"
    BY <1>4, <1>5, <2>1
  <2>2. CASE q.row.visibility # "PUBLIC"
    BY <1>4, <1>5, <2>2
  <2> QED BY <2>1, <2>2
<1> QED BY <1>1, <1>2, <1>3, <1>5, <1>6, CreatedEnds

LEMMA PosterDiesStep ==
  ASSUME RemarkInv, NEW p \in Posters, PosterDies(p)
  PROVE  RemarkInv'
<1>1. PICK q \in Post : q = poster[p] /\ PostFits(q)
  BY DEF RemarkInv, CommentsTypeOK
<1>2. /\ poster' = [poster EXCEPT ![p] = NoPost]
      /\ UNCHANGED <<remark, handler, remarkEvents, remarkNotices, expired, answered, changes>>
  BY DEF PosterDies, Ends
<1>3. CASE q.pc = "created"
  <2>1. PICK r \in Remarks : r = q.remark
    BY <1>1, <1>3 DEF PostFits
  <2>2. cut' = cut \cup {r} /\ r \notin answered
    BY <1>1, <1>3, <2>1 DEF PosterDies, PostFits
  <2> QED BY <1>1, <1>2, <1>3, <2>1, <2>2, CreatedEnds
<1>4. CASE q.pc # "created"
  <2>1. cut' = cut
    BY <1>1, <1>4 DEF PosterDies
  <2>2. /\ UNCHANGED <<remark, remarkEvents, remarkNotices, answered, cut, changes>>
        /\ handler' \in Folk \cup {Nobody} /\ expired' \subseteq Remarks
    BY <1>2, <2>1 DEF RemarkInv, CommentsTypeOK
  <2> QED BY <1>1, <1>2, <1>4, <2>2, PostsTyped, PosterGoesOn
<1> QED BY <1>3, <1>4

\* What happens around the comments, or nothing at all.
LEMMA AroundRemarks ==
  ASSUME RemarkInv,
         UNCHANGED <<remark, remarkEvents, remarkNotices, poster, answered, cut, changes>>,
         handler' \in Folk \cup {Nobody}, expired' \subseteq Remarks
  PROVE  RemarkInv'
<1>1. CommentsTypeOK'
  BY DEF RemarkInv, CommentsTypeOK
<1>2. (\A c \in changes : c.saw = c.had)' /\ EventsFit'
  BY DEF RemarkInv, EventsFit
<1>3. ASSUME NEW t \in Remarks PROVE Untouched(t)' /\ ChangesFit(t)' /\ RemarkTold(t)'
  <2>1. Untouched(t) /\ ChangesFit(t) /\ RemarkTold(t)
    BY DEF RemarkInv
  <2>2. Untouched(t)'
    BY <2>1 DEF Untouched
  <2>3. ChangesFit(t)'
    BY <2>1 DEF ChangesFit, ChangesOf
  <2>4. RemarkTold(t)'
    BY <2>1 DEF RemarkTold, MayTell
  <2> QED BY <2>2, <2>3, <2>4
<1>4. ASSUME NEW d \in Posters PROVE PostFits(poster[d])'
  BY DEF RemarkInv, PostFits, MayTell
<1>5. (\A d, x \in Posters : d # x /\ poster[d].op = "create" /\ poster[x].op = "create" =>
                               poster[d].remark # poster[x].remark)'
  BY DEF RemarkInv
<1> QED BY <1>1, <1>2, <1>3, <1>4, <1>5 DEF RemarkInv

LEMMA UpdateWithAuditStep ==
  ASSUME RemarkInv, NEW p \in Posters, NEW op \in {"edit", "delete"}, UpdateWithAudit(p, op)
  PROVE  RemarkInv'
<1>1. PICK q \in Post : q = poster[p] /\ PostFits(q)
  BY DEF RemarkInv, CommentsTypeOK
<1>2. q.op = op /\ q.pc = "checked"
  BY <1>1 DEF UpdateWithAudit, Stands
<1>3. PICK r \in Remarks, old \in Remark : r = q.remark /\ old = remark[r]
  BY <1>1, <1>2 DEF PostFits, RemarkInv, CommentsTypeOK
<1>4. CASE ~Current(old, q.row.version)
  <2>1. /\ UNCHANGED <<remark, remarkEvents, remarkNotices, answered, cut, changes>>
        /\ poster' = [poster EXCEPT ![p] = NoPost]
        /\ handler' \in Folk \cup {Nobody} /\ expired' \subseteq Remarks
    BY <1>1, <1>3, <1>4 DEF UpdateWithAudit, Ends, RemarkInv, CommentsTypeOK
  <2> QED BY <1>1, <1>2, <2>1, PostsTyped, PosterGoesOn
<1>5. CASE Current(old, q.row.version)
  <2>1. /\ old.status = "THERE" /\ old.version = q.row.version /\ old = q.row
    BY <1>1, <1>2, <1>3, <1>5 DEF Current, PostFits
  <2>2. PICK v \in Nat : v = old.version /\ v >= 1
    BY <1>3 DEF RemarkInv, ChangesFit
  <2>3. PICK w \in Nat : w = v + 1
    OBVIOUS
  <2>4. PICK status \in {"THERE", "DELETED"} :
          status = (IF op = "delete" THEN "DELETED" ELSE old.status)
    BY <2>1
  <2>5. PICK new \in Remark :
          new = [old EXCEPT !.body = q.body, !.version = w, !.status = status]
    BY DEF Remark, Post
  <2>6. /\ new.version = w /\ new.status = status
        /\ new.author = old.author /\ new.visibility = old.visibility
    BY <2>5 DEF Remark
  <2>7. PICK change \in Change :
          change = [remark |-> r, version |-> w, op |-> op, saw |-> q.row.body, had |-> old.body]
    BY DEF Change, Remark, Post
  <2>8. /\ change.remark = r /\ change.version = w /\ change.op = op
        /\ change.saw = change.had
    BY <2>1, <2>7
  <2>9. /\ changes' = changes \cup {change}
        /\ poster' = [poster EXCEPT ![p] = NoPost]
        /\ UNCHANGED <<handler, remarkEvents, remarkNotices, expired, answered, cut>>
    BY <1>1, <1>3, <1>5, <2>1, <2>2, <2>3, <2>7 DEF UpdateWithAudit, Ends
  <2>10. remark' = [remark EXCEPT ![r] = new]
    <3>1. remark' = [remark EXCEPT ![r].body = q.body, ![r].version = w,
                                   ![r].status = IF op = "delete" THEN "DELETED" ELSE @]
      BY <1>1, <1>3, <1>5, <2>1, <2>2, <2>3 DEF UpdateWithAudit
    <3>2. remark' = [remark EXCEPT ![r] =
                       [old EXCEPT !.body = q.body, !.version = w, !.status = status]]
      BY <1>3, <2>4, <3>1 DEF RemarkInv, CommentsTypeOK, Remark
    <3> QED BY <2>5, <3>2
  <2>11. \A t \in Remarks : remark'[t] = IF t = r THEN new ELSE remark[t]
    BY <2>10 DEF RemarkInv, CommentsTypeOK
  <2>12. \A d \in Posters : poster'[d] = IF d = p THEN NoPost ELSE poster[d]
    BY <2>9 DEF RemarkInv, CommentsTypeOK
  <2>13. \A t \in Remarks : /\ remark'[t].status = "NONE" <=> remark[t].status = "NONE"
                            /\ remark'[t].author = remark[t].author
                            /\ remark'[t].visibility = remark[t].visibility
    BY <1>3, <2>1, <2>4, <2>6, <2>11
  <2>14. CommentsTypeOK'
    BY <2>9, <2>10, PostsTyped DEF RemarkInv, CommentsTypeOK
  <2>15. \A c \in changes' : c.saw = c.had
    BY <2>8, <2>9 DEF RemarkInv
  <2>16. EventsFit'
    <3>1. \A i \in DOMAIN remarkEvents : remarkEvents[i].remark \in Remarks
      <4>1. \A x \in RemarkEvent : x.remark \in Remarks
        BY DEF RemarkEvent
      <4>2. \A i \in DOMAIN remarkEvents : remarkEvents[i] \in RemarkEvent
        BY DEF RemarkInv, CommentsTypeOK
      <4> QED BY <4>1, <4>2
    <3> QED BY <2>9, <2>13, <3>1 DEF RemarkInv, EventsFit
  <2>17. \A t \in Remarks : \A f : MayTell(t, f)' <=> MayTell(t, f)
    BY <2>9, <2>13 DEF MayTell
  <2>18. ASSUME NEW t \in Remarks PROVE Untouched(t)' /\ ChangesFit(t)' /\ RemarkTold(t)'
    <3>1. Untouched(t) /\ ChangesFit(t) /\ RemarkTold(t)
      BY DEF RemarkInv
    <3>2. RemarkTold(t)'
      <4>1. \A d \in Posters : poster[d].pc = "created" => poster'[d] = poster[d]
        BY <1>1, <1>2, <2>12
      <4> QED BY <2>9, <2>13, <2>17, <3>1, <4>1 DEF RemarkTold
    <3>3. CASE t # r
      <4>1. remark'[t] = remark[t] /\ \A c \in changes' : c \in changes \/ c.remark # t
        BY <2>8, <2>9, <2>11, <3>3
      <4>2. ChangesOf(t)' = ChangesOf(t)
        BY <2>9, <4>1 DEF ChangesOf
      <4>3. ChangesFit(t)'
        BY <2>9, <3>1, <4>1, <4>2 DEF ChangesFit
      <4>4. Untouched(t)'
        BY <2>9, <3>1, <4>1 DEF Untouched
      <4> QED BY <3>2, <4>3, <4>4
    <3>4. CASE t = r
      <4>1. remark'[t] = new /\ remark[t] = old
        BY <1>3, <2>11, <3>4
      <4>2. Untouched(t)'
        BY <2>4, <2>6, <4>1 DEF Untouched
      <4>3. ChangesOf(t)' = ChangesOf(t) \cup {w}
        BY <2>8, <2>9, <3>4 DEF ChangesOf
      <4>4. ChangesOf(t)' = 2..w
        <5>1. ChangesOf(t) = 2..v
          BY <2>2, <3>1, <4>1 DEF ChangesFit
        <5>2. (2..v) \cup {w} = 2..w
          BY <2>2, <2>3
        <5> QED BY <4>3, <5>1, <5>2
      <4>5. \A d \in changes : d.remark = t => d.op # "delete"
        BY <2>1, <3>1, <4>1 DEF ChangesFit
      <4>6. status = "DELETED" <=> op = "delete"
        BY <2>1, <2>4
      <4>7. ChangesFit(t)'
        BY <2>3, <2>6, <2>8, <2>9, <3>4, <4>1, <4>4, <4>5, <4>6 DEF ChangesFit
      <4> QED BY <3>2, <4>2, <4>7
    <3> QED BY <3>3, <3>4
  <2>19. ASSUME NEW d \in Posters PROVE PostFits(poster[d])'
    <3>1. CASE d = p
      <4>1. poster'[d] = NoPost
        BY <2>12, <3>1
      <4>2. PostFits(NoPost)'
        BY PostsTyped
      <4> QED BY <4>1, <4>2 DEF PostFits, MayTell
    <3>2. CASE d # p
      <4>1. PICK x \in Post : x = poster[d] /\ PostFits(x)
        BY DEF RemarkInv, CommentsTypeOK
      <4>2. poster'[d] = x
        BY <2>12, <3>2, <4>1
      <4>3. x.op # "none" => x.remark \in Remarks
        BY <4>1 DEF PostFits
      <4>4. x.pc = "created" => x.op = "create"
        BY <4>1 DEF PostFits
      <4>5. x.pc = "created" => \A i \in DOMAIN x.told : MayTell(x.remark, x.told[i])'
        BY <2>17, <4>1, <4>3, <4>4 DEF PostFits
      <4>6. x.op \in {"edit", "delete"} =>
              /\ remark'[x.remark].status # "NONE"
              /\ x.row.version <= remark'[x.remark].version
              /\ x.row.version = remark'[x.remark].version => remark'[x.remark] = x.row
        <5>1. x.row.version \in Nat
          BY DEF Post, Remark
        <5>2. CASE x.remark = r
          BY <1>3, <2>2, <2>3, <2>4, <2>6, <2>11, <4>1, <5>1, <5>2 DEF PostFits
        <5>3. CASE x.remark # r
          BY <2>11, <4>1, <4>3, <5>3 DEF PostFits
        <5> QED BY <5>2, <5>3
      <4>7. x.op = "create" => /\ remark'[x.remark].status = "NONE" <=> remark[x.remark].status = "NONE"
                               /\ remark'[x.remark].author = remark[x.remark].author
                               /\ remark'[x.remark].visibility = remark[x.remark].visibility
        BY <2>13, <4>3
      <4>8. PostFits(x)'
        BY <2>9, <4>1, <4>4, <4>5, <4>6, <4>7 DEF PostFits
      <4> QED BY <4>2, <4>8 DEF PostFits, MayTell
    <3> QED BY <3>1, <3>2
  <2>20. (\A d, x \in Posters : d # x /\ poster[d].op = "create" /\ poster[x].op = "create" =>
                                  poster[d].remark # poster[x].remark)'
    BY <2>12, PostsTyped DEF RemarkInv
  <2> QED BY <2>14, <2>15, <2>16, <2>18, <2>19, <2>20 DEF RemarkInv
<1> QED BY <1>4, <1>5

LEMMA RemarkStep == RemarkInv /\ [CommentsNext]_commentVars => RemarkInv'
<1> SUFFICES ASSUME RemarkInv, [CommentsNext]_commentVars
             PROVE  RemarkInv'
  OBVIOUS
<1>1. ASSUME NEW p \in Posters, NEW f \in Folk, NEW x \in Bodies, NEW v \in RemarkVisibility,
             CreateComment(p, f, x, v)
      PROVE  RemarkInv'
  BY <1>1, CreateCommentStep
<1>2. ASSUME NEW p \in Posters, CreateWithAudit(p)
      PROVE  RemarkInv'
  BY <1>2, CreateWithAuditStep
<1>3. ASSUME NEW p \in Posters, NEW arrives \in BOOLEAN, TellNext(p, arrives)
      PROVE  RemarkInv'
  BY <1>3, TellNextStep
<1>4. ASSUME NEW p \in Posters, TellSla(p)
      PROVE  RemarkInv'
  BY <1>4, TellSlaStep
<1>5. ASSUME NEW p \in Posters, NEW r \in Remarks, NEW x \in Bodies, UpdateComment(p, r, x)
      PROVE  RemarkInv'
  BY <1>5, CheckedStep DEF UpdateComment
<1>6. ASSUME NEW p \in Posters, NEW r \in Remarks, SoftDeleteComment(p, r)
      PROVE  RemarkInv'
  <2>1. remark[r].body \in Bodies
    BY DEF RemarkInv, CommentsTypeOK, Remark
  <2> QED BY <1>6, <2>1, CheckedStep DEF SoftDeleteComment
<1>7. ASSUME NEW p \in Posters, NEW op \in {"edit", "delete"}, UpdateWithAudit(p, op)
      PROVE  RemarkInv'
  BY <1>7, UpdateWithAuditStep
<1>8. ASSUME NEW p \in Posters, PosterDies(p)
      PROVE  RemarkInv'
  BY <1>8, PosterDiesStep
<1>9. ASSUME NEW f \in Folk \cup {Nobody}, HandlerChanges(f)
      PROVE  RemarkInv'
  <2>1. expired \subseteq Remarks
    BY DEF RemarkInv, CommentsTypeOK
  <2> QED BY <1>9, <2>1, AroundRemarks DEF HandlerChanges
<1>10. ASSUME NEW r \in Remarks, WindowEnds(r)
       PROVE  RemarkInv'
  <2>1. expired' \subseteq Remarks /\ handler' \in Folk \cup {Nobody}
    BY <1>10 DEF WindowEnds, RemarkInv, CommentsTypeOK
  <2> QED BY <1>10, <2>1, AroundRemarks DEF WindowEnds
<1>11. ASSUME UNCHANGED commentVars
       PROVE  RemarkInv'
  <2>1. expired' \subseteq Remarks /\ handler' \in Folk \cup {Nobody}
    BY <1>11 DEF commentVars, RemarkInv, CommentsTypeOK
  <2> QED BY <1>11, <2>1, AroundRemarks DEF commentVars
<1> QED BY <1>1, <1>2, <1>3, <1>4, <1>5, <1>6, <1>7, <1>8, <1>9, <1>10, <1>11 DEF CommentsNext

LEMMA RemarkStart == CommentsInit => RemarkInv
<1> SUFFICES ASSUME CommentsInit
             PROVE  RemarkInv
  OBVIOUS
<1>1. /\ \A r \in Remarks : remark[r] = NoRemarkRow
      /\ \A p \in Posters : poster[p] = NoPost
      /\ \A r \in Remarks, f \in Folk : remarkNotices[<<r, f>>] = 0
  BY DEF CommentsInit
<1>2. CommentsTypeOK
  <2>1. remarkNotices \in [Remarks \X Folk -> Nat]
    BY DEF CommentsInit
  <2>2. remarkEvents \in Seq(RemarkEvent)
    BY DEF CommentsInit
  <2> QED BY <2>1, <2>2, PostsTyped DEF CommentsInit, CommentsTypeOK
<1>3. changes = {} /\ answered = {} /\ cut = {} /\ remarkEvents = <<>>
  BY DEF CommentsInit
<1>4. EventsFit
  BY <1>1, <1>3, PostsTyped DEF EventsFit
<1>5. ASSUME NEW r \in Remarks PROVE Untouched(r) /\ ChangesFit(r) /\ RemarkTold(r)
  <2>1. remark[r].status = "NONE" /\ remark[r].version = 1
    BY <1>1, PostsTyped
  <2>2. 2..1 = {}
    OBVIOUS
  <2>3. ChangesFit(r)
    BY <1>3, <2>1, <2>2 DEF ChangesFit, ChangesOf
  <2> QED BY <1>1, <1>3, <2>1, <2>3 DEF Untouched, RemarkTold
<1>6. \A p \in Posters : PostFits(poster[p])
  BY <1>1, PostsTyped
<1> QED BY <1>1, <1>2, <1>3, <1>4, <1>5, <1>6, PostsTyped DEF RemarkInv

LEMMA RemarksHold == RemarkInv => CommentsTypeOK /\ CommentsSound
<1> SUFFICES ASSUME RemarkInv
             PROVE  CommentsTypeOK /\ CommentsSound
  OBVIOUS
<1>1. CommentsTypeOK
  BY DEF RemarkInv
<1>2. ChangesAreInOrder
  <2>1. \A c \in changes : c.saw = c.had /\ c.remark \in Remarks
    BY DEF RemarkInv, CommentsTypeOK, Change
  <2>2. \A r \in Remarks : {c.version : c \in {d \in changes : d.remark = r}} = 2..remark[r].version
    BY DEF RemarkInv, ChangesFit, ChangesOf
  <2>3. \A c \in changes : /\ remark[c.remark].status = "DELETED" <=>
                                \E d \in changes : d.remark = c.remark /\ d.op = "delete"
                           /\ c.op = "delete" => c.version = remark[c.remark].version
    BY <2>1 DEF RemarkInv, ChangesFit
  <2> QED BY <2>1, <2>2, <2>3 DEF ChangesAreInOrder
<1>3. RemarkIffEvent
  <2> SUFFICES ASSUME NEW r \in Remarks
               PROVE  Cardinality({i \in DOMAIN remarkEvents : remarkEvents[i].remark = r}) =
                        IF remark[r].status = "NONE" THEN 0 ELSE 1
    BY DEF RemarkIffEvent
  <2>1. CASE remark[r].status = "NONE"
    <3>1. {i \in DOMAIN remarkEvents : remarkEvents[i].remark = r} = {}
      BY <2>1 DEF RemarkInv, EventsFit
    <3> QED BY <2>1, <3>1, FS_EmptySet
  <2>2. CASE remark[r].status # "NONE"
    <3>1. PICK i \in DOMAIN remarkEvents : remarkEvents[i].remark = r
      BY <2>2 DEF RemarkInv, EventsFit
    <3>2. {j \in DOMAIN remarkEvents : remarkEvents[j].remark = r} = {i}
      BY <3>1 DEF RemarkInv, EventsFit
    <3> QED BY <2>2, <3>2, FS_Singleton
  <2> QED BY <2>1, <2>2
<1>4. NoticesFit
  BY DEF NoticesFit, RemarkInv, RemarkTold, MayTell
<1>5. ResponsesCount
  BY DEF ResponsesCount, RemarkInv, RemarkTold, Untouched
<1> QED BY <1>1, <1>2, <1>3, <1>4, <1>5 DEF CommentsSound

\* What a request on a comment has read stays good enough until it writes: the
\* transaction writes a comment and its event at once, the version in the WHERE
\* clause refuses an edit of a row that has moved on, and those a call still has to
\* tell were not told (comments.service.ts, comments.repository.ts).
THEOREM RemarkInvariant == CommentsSpec => []RemarkInv
BY RemarkStart, RemarkStep, PTL DEF CommentsSpec

\* Whatever requests on comments overlap, and wherever they die: changes are in order,
\* a comment and its event exist together, nobody is told twice or of what they may not
\* see, and the SLA engine hears of every public comment whose call was not cut short.
THEOREM CommentsAreSound == CommentsSpec => []CommentsSound
BY RemarksHold, RemarkInvariant, PTL

-----------------------------------------------------------------------------
(* The components side by side                                             *)

\* What surrounds the tickets, of the component that runs.
AroundInv ==
  /\ part = "comments" => RemarkInv
  /\ part = "forms"    => FormInv
  /\ part = "rules"    => RuleInv

\* What is said of comments, of service forms and of what workflows may say holds for all
\* values of the constants, as the run has it on a small instance.
THEOREM DeskIsSound == MCSpec => []DeskSound
<1>1. MCInit => AroundInv
  BY RemarkStart, FormStart, RuleStart DEF MCInit, AroundInv
<1>2. AroundInv /\ [MCNext]_<<part, vars, commentVars, taxonomyVars, formVars, ruleVars>> => AroundInv'
  <2> SUFFICES ASSUME AroundInv,
                      [MCNext]_<<part, vars, commentVars, taxonomyVars, formVars, ruleVars>>
               PROVE  AroundInv'
    OBVIOUS
  <2>1. /\ UNCHANGED part
        /\ part = "comments" => [CommentsNext]_commentVars
        /\ part = "forms" => [FormNext]_formVars
        /\ part = "rules" => [RulesNext]_ruleVars
    BY DEF MCNext
  <2> QED BY <2>1, RemarkStep, FormStep, RuleStep DEF AroundInv
<1>3. AroundInv => DeskSound
  BY RemarksHold, FormsHold, RulesHold DEF AroundInv, DeskSound
<1> QED BY <1>1, <1>2, <1>3, PTL DEF MCSpec

=============================================================================
