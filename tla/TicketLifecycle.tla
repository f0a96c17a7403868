-------------------------- MODULE TicketLifecycle --------------------------
(***************************************************************************)
(* Tickets under optimistic concurrency: people's commands through         *)
(* TicketsService / TicketAggregate / TicketsRepository, and the workflow  *)
(* executors that write the same rows from their own transactions.         *)
(*                                                                         *)
(* A command of a person is built on a version the person has seen.  The   *)
(* service loads the ticket, checks the version and changes it in memory;  *)
(* updateWithAudit then re-reads the row and writes it WHERE version is the *)
(* expected one, with the audit row and the outbox event in the same READ  *)
(* COMMITTED transaction.  Each of these reads and writes is a step below. *)
(*                                                                         *)
(* Abstractions: one tenant; title, description, priority, channel, type   *)
(* and due date are one "other fields" write that only bumps the version;  *)
(* timestamps are "set or not"; groups, which every path of a person       *)
(* rejects, are left out.                                                  *)
(***************************************************************************)
EXTENDS Naturals, FiniteSets, TicketStatuses

CONSTANTS
  Tickets,             \* identities of ticket rows
  Clients,             \* people's requests in progress
  Jobs,                \* workflow action transactions in progress
  Users,               \* active members of the tenant
  NoUser,              \* assignee_user_id IS NULL
  Correlations,        \* x-correlation-id values clients send more than once
  FreshCorrelation,    \* an id the middleware generates: unique every time
  AutomationTargets,   \* statuses the published workflows change tickets to
  MaxVersion           \* bound: the version no command goes beyond

ASSUME LifecycleConstants ==
  /\ NoUser \notin Users
  /\ FreshCorrelation \notin Correlations
  /\ MaxVersion \in Nat \ {0}
  /\ Tickets # {}

ASSUME FiniteTickets == IsFiniteSet(Tickets)

ASSUME TargetsAreStatuses == AutomationTargets \subseteq TicketStatus

VARIABLES
  tickets,    \* ticket rows
  keys,       \* outbox dedupe keys built from a reused correlation id
  heard,      \* history: what the outbox events, in commit order, say of a ticket
  misled,     \* history: who announced a fromStatus that was not the last one heard
  session,    \* people's requests
  job         \* workflow action transactions

vars == <<tickets, keys, heard, misled, session, job>>

Row == [present  : BOOLEAN,
        ref      : Nat,                    \* the number in TKT-<1000 + ref>
        status   : TicketStatus,
        assignee : Users \cup {NoUser},
        solved   : BOOLEAN,                \* solved_at IS NOT NULL
        closed   : BOOLEAN,                \* closed_at IS NOT NULL
        version  : Nat]

NoRow == [present |-> FALSE, ref |-> 0, status |-> "NEW", assignee |-> NoUser,
          solved |-> FALSE, closed |-> FALSE, version |-> 0]

Heard == [status : TicketStatus, assignee : Users \cup {NoUser}, version : Nat]

\* dedupeKey of a person's event: type, ticket and correlation id.
EventKeys == {"ticket.created", "ticket.status_changed", "ticket.assigned"}
               \X Tickets \X Correlations

\* A request: the row the person saw, the aggregate after the command, and the
\* row updateWithAudit read before writing.
Session == [pc     : {"idle", "creating", "viewed", "loaded", "writing"},
            ticket : Tickets,
            count  : Nat,
            saw    : Row,
            new    : Row,
            prev   : Row,
            corr   : Correlations \cup {FreshCorrelation}]

IdleSession(t) == [pc |-> "idle", ticket |-> t, count |-> 0, saw |-> NoRow, new |-> NoRow,
                   prev |-> NoRow, corr |-> FreshCorrelation]

\* A workflow action transaction: the row its executor read.
Job == [pc : {"idle", "read"}, ticket : Tickets, saw : Row]

Present == {t \in Tickets : tickets[t].present}

TypeOK ==
  /\ tickets \in [Tickets -> Row]
  /\ keys \subseteq EventKeys
  /\ heard \in [Tickets -> Heard]
  /\ misled \subseteq {"person", "workflow"}
  /\ session \in [Clients -> Session]
  /\ job \in [Jobs -> Job]

SomeTicket == CHOOSE t \in Tickets : TRUE

Init ==
  /\ tickets = [t \in Tickets |-> NoRow]
  /\ keys = {}
  /\ heard = [t \in Tickets |-> [status |-> "NEW", assignee |-> NoUser, version |-> 0]]
  /\ misled = {}
  /\ session = [c \in Clients |-> IdleSession(SomeTicket)]
  /\ job = [j \in Jobs |-> [pc |-> "idle", ticket |-> SomeTicket, saw |-> NoRow]]

-----------------------------------------------------------------------------
(* TicketAggregate: what a command makes of the loaded ticket              *)

\* Mutant: reopening keeps solved_at.
MutantKeepSolved(r, to) ==
  IF r.status = to THEN r
  ELSE [r EXCEPT !.status = to, !.solved = @ \/ to = "SOLVED", !.closed = @ \/ to = "CLOSED",
                 !.version = @ + 1]

\* transitionTo: the same status changes nothing, not even the version.
TransitionTo(r, to) ==
  IF r.status = to THEN r
  ELSE [r EXCEPT !.status = to,
                 !.solved = IF to = "SOLVED" THEN TRUE ELSE IF to = "OPEN" THEN FALSE ELSE @,
                 !.closed = @ \/ to = "CLOSED",
                 !.version = @ + 1]

\* updateFields, with or without an assignee: no status forbids it.
UpdateFields(r, a) == [r EXCEPT !.assignee = a, !.version = @ + 1]

\* assign and unassign refuse a closed ticket.
Assign(r, a) == [r EXCEPT !.assignee = a, !.version = @ + 1]

\* The aggregates the service may end up with for some command of a person.
Outcomes(r) ==
  {TransitionTo(r, to) : to \in {s \in TicketStatus : AllowedTransition(r.status, s)}}
    \cup {UpdateFields(r, a) : a \in Users \cup {NoUser}}
    \cup (IF r.status = "CLOSED" THEN {} ELSE {Assign(r, a) : a \in Users \cup {NoUser}})

-----------------------------------------------------------------------------
(* Outbox events of a ticket write                                         *)

\* Mutant: the update forgets the event of a new assignee.
MutantStatusOnly(prev, new) == IF prev.status = new.status THEN {} ELSE {"ticket.status_changed"}

\* Mutant: one generic event type that is not in the event contract.
MutantGenericEvent(prev, new) == IF prev = new THEN {} ELSE {"ticket.updated"}

\* Types of the events updateWithAudit appends: it compares the row it read in
\* the transaction with what it wrote.
EventsOf(prev, new) ==
  {ty \in {"ticket.status_changed", "ticket.assigned"} :
     \/ ty = "ticket.status_changed" /\ prev.status # new.status
     \/ ty = "ticket.assigned" /\ prev.assignee # new.assignee}

KeysOf(types, t, corr) == {ty \in types : corr \in Correlations} \X {t} \X {corr}

\* The unique index refuses an event whose key is there.
Insertable(types, t, corr) == KeysOf(types, t, corr) \cap keys = {}

\* A consumer of the outbox takes the payload of the event for the truth.
Announce(t, types, r) ==
  heard' = [heard EXCEPT ![t] = IF types = {} THEN @
              ELSE [status |-> r.status, assignee |-> r.assignee, version |-> r.version]]

\* Does the event tell a change from a status nobody heard of?
Misleads(t, types, prev) ==
  "ticket.status_changed" \in types /\ prev.status # heard[t].status

-----------------------------------------------------------------------------
(* createTicket                                                            *)

\* createWithAudit, serializable: count the tenant's tickets ...
BeginCreate(c, t, corr) ==
  /\ session[c].pc = "idle"
  /\ ~tickets[t].present
  /\ session' = [session EXCEPT ![c] =
                   [IdleSession(t) EXCEPT !.pc = "creating", !.corr = corr,
                                          !.count = Cardinality(Present)]]
  /\ UNCHANGED <<tickets, keys, heard, misled, job>>

\* Mutant: the count and the insert are not serializable.
MutantStaleCount(c) == TRUE

\* Serializable isolation lets at most one of two overlapping creates commit.
CountStillHolds(c) == Cardinality(Present) = session[c].count

\* ... and insert the ticket under the next reference, with its event.
CommitCreate(c) ==
  LET t == session[c].ticket
      r == [NoRow EXCEPT !.present = TRUE, !.ref = session[c].count + 1, !.version = 1]
  IN  /\ session[c].pc = "creating"
      /\ ~tickets[t].present
      /\ CountStillHolds(c)
      /\ Insertable({"ticket.created"}, t, session[c].corr)
      /\ \E a \in Users \cup {NoUser} :
           /\ tickets' = [tickets EXCEPT ![t] = [r EXCEPT !.assignee = a]]
           /\ Announce(t, {"ticket.created"}, [r EXCEPT !.assignee = a])
      /\ keys' = keys \cup KeysOf({"ticket.created"}, t, session[c].corr)
      /\ session' = [session EXCEPT ![c] = IdleSession(SomeTicket)]
      /\ UNCHANGED <<misled, job>>

-----------------------------------------------------------------------------
(* updateTicket, transitionStatus, assignTicket, unassignTicket            *)

\* The person reads the ticket: the version of a later command.
View(c, t) ==
  /\ session[c].pc = "idle"
  /\ tickets[t].present
  /\ tickets[t].version < MaxVersion
  /\ session' = [session EXCEPT ![c] = [IdleSession(t) EXCEPT !.pc = "viewed", !.saw = tickets[t]]]
  /\ UNCHANGED <<tickets, keys, heard, misled, job>>

\* verifyVersion against the version the person saw.
VersionMatches(r, saw) == r.version = saw.version

\* The service loads the ticket and applies the command to it in memory.
Load(c, corr) ==
  LET t == session[c].ticket
  IN  /\ session[c].pc = "viewed"
      /\ VersionMatches(tickets[t], session[c].saw)
      /\ \E r \in Outcomes(tickets[t]) :
           session' = [session EXCEPT ![c] = [@ EXCEPT !.pc = "loaded", !.new = r, !.corr = corr]]
      /\ UNCHANGED <<tickets, keys, heard, misled, job>>

\* updateWithAudit reads the row again, for the events.
ReadPrevious(c) ==
  /\ session[c].pc = "loaded"
  /\ session' = [session EXCEPT ![c] = [@ EXCEPT !.pc = "writing",
                                                 !.prev = tickets[session[c].ticket]]]
  /\ UNCHANGED <<tickets, keys, heard, misled, job>>

\* Mutant: the write compares with the version re-read in the transaction.
MutantFreshVersion(c) == tickets[session[c].ticket].version = session[c].prev.version

\* Mutant: the write is by id alone.
MutantUnguarded(c) == TRUE

\* updateMany ... WHERE version = expectedVersion.
WriteGuard(c) == tickets[session[c].ticket].version = session[c].saw.version

\* The transaction writes every column of the aggregate, and the events.
CommitUpdate(c) ==
  LET s == session[c]
      types == EventsOf(s.prev, s.new)
  IN  /\ s.pc = "writing"
      /\ WriteGuard(c)
      /\ Insertable(types, s.ticket, s.corr)
      /\ tickets' = [tickets EXCEPT ![s.ticket] = s.new]
      /\ keys' = keys \cup KeysOf(types, s.ticket, s.corr)
      /\ Announce(s.ticket, types, s.new)
      /\ misled' = IF Misleads(s.ticket, types, s.prev) THEN misled \cup {"person"} ELSE misled
      /\ session' = [session EXCEPT ![c] = IdleSession(SomeTicket)]
      /\ UNCHANGED job

\* The request ends without a write: a version conflict at either check, a
\* serialization failure, a reused dedupe key, a refused command, a crash.
Abandon(c) ==
  /\ session[c].pc # "idle"
  /\ session' = [session EXCEPT ![c] = IdleSession(SomeTicket)]
  /\ UNCHANGED <<tickets, keys, heard, misled, job>>

-----------------------------------------------------------------------------
(* Workflow executors, in the transaction of their action                  *)

\* change_status and assign read the ticket first.
JobRead(j, t) ==
  /\ job[j].pc = "idle"
  /\ tickets[t].present
  /\ tickets[t].version < MaxVersion
  /\ job' = [job EXCEPT ![j] = [pc |-> "read", ticket |-> t, saw |-> tickets[t]]]
  /\ UNCHANGED <<tickets, keys, heard, misled, session>>

JobDone(j) == job' = [job EXCEPT ![j] = [pc |-> "idle", ticket |-> SomeTicket, saw |-> NoRow]]

\* Mutant: the executors leave the version alone.
MutantSameVersion(r) == r

BumpVersion(r) == [r EXCEPT !.version = @ + 1]

\* change_status writes by id alone: neither the version it read nor the
\* legality of the transition is checked, and solved_at and closed_at go back
\* to what was read unless the target sets them.
JobChangeStatus(j, to) ==
  LET t == job[j].ticket
      saw == job[j].saw
      r == [BumpVersion(tickets[t]) EXCEPT
              !.status = to,
              !.solved = (to = "SOLVED") \/ saw.solved,
              !.closed = (to = "CLOSED") \/ saw.closed]
      types == {"ticket.status_changed"}
  IN  /\ job[j].pc = "read"
      /\ saw.status # to
      /\ tickets' = [tickets EXCEPT ![t] = r]
      /\ Announce(t, types, r)
      /\ misled' = IF Misleads(t, types, saw) THEN misled \cup {"workflow"} ELSE misled
      /\ JobDone(j)
      /\ UNCHANGED <<keys, session>>

\* assign writes the assignee whether or not the ticket is closed.
JobAssign(j, a) ==
  LET t == job[j].ticket
      r == [BumpVersion(tickets[t]) EXCEPT !.assignee = a]
  IN  /\ job[j].pc = "read"
      /\ tickets' = [tickets EXCEPT ![t] = r]
      /\ Announce(t, {"ticket.assigned"}, r)
      /\ JobDone(j)
      /\ UNCHANGED <<keys, misled, session>>

\* The ticket is in the target status already, or the transaction rolls back.
JobNoop(j) ==
  /\ job[j].pc = "read"
  /\ JobDone(j)
  /\ UNCHANGED <<tickets, keys, heard, misled, session>>

-----------------------------------------------------------------------------

PersonStep(c) ==
  \/ \E t \in Tickets, corr \in Correlations \cup {FreshCorrelation} : BeginCreate(c, t, corr)
  \/ CommitCreate(c)
  \/ \E t \in Tickets : View(c, t)
  \/ \E corr \in Correlations \cup {FreshCorrelation} : Load(c, corr)
  \/ ReadPrevious(c)
  \/ CommitUpdate(c)
  \/ Abandon(c)

JobStep(j) ==
  \/ \E t \in Tickets : JobRead(j, t)
  \/ \E s \in AutomationTargets : JobChangeStatus(j, s)
  \/ \E a \in Users \cup {NoUser} : JobAssign(j, a)
  \/ JobNoop(j)

Next == (\E c \in Clients : PersonStep(c)) \/ (\E j \in Jobs : JobStep(j))

Spec == Init /\ [][Next]_vars

-----------------------------------------------------------------------------
(* Properties                                                              *)

\* The ticket a step of a person's request writes.
Writes(c, t) ==
  session[c].pc = "writing" /\ session'[c].pc = "idle" /\ session[c].ticket = t
    /\ tickets'[t] # tickets[t]

\* "Concurrent edits produce one winner": a command commits only onto exactly
\* the ticket its author was looking at, whoever wrote in between.
NoLostUpdate ==
  [][\A c \in Clients, t \in Tickets : Writes(c, t) => tickets[t] = session[c].saw]_vars

\* People move tickets along VALID_TRANSITIONS only, judged on the row as it is
\* when the write commits and not as it was when it was loaded.
PeopleFollowLifecycle ==
  [][\A c \in Clients, t \in Tickets :
       Writes(c, t) => AllowedTransition(tickets[t].status, tickets'[t].status)]_vars

\* Every content of a ticket has a version of its own, and versions only grow:
\* what optimistic concurrency rests on, for people and executors alike.
VersionTellsContent ==
  [][\A t \in Tickets : tickets'[t] # tickets[t] => tickets'[t].version = tickets[t].version + 1]_vars

\* A consumer that applies the outbox events in commit order knows the status
\* and the assignee of every ticket: no write of either goes unannounced.
ConsumersConverge ==
  \A t \in Present :
    heard[t].status = tickets[t].status /\ heard[t].assignee = tickets[t].assignee

\* The ticketVersion of the events of one ticket strictly increases, so that a
\* consumer can tell an old event from a new one.
AnnouncedVersionsGrow ==
  [][\A t \in Tickets : heard'[t] # heard[t] => heard'[t].version > heard[t].version]_vars

\* The fromStatus of an event of a person's command is the toStatus of the event
\* before it: the row read for it cannot be older than the row written.
PeopleAreNotMisleading == "person" \notin misled

\* No two tickets of a tenant share a public reference, and references are dense.
RefsAreUnique ==
  /\ \A t, u \in Present : tickets[t].ref = tickets[u].ref => t = u
  /\ {tickets[t].ref : t \in Present} = 1..Cardinality(Present)

\* docs/09: "closed is terminal".
ClosedIsTerminal ==
  [][\A t \in Tickets : tickets[t].status = "CLOSED" => tickets'[t].status = "CLOSED"]_vars

\* solved_at and closed_at tell the status ("Reopening clears solvedAt").
TimestampsTellStatus ==
  \A t \in Present : /\ tickets[t].solved <=> tickets[t].status \in {"SOLVED", "CLOSED"}
                     /\ tickets[t].closed <=> tickets[t].status = "CLOSED"

\* A command of a person, with its three reads and its write, is one step of
\* TicketPromise: it happens when it commits, to the ticket as it then is, and
\* what it changes is told with it.
Atomic == INSTANCE TicketPromise WITH
  row <- tickets, told <- heard, surprised <- misled

CommandsAreAtomic == Atomic!PromiseSpec
=============================================================================
