--------------------------- MODULE TicketPromise ---------------------------
(***************************************************************************)
(* What tickets promise, whatever requests and workflow actions overlap:   *)
(* a command of a person happens at one moment, to the ticket as it then   *)
(* is, or not at all; whatever it or a workflow changes of status and      *)
(* assignee is told at that very moment; every write has a version of its  *)
(* own; and it is never a person's event that tells of a change from a     *)
(* status nobody was told of.                                              *)
(*                                                                         *)
(* A workflow is promised less: it may move a ticket to any status it      *)
(* names, and sets solved_at and closed_at back to what they once were.    *)
(***************************************************************************)
EXTENDS Naturals, FiniteSets, TicketStatuses

CONSTANTS
  Tickets,             \* identities of tickets
  Users,               \* who a ticket may be assigned to
  NoUser,              \* nobody
  AutomationTargets    \* statuses workflows may move tickets to

VARIABLES
  row,          \* the tickets
  told,         \* what was last told of each
  surprised     \* who told of a change from a status nobody was told of

promiseVars == <<row, told, surprised>>

Blank == [present |-> FALSE, ref |-> 0, status |-> "NEW", assignee |-> NoUser,
          solved |-> FALSE, closed |-> FALSE, version |-> 0]

Tidings(r) == [status |-> r.status, assignee |-> r.assignee, version |-> r.version]

PromiseInit ==
  /\ row = [t \in Tickets |-> Blank]
  /\ told = [t \in Tickets |-> Tidings(Blank)]
  /\ surprised = {}

WriteAndTell(t, r) ==
  /\ row' = [row EXCEPT ![t] = r]
  /\ told' = [told EXCEPT ![t] = Tidings(r)]

-----------------------------------------------------------------------------
(* People                                                                  *)

\* References number the tickets as they are created.
Create(t, a) ==
  /\ ~row[t].present
  /\ WriteAndTell(t, [Blank EXCEPT !.present = TRUE, !.assignee = a, !.version = 1,
                                   !.ref = Cardinality({u \in Tickets : row[u].present}) + 1])
  /\ UNCHANGED surprised

Move(t, to) ==
  /\ row[t].present
  /\ to \in VALID_TRANSITIONS[row[t].status]
  /\ WriteAndTell(t, [row[t] EXCEPT !.status = to,
                                    !.solved = to = "SOLVED" \/ (@ /\ to # "OPEN"),
                                    !.closed = @ \/ to = "CLOSED",
                                    !.version = @ + 1])
  /\ UNCHANGED surprised

Reassign(t, a) ==
  /\ row[t].present
  /\ a # row[t].assignee
  /\ WriteAndTell(t, [row[t] EXCEPT !.assignee = a, !.version = @ + 1])
  /\ UNCHANGED surprised

\* Fields no event tells of.
Edit(t) ==
  /\ row[t].present
  /\ row' = [row EXCEPT ![t].version = @ + 1]
  /\ UNCHANGED <<told, surprised>>

-----------------------------------------------------------------------------
(* Workflows                                                               *)

AutomationMoves(t, to, solved, closed) ==
  /\ row[t].present
  /\ WriteAndTell(t, [row[t] EXCEPT !.status = to,
                                    !.solved = to = "SOLVED" \/ solved,
                                    !.closed = to = "CLOSED" \/ closed,
                                    !.version = @ + 1])
  /\ surprised' \in {surprised, surprised \cup {"workflow"}}

AutomationAssigns(t, a) ==
  /\ row[t].present
  /\ WriteAndTell(t, [row[t] EXCEPT !.assignee = a, !.version = @ + 1])
  /\ UNCHANGED surprised

\* Every step writes one ticket.
PromiseNext ==
  \E t \in Tickets :
    /\ row'[t].version # row[t].version
    /\ \/ \E a \in Users \cup {NoUser} : Create(t, a) \/ Reassign(t, a) \/ AutomationAssigns(t, a)
       \/ \E to \in TicketStatus : Move(t, to)
       \/ Edit(t)
       \/ \E to \in AutomationTargets, solved, closed \in BOOLEAN :
            AutomationMoves(t, to, solved, closed)

PromiseSpec == PromiseInit /\ [][PromiseNext]_promiseVars
=============================================================================
