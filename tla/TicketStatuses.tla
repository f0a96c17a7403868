--------------------------- MODULE TicketStatuses ---------------------------
(* The statuses of a ticket and the moves a person may make between them.   *)

TicketStatus == {"NEW", "OPEN", "PENDING", "ON_HOLD", "SOLVED", "CLOSED"}

VALID_TRANSITIONS ==
  [NEW     |-> {"OPEN", "SOLVED"},
   OPEN    |-> {"PENDING", "ON_HOLD", "SOLVED"},
   PENDING |-> {"OPEN", "SOLVED"},
   ON_HOLD |-> {"OPEN", "SOLVED"},
   SOLVED  |-> {"OPEN", "CLOSED"},
   CLOSED  |-> {}]

\* Mutant: a closed ticket may be reopened.
MutantReopenClosed(from, to) == from = to \/ to \in VALID_TRANSITIONS[from] \/ from = "CLOSED"

AllowedTransition(from, to) == from = to \/ to \in VALID_TRANSITIONS[from]
=============================================================================
