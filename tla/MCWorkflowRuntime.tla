------------------------- MODULE MCWorkflowRuntime -------------------------
(* Small instances of WorkflowRuntime for TLC.                             *)
EXTENDS WorkflowRuntime, TLC

\* The first workflow assigns every ticket whose status changes, notifies and
\* ends with an action nothing executes; the second reopens a ticket that is
\* assigned while solved.
MCTriggers   == <<{"ticket.status_changed"}, {"ticket.assigned"}>>
MCConditions == <<{"open", "solved"}, {"solved"}>>
MCActions    == <<
  <<[kind |-> "assign", to |-> "open"],
    [kind |-> "create_notification", to |-> "open"],
    [kind |-> "unregistered", to |-> "open"]>>,
  <<[kind |-> "change_status", to |-> "open"]>> >>

\* For the run that also checks liveness: fewer actions, and one event that
\* triggers both workflows.
MCLeaseTriggers == <<{"ticket.status_changed"}, {"ticket.status_changed"}>>
MCLeaseActions == <<
  <<[kind |-> "assign", to |-> "open"], [kind |-> "unregistered", to |-> "open"]>>,
  <<[kind |-> "change_status", to |-> "open"]>> >>

MCWorkersEvents == Permutations(Workers) \cup Permutations(Events)
=============================================================================
