----------------------------- MODULE WorkflowRules -----------------------------
(***************************************************************************)
(* What a workflow may say: the validation a draft meets when it is saved  *)
(* and when it is published, and what the executors and the evaluator of   *)
(* conditions make of a definition that has been let through.              *)
(*                                                                         *)
(* Two languages meet here.  Validation takes statuses in any spelling,    *)
(* SLA targets in lower case and the operators eq, neq, in, not_in and     *)
(* contains; the executors take what is in the enums of the schema, the    *)
(* evaluator equals, not_equals, in, ... (the dispatcher, too, looks for   *)
(* an eventType where a trigger that came this way has a type).  And       *)
(* conditions name fields that are flat, while all events but those of     *)
(* assets have what they tell one level down, under ticket.                *)
(*                                                                         *)
(* Abstractions: a report is the set of kinds of error, without order,     *)
(* paths and texts; texts that have to be there are a word.  The size of a *)
(* definition in bytes and conditions with conditions in them, both        *)
(* refused, are left out.  Who edits while somebody publishes, and         *)
(* versions, are in Publication.                                           *)
(***************************************************************************)
EXTENDS Naturals, Sequences, TicketStatuses

CONSTANTS
  RuleUsers,        \* ids of users
  RuleAssetTypes,   \* ids of types of assets; any other text is not an id
  TriggerLists,     \* lists administrators write
  ConditionLists,
  ActionLists,
  MaxTriggers, MaxConditions, MaxActions,     \* WORKFLOW_LIMITS
  NoRules              \* no definition

VARIABLES
  ruleDraft,    \* the definition being edited
  ruleLive,     \* the one that is published
  active,       \* users in state ACTIVE
  members,      \* users with a role of the tenant
  gone          \* history: users who became inactive

ruleVars == <<ruleDraft, ruleLive, active, members, gone>>

StatusChanged == "ticket.status_changed"
AssetStatusChanged == "asset.status_changed"

TriggerTypes ==
  {"ticket.created", StatusChanged, "ticket.assigned", "comment.added", "sla.warning",
   "sla.breached", "asset.created", AssetStatusChanged}

EnumFields == {"status", "priority", "type", "channel", "lifecycleState"}
UuidFields == {"assetType", "assignee", "requester"}
ConditionFields == EnumFields \cup UuidFields \cup {"tags", "group"}

ListOperators == {"in", "not_in"}
ConditionOperators == {"eq", "neq", "contains"} \cup ListOperators

SlaActions  == {"sla_start", "sla_stop"}
ActionTypes == {"change_status", "assign", "add_internal_comment", "create_notification",
                "change_asset_status"} \cup SlaActions

AssetStates == {"DRAFT", "IN_STOCK", "ASSIGNED", "IN_REPAIR", "RETIRED", "DISPOSED", "LOST",
                "ARCHIVED"}

Definitions == [triggers : TriggerLists, conditions : ConditionLists, actions : ActionLists]

EnumValues ==
  [status         |-> TicketStatus,
   priority       |-> {"LOW", "MEDIUM", "HIGH", "URGENT"},
   type           |-> {"QUESTION", "INCIDENT", "PROBLEM", "FEATURE_REQUEST"},
   channel        |-> {"WEB", "EMAIL", "API", "CHAT"},
   lifecycleState |-> AssetStates]

\* The values conditions compare with: what a text says, and whether it is
\* spelled as the database has it, in other letters, or with blanks around it.
\* A condition without a list has one.
Spellings == {"exact", "cased", "padded"}
Words == UNION {EnumValues[f] : f \in EnumFields} \cup RuleUsers \cup RuleAssetTypes \cup {"other"}
ConditionValues == [says : Words, spelled : Spellings]

ASSUME RuleConstants ==
  /\ TriggerLists # {} /\ ConditionLists # {} /\ ActionLists # {}
  /\ \A list \in ConditionLists : \A i \in DOMAIN list :
       /\ list[i].list \in BOOLEAN
       /\ list[i].values \subseteq ConditionValues
       /\ ~list[i].list => list[i].values # {}
  /\ RuleAssetTypes # {} /\ RuleAssetTypes \cap RuleUsers = {}
  /\ (RuleAssetTypes \cup RuleUsers) \cap {"other", "undefined"} = {}
  /\ NoRules \notin Definitions
  /\ {MaxTriggers, MaxConditions, MaxActions} \subseteq Nat

ElementsOf(list) == {list[i] : i \in DOMAIN list}

TriggersOf(d, type) == {t \in ElementsOf(d.triggers) : t.type = type}
ActionsOf(d, type)  == {a \in ElementsOf(d.actions) : a.type = type}

\* Another spelling of a status, which the DTO's own example uses.
LowerCase == [new |-> "NEW", open |-> "OPEN", pending |-> "PENDING", on_hold |-> "ON_HOLD",
              solved |-> "SOLVED", closed |-> "CLOSED"]

ToTicketStatus(token) ==
  CASE token \in TicketStatus     -> token
    [] token \in DOMAIN LowerCase -> LowerCase[token]
    [] OTHER                      -> "none"

-----------------------------------------------------------------------------
(* Validation                                                              *)

UniqueOrdinals(list) == \A i, j \in DOMAIN list : list[i].ordinal = list[j].ordinal => i = j

\* assertActionParams.  "": there is none.
ParamsThere(a) ==
  CASE a.type = "assign"              -> a.param # "" \/ a.group
    [] a.type \in SlaActions          -> a.param \in {"", "response", "resolution"}
    [] a.type = "change_asset_status" -> a.param \in AssetStates
    [] OTHER                          -> a.param # ""

\* assertValidWorkflowDefinition.
Structural(d) ==
  /\ d.triggers # <<>> /\ d.actions # <<>>
  /\ \A t \in ElementsOf(d.triggers) : t.type \in TriggerTypes
  /\ UniqueOrdinals(d.conditions) /\ UniqueOrdinals(d.actions)
  /\ \A c \in ElementsOf(d.conditions) :
       c.field \in ConditionFields /\ c.operator \in ConditionOperators
  /\ \A a \in ElementsOf(d.actions) : a.type \in ActionTypes /\ ParamsThere(a)

WithinLimits(d) ==
  /\ Len(d.triggers) <= MaxTriggers
  /\ Len(d.conditions) <= MaxConditions
  /\ Len(d.actions) <= MaxActions

\* The kinds of error, each with whether the definition has it.
ErrorsAmong(checks) == {k \in DOMAIN checks : checks[k]}

Refers(d, kind) ==
  CASE kind = "group" -> \/ \E c \in ElementsOf(d.conditions) : c.field = "group"
                         \/ \E a \in ElementsOf(d.actions) : a.type = "assign" /\ a.group
    [] kind = "other" -> \E a \in ElementsOf(d.actions) :
                           a.type = "assign" /\ a.param \notin RuleUsers \cup {""}

\* buildPureValidationReport in mode draft.
DraftErrors(d) ==
  ErrorsAmong([structure |-> ~Structural(d), limit |-> ~WithinLimits(d),
               group |-> Refers(d, "group"), uuid |-> Refers(d, "other")])

\* validateTriggerSemantics.  "unset": the trigger does not say.
TriggerError(t) ==
  LET from == ToTicketStatus(t.from)
      to   == ToTicketStatus(t.to) IN
  /\ t.type = StatusChanged
  /\ \/ t.from # "unset" /\ from = "none"
     \/ t.to # "unset" /\ to = "none"
     \/ from # "none" /\ to # "none" /\ ~AllowedTransition(from, to)

\* The values of a condition that are looked at: an array where one value is
\* due is no value; where an array is due, one value is looked at if it is one
\* of an enum, and not if it is an id.
NoValue == [says |-> "other", spelled |-> "exact"]

CheckedValues(c) ==
  IF c.operator \notin ListOperators THEN IF c.list THEN {NoValue} ELSE c.values
  ELSE IF c.list \/ c.field \in EnumFields THEN c.values ELSE {}

\* Of an enum in any spelling, or an id (of whatever) in any letters.
ProperValue(field, v) ==
  \/ field \in EnumFields /\ v.says \in EnumValues[field]
  \/ field \in UuidFields /\ v.says \in RuleUsers \cup RuleAssetTypes /\ v.spelled # "padded"

\* validateConditionSemantics.
ConditionError(c) ==
  /\ c.field \in EnumFields \cup UuidFields
  /\ \E v \in CheckedValues(c) : ~ProperValue(c.field, v)

\* validateActionSemantics (the structural check looked at asset states).
ActionError(a) == a.type = "change_status" /\ ToTicketStatus(a.param) = "none"

Unrestricted(t) == t.from = "unset" /\ t.to = "unset"

\* Mutant: a trigger that names a status is thought to be safe.
MutantCycleRisk(d) ==
  \E t \in ElementsOf(d.triggers), a \in ElementsOf(d.actions) :
    /\ Unrestricted(t)
    /\ \/ t.type = StatusChanged /\ a.type = "change_status"
       \/ t.type = AssetStatusChanged /\ a.type = "change_asset_status"

\* detectCycleRisk: an action may fire a trigger of the same workflow again.
\* Without a trigger and an action of ticket statuses it looks no further.
CycleRisk(d) ==
  LET triggers == TriggersOf(d, StatusChanged)
      actions  == ActionsOf(d, "change_status") IN
  /\ triggers # {} /\ actions # {}
  /\ \/ \E t \in triggers, a \in actions :
          /\ ToTicketStatus(a.param) # "none"
          /\ Unrestricted(t) \/ ToTicketStatus(t.to) = ToTicketStatus(a.param)
     \/ /\ ActionsOf(d, "change_asset_status") # {}
        /\ \E t \in TriggersOf(d, AssetStatusChanged) : Unrestricted(t)

\* collectReferencedUserIds: what is there of them, ids or not.  Ids come from
\* the database in small letters, and are compared exactly.
ReferencedUsers(d) ==
  {a.param : a \in {b \in ActionsOf(d, "assign") : b.param # ""}} \cup
  UNION {{IF v.spelled = "exact" THEN v.says ELSE "other" : v \in c.values} :
           c \in {b \in ElementsOf(d.conditions) :
                    /\ b.field \in {"assignee", "requester"}
                    /\ b.list <=> b.operator \in ListOperators}}

\* buildPureValidationReport in mode publish, and validateUserReferences: the
\* users are active and have a role of the tenant.
PublishErrors(d) ==
  ErrorsAmong([structure |-> ~Structural(d), limit |-> ~WithinLimits(d),
               group |-> Refers(d, "group"), uuid |-> Refers(d, "other"),
               trigger |-> \E t \in ElementsOf(d.triggers) : TriggerError(t),
               condition |-> \E c \in ElementsOf(d.conditions) : ConditionError(c),
               action |-> \E a \in ElementsOf(d.actions) : ActionError(a),
               cycle |-> CycleRisk(d),
               user |-> ~(ReferencedUsers(d) \subseteq active \cap members)])

-----------------------------------------------------------------------------
(* Editing                                                                 *)

RulesInit ==
  /\ ruleDraft = NoRules
  /\ ruleLive = NoRules
  /\ active \in SUBSET RuleUsers
  /\ members \in SUBSET RuleUsers
  /\ gone = {}

\* create, and updateDraft: what the request does not give stays as it is in the
\* draft, or in the latest version if there is no draft; the whole is validated.
SaveRules(d) ==
  /\ DraftErrors(d) = {}
  /\ ruleDraft' = d
  /\ UNCHANGED <<ruleLive, active, members, gone>>

\* publish.
PublishRules ==
  /\ ruleDraft # NoRules
  /\ PublishErrors(ruleDraft) = {}
  /\ ruleLive' = ruleDraft
  /\ ruleDraft' = NoRules
  /\ UNCHANGED <<active, members, gone>>

\* cloneDraft: the published version becomes the draft as it is.
CloneRules ==
  /\ ruleDraft = NoRules
  /\ ruleLive # NoRules
  /\ ruleDraft' = ruleLive
  /\ UNCHANGED <<ruleLive, active, members, gone>>

\* A user is deactivated, or loses the last role of the tenant, whatever
\* workflows say of them.
UserLeaves(u) ==
  /\ \/ u \in active /\ active' = active \ {u} /\ gone' = gone \cup {u} /\ UNCHANGED members
     \/ u \in members /\ members' = members \ {u} /\ UNCHANGED <<active, gone>>
  /\ UNCHANGED <<ruleDraft, ruleLive>>

RulesNext ==
  \/ \E d \in Definitions : SaveRules(d)
  \/ PublishRules
  \/ CloneRules
  \/ \E u \in RuleUsers : UserLeaves(u)

RulesSpec == RulesInit /\ [][RulesNext]_ruleVars

RulesTypeOK ==
  /\ {ruleDraft, ruleLive} \subseteq Definitions \cup {NoRules}
  /\ active \subseteq RuleUsers /\ members \subseteq RuleUsers /\ gone \subseteq RuleUsers

-----------------------------------------------------------------------------
(* Running                                                                 *)

\* What the executors ask of the parameters: a status or an asset state as the
\* enum has it, an assignee who is active, a comment with a text.  An SLA target
\* is RESPONSE or RESOLUTION, or RESPONSE if there is none: no other text is.
StatusRuns(a)     == a.param \in TicketStatus
AssigneeRuns(a)   == a.param \in active \cup {""}
TargetRuns(a)     == a.param \in {"", "RESPONSE", "RESOLUTION"}
AssetStateRuns(a) == a.param \in AssetStates
CommentRuns(a)    == a.param # ""

Executable(a) ==
  /\ a.type = "change_status"        => StatusRuns(a)
  /\ a.type = "assign"               => AssigneeRuns(a)
  /\ a.type \in SlaActions           => TargetRuns(a)
  /\ a.type = "change_asset_status"  => AssetStateRuns(a)
  /\ a.type = "add_internal_comment" => CommentRuns(a)

\* The payloads of an event, with which the dispatcher judges conditions: of the
\* names validation admits, events of assets have two, and no other event has
\* any: what is told of a ticket is under ticket.  An asset is not created as
\* ASSIGNED, and does not become a DRAFT.
NoFields == [f \in {} |-> f]

Snapshots(eventType) ==
  CASE eventType = "asset.created" ->
         [assetType : RuleAssetTypes, lifecycleState : AssetStates \ {"ASSIGNED"}]
    [] eventType = AssetStatusChanged ->
         [assetType : RuleAssetTypes, lifecycleState : AssetStates \ {"DRAFT"}]
    [] OTHER -> {NoFields}

GetNestedValue(snapshot, field) ==
  IF field \in DOMAIN snapshot THEN snapshot[field] ELSE "undefined"

\* The values of a condition that its operator can find: as they are, or in
\* whatever letters.
Found(c) ==
  LET spellings == IF c.operator = "contains" THEN {"exact", "cased"} ELSE {"exact"} IN
  {v.says : v \in {w \in c.values : w.spelled \in spellings}}

\* evaluateCondition, for the operators a definition can have.  (No state of an
\* asset, and no id, is a part of another.)
EvaluateCondition(c, snapshot) ==
  LET actual == GetNestedValue(snapshot, c.field) IN
  CASE c.operator = "in"       -> c.list /\ actual \in Found(c)
    [] c.operator = "not_in"   -> c.list => actual \notin Found(c)
    [] c.operator = "contains" -> ~c.list /\ actual \in Found(c)
    [] OTHER                   -> FALSE

\* An action of a published workflow does not fail for its parameters, but for
\* three reasons: a status in another spelling, an SLA target that is named at
\* all, an assignee who became inactive since.
PublishedActionsRun ==
  ruleLive # NoRules =>
    \A a \in ElementsOf(ruleLive.actions) :
      \/ Executable(a)
      \/ a.type = "change_status" /\ a.param \in DOMAIN LowerCase
      \/ a.type \in SlaActions /\ a.param # ""
      \/ a.type = "assign" /\ a.param \in gone

\* Taken at their word, the triggers of a published workflow are not fired by
\* its own change of status, unless a trigger says only what is changed from;
\* nor by its own change of an asset's state, unless the workflow has no trigger
\* or no action of ticket statuses, or the trigger names any state at all.
\* (Only the recursion budget stops what several workflows do to each other.)
OwnChangesDoNotFire ==
  ruleLive # NoRules =>
    /\ \A t \in TriggersOf(ruleLive, StatusChanged), a \in ActionsOf(ruleLive, "change_status") :
         \/ t.to # "unset" /\ ToTicketStatus(t.to) # ToTicketStatus(a.param)
         \/ t.to = "unset" /\ t.from # "unset"
    /\ \/ ActionsOf(ruleLive, "change_asset_status") = {}
       \/ \A t \in TriggersOf(ruleLive, AssetStatusChanged) : ~Unrestricted(t)
       \/ TriggersOf(ruleLive, StatusChanged) = {} \/ ActionsOf(ruleLive, "change_status") = {}

\* A condition is good for something if it holds for some payloads of an event
\* and not for others.
Decides(c, eventType) ==
  /\ \E s \in Snapshots(eventType) : EvaluateCondition(c, s)
  /\ \E s \in Snapshots(eventType) : ~EvaluateCondition(c, s)

\* What a condition may name in vain: the state no such event tells of, ids that
\* are of no type of assets.
InVain(field, eventType) ==
  IF field = "assetType" THEN RuleUsers
  ELSE IF eventType = "asset.created" THEN {"ASSIGNED"} ELSE {"DRAFT"}

\* A condition of a published workflow decides on an event that the workflow
\* waits for exactly if it asks an event of an asset for its type or state,
\* names some of the values there are and not all, in a spelling its operator
\* finds, and gives in and not_in a list.  Everything else that is published
\* always holds or never: whatever is asked of tickets, and eq and neq, which
\* the evaluator does not know.
ConditionsDecide ==
  ruleLive # NoRules =>
    \A t \in ElementsOf(ruleLive.triggers), c \in ElementsOf(ruleLive.conditions) :
      Decides(c, t.type) <=>
        /\ t.type \in {"asset.created", AssetStatusChanged}
        /\ c.field \in {"assetType", "lifecycleState"}
        /\ c.operator \notin {"eq", "neq"}
        /\ c.operator \in ListOperators => c.list
        /\ LET named == Found(c) \ InVain(c.field, t.type)
               there == {s[c.field] : s \in Snapshots(t.type)} IN
           named # {} /\ named # there

\* A published definition can always be cloned and saved again.
PublishedCanBeSaved == ruleLive # NoRules => DraftErrors(ruleLive) = {}

\* What validation promises of a published workflow (WorkflowValidationService).
RulesSound ==
  /\ PublishedActionsRun /\ OwnChangesDoNotFire /\ ConditionsDecide /\ PublishedCanBeSaved
=============================================================================
