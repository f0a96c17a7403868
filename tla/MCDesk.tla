-------------------------------- MODULE MCDesk --------------------------------
(* Small instances, for TLC, of five components that share no state: tickets, *)
(* comments, what things are filed under, the forms of services, and what     *)
(* workflows may say.  The initial state picks the one that runs; the others  *)
(* stay as they start.                                                        *)
EXTENDS TicketLifecycle, Comments, Taxonomy, ServiceForms, WorkflowRules, TLC

VARIABLE part     \* the component that runs

-----------------------------------------------------------------------------
\* Forms: one with a key twice, a select with a field that depends on it, two
\* fields that hide each other, two rules no answer meets.
MCField(key, type, accepts, required, rule) ==
  [key |-> key, type |-> type, options |-> type # "TEXT", accepts |-> accepts,
   required |-> required, rule |-> rule]

MCWhen(key, op, value) == [key |-> key, op |-> op, value |-> value]
MCAlways == MCWhen(NoKey, "EQ", 1)

MCDraftForms == {
  <<MCField("k1", "SELECT", {1}, TRUE, MCAlways), MCField("k1", "SELECT", {2}, TRUE, MCAlways)>>,
  <<MCField("k1", "SELECT", {1, 2}, TRUE, MCAlways),
    MCField("k2", "TEXT", {1, 2}, TRUE, MCWhen("k1", "EQ", 1))>>,
  <<MCField("k1", "TEXT", {2}, FALSE, MCWhen("k2", "NEQ", 1)),
    MCField("k2", "SELECT", {1}, TRUE, MCWhen("k1", "CONTAINS", 2))>>,
  <<MCField("k1", "MULTI_SELECT", {1}, TRUE, MCAlways)>>,
  <<MCField("k2", "SELECT", {1}, TRUE, MCWhen("k1", "GTE", 1))>> }

MCOne(value)   == [many |-> FALSE, values |-> {value}]
MCMany(values) == [many |-> TRUE, values |-> values]

MCReplies ==
  {[k1 |-> x, k2 |-> y] : x \in {Blank, MCOne(1), MCOne(2), MCMany({1, 2}), MCMany({1})},
                          y \in {Blank, MCOne(1)}}

-----------------------------------------------------------------------------
\* Rules: triggers with and without statuses, in either spelling, or an
\* impossible change, of tickets and of assets; conditions and actions that are
\* fit, refused, or let through although they do nothing.
MCTrigger(type, from, to) == [type |-> type, from |-> from, to |-> to]

MCCondition(ordinal, field, operator, list, values) ==
  [ordinal |-> ordinal, field |-> field, operator |-> operator, list |-> list, values |-> values]

MCAction(ordinal, type, param) ==
  [ordinal |-> ordinal, type |-> type, param |-> param, group |-> FALSE]

MCSays(word, spelling) == [says |-> word, spelled |-> spelling]

MCTriggerLists == {
  <<MCTrigger(StatusChanged, "unset", "unset")>>,
  <<MCTrigger(StatusChanged, "unset", "solved"),
    MCTrigger(AssetStatusChanged, "unset", "unset")>>,
  <<MCTrigger(StatusChanged, "OPEN", "unset"), MCTrigger("asset.created", "unset", "unset"),
    MCTrigger(AssetStatusChanged, "unset", "LOST")>>,
  <<MCTrigger(AssetStatusChanged, "unset", "unset")>>,
  <<MCTrigger(StatusChanged, "CLOSED", "OPEN")>> }

MCConditionLists == {
  <<>>,
  <<MCCondition(0, "status", "eq", FALSE, {MCSays("NEW", "cased")}),
    MCCondition(1, "assignee", "in", FALSE, {MCSays("other", "exact")}),
    MCCondition(2, "lifecycleState", "in", TRUE,
                {MCSays("DRAFT", "exact"), MCSays("LOST", "cased")})>>,
  <<MCCondition(0, "assignee", "not_in", TRUE, {MCSays("u1", "exact")}),
    MCCondition(1, "assetType", "not_in", TRUE, {MCSays("type1", "exact"), MCSays("u1", "exact")}),
    MCCondition(2, "lifecycleState", "contains", FALSE, {MCSays("RETIRED", "cased")})>>,
  <<MCCondition(0, "lifecycleState", "contains", TRUE, {MCSays("LOST", "exact")})>>,
  <<MCCondition(0, "tags", "contains", FALSE, {MCSays("other", "exact")}),
    MCCondition(1, "priority", "contains", FALSE, {MCSays("HIGH", "padded")}),
    MCCondition(2, "type", "eq", FALSE, {MCSays("INCIDENT", "exact")}),
    MCCondition(3, "group", "eq", FALSE, {MCSays("other", "exact")})>> }

MCActionLists == {
  <<MCAction(0, "change_status", "OPEN"), MCAction(1, "change_asset_status", "LOST")>>,
  <<MCAction(0, "change_status", "solved"), MCAction(1, "assign", "u1")>>,
  <<MCAction(0, "change_status", "SOLVED"), MCAction(0, "assign", "u1")>>,
  <<MCAction(0, "change_status", "shut")>>,
  <<MCAction(0, "assign", "somebody")>>,
  <<MCAction(0, "sla_start", "resolution"), MCAction(1, "change_asset_status", "RETIRED"),
    MCAction(2, "sla_stop", "")>>,
  <<MCAction(0, "add_internal_comment", "text"), MCAction(1, "create_notification", "text"),
    MCAction(2, "sla_stop", ""), MCAction(3, "sla_start", "")>> }

-----------------------------------------------------------------------------
\* A component that does not run keeps its initial state.
TicketsRest   == part # "tickets" => UNCHANGED vars
CommentsRest  == part # "comments" => UNCHANGED commentVars
TaxonomyRests == part # "taxonomy" => UNCHANGED taxonomyVars
FormsRest     == part # "forms" => UNCHANGED formVars
RulesRest     == part # "rules" => UNCHANGED ruleVars

MCInit ==
  /\ part \in {"tickets", "comments", "taxonomy", "forms", "rules"}
  /\ Init /\ FormInit
  /\ CommentsInit /\ (part # "comments" => handler = Nobody)
  /\ TaxonomyInit /\ (part # "taxonomy" => tree = "kb_category")
  /\ RulesInit /\ (part # "rules" => active = {} /\ members = {})

MCNext ==
  /\ UNCHANGED part
  /\ TicketsRest /\ CommentsRest /\ TaxonomyRests /\ FormsRest /\ RulesRest
  /\ \/ part = "tickets" /\ Next
     \/ part = "comments" /\ CommentsNext
     \/ part = "taxonomy" /\ TaxonomyNext
     \/ part = "forms" /\ FormNext
     \/ part = "rules" /\ RulesNext

MCSpec ==
  /\ MCInit
  /\ [][MCNext]_<<part, vars, commentVars, taxonomyVars, formVars, ruleVars>>

\* Once requests overlapped, TaxonomyConsistent says nothing more of the kinds
\* whose rows stay: their behaviours end there.  Of asset categories it says
\* nothing at all: two of them show what their requests do.
MCStillSaid ==
  /\ overlapped => tree \in HardDeleted
  /\ tree = "asset_category" => \E n \in Nodes : node[n] = "absent"

MCClients == Permutations(Clients)

\* What surrounds the tickets keeps its own promises, each stated with its
\* component: comments with their events, notices and changes in order, answers
\* that fit the form they were given for, workflows that run once published.
DeskSound ==
  /\ part = "comments" => CommentsTypeOK /\ CommentsSound
  /\ part = "forms"    => FormTypeOK /\ FormsSound
  /\ part = "rules"    => RulesTypeOK /\ RulesSound
=============================================================================
