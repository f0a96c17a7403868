SPECIFICATION MCSpec
CONSTANTS
  Tickets = {t1}
  Clients = {c1, c2}
  Jobs = {j1}
  Users = {u1}
  NoUser = NoUser
  Correlations = {corr1}
  FreshCorrelation = FreshCorrelation
  AutomationTargets = {"OPEN", "SOLVED"}
  MaxVersion = 3
  Remarks = {r1}
  NoRemark = none
  Bodies = {1, 2}
  Folk = {u1, u2}
  Nobody = none
  Asker = u1
  Posters = {c1, c2}
  MaxRemarkVersion = 3
  Nodes = {n1, n2, n3}
  NoNode = none
  Things = {t1}
  NoThing = none
  Clerks = {c1, c2}
  Services = {s1}
  NoService = none
  Submissions = {r1}
  NoSubmission = none
  FormKeys = {"k1", "k2"}
  NoKey = "none"
  AnswerValues = {1, 2}
  DraftForms <- MCDraftForms
  Replies <- MCReplies
  FormCalls = {c1, c2}
  MaxFormVersion = 2
  RuleUsers = {"u1"}
  RuleAssetTypes = {"type1", "type2"}
  TriggerLists <- MCTriggerLists
  ConditionLists <- MCConditionLists
  ActionLists <- MCActionLists
  MaxTriggers = 3
  MaxConditions = 3
  MaxActions = 3
  NoRules = none
CONSTRAINT MCStillSaid
CHECK_DEADLOCK FALSE
SYMMETRY MCClients
INVARIANTS TypeOK ConsumersConverge PeopleAreNotMisleading TaxonomyConsistent DeskSound
PROPERTIES NoLostUpdate PeopleFollowLifecycle AnnouncedVersionsGrow CommandsAreAtomic
