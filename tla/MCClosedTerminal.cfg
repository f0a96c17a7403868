SPECIFICATION Spec
CONSTANTS
  Tickets = {t1}
  Clients = {c1}
  Jobs = {j1}
  Users = {u1}
  NoUser = NoUser
  Correlations = {}
  FreshCorrelation = FreshCorrelation
  AutomationTargets = {"OPEN"}
  MaxVersion = 4
CHECK_DEADLOCK FALSE
PROPERTIES ClosedIsTerminal
