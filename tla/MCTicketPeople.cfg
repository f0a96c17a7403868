SPECIFICATION MCSpec
CONSTANTS
  Tickets = {t1, t2}
  Clients = {c1, c2}
  Jobs = {}
  Users = {}
  NoUser = NoUser
  Correlations = {}
  FreshCorrelation = FreshCorrelation
  AutomationTargets = {}
  MaxVersion = 4
  Assets = {x1, x2}
  NoAsset = none
  AssetCallers = {c1, c2}
  AssetUsers = {u1}
  NoAssetUser = none
  AssetTargets = {"IN_STOCK", "ARCHIVED"}
  MaxAssignments = 2
CHECK_DEADLOCK FALSE
SYMMETRY MCSymmetry
INVARIANTS RefsAreUnique TimestampsTellStatus AssigneeOnRecord
PROPERTIES ClosedIsTerminal AssetRowsSound
