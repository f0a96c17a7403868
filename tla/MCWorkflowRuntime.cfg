SPECIFICATION Spec
CONSTANTS
  Workers = {w1, w2}
  Events = {e1, e2, e3}
  Tickets = {t1}
  Statuses = {"open", "solved"}
  NumWorkflows = 2
  Triggers <- MCTriggers
  Conditions <- MCConditions
  Actions <- MCActions
  MaxOrdinal = 3
  BatchSize = 2
  MaxDepth = 2
  MaxDeliveries = 2
  MaxActionAttempts = 2
  PauseThreshold = 1
  StallBeyondLease = TRUE
  ReplayStates = {"PENDING", "CLAIMED", "PROCESSED", "FAILED", "DEAD_LETTERED"}
  MaxCommands = 1
  MaxDisturbances = 1
  NoEvent = NoEvent
  NoKey = NoKey
CHECK_DEADLOCK FALSE
SYMMETRY MCWorkersEvents
INVARIANTS EffectAtMostOnce EffectIffEvent AutomationBounded OrderedActions SkippedNeverActs
PROPERTIES KeepsPromise
