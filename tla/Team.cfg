SPECIFICATION TeamSpec
CONSTANTS
  Steps <- TeamSteps
  AgentOf <- TeamAgents
  Programs <- TeamPrograms
  Optional = {"revision"}
  Budgets <- TeamBudgets
  MaxAttempts = 2
  MaxTeamFaults = 2
INVARIANTS BudgetsKept WaitingHonest
PROPERTIES CompletedIsFinal TeamSettles
\* The team ends.
CHECK_DEADLOCK FALSE
