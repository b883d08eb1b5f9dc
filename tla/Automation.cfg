SPECIFICATION FairSpec
CONSTANTS
  Run = {r1}
  Call = {c1, c2}
  None = None
  Length = 3
  Attempts <- OneRetry
  Waits <- Later
  Gated <- Later
  Lenient <- Third
  Continuing <- Third
  Shell <- First
  Spending <- Later
  AutoApprove <- Second
  Single = TRUE
  MaxTokens = 2
  MaxCrashes = 2
INVARIANTS OneExecution ChildrenAreOwned BudgetHolds NobodyForgotten
PROPERTIES ImplementsDurableSteps RunsComeToRest
CHECK_DEADLOCK FALSE
