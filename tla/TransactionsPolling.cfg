\* A node client without events: the table is brought up to date by polling.
\* An invoice and keysends, one of them to this hub itself, are paid from an app
\* with a budget.
SPECIFICATION Spec
CONSTANTS
  TxId = {1, 2, 3}
  Invoices = {"ext1", "own1"}
  Keysends = {"key1", "selfkey"}
  Own = {"own1", "selfkey"}
  Hold = {}
  HashOf <- MCHashOf
  AmountOf <- MCAmountOf
  Payee <- MCPayee
  Apps = {wallet}
  NoApp = NoApp
  Isolated = {}
  Funding <- MCFunding
  Budget <- MCBudget60
  Payers = {p1, p2}
  Payable = {"ext1", "key1", "selfkey"}
  Operators = {}
  Emits = {}
  Outside = {}
  Reachable = {"own1"}
  Spare = 0
  MaxStops = 1
  MaxCrashes = 0
SYMMETRY PayerSymmetry
INVARIANTS
  SettledMeansPaid
  BudgetHolds
CHECK_DEADLOCK FALSE
