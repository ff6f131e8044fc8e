\* A retry of one invoice next to another payment of the same isolated app.
SPECIFICATION Spec
CONSTANTS
  TxId = {1, 2, 3}
  Invoices = {"ext1", "ext2"}
  Keysends = {}
  Own = {}
  Hold = {}
  HashOf <- MCHashOf
  AmountOf <- MCAmountOf
  Payee <- MCPayee
  Apps = {wallet}
  NoApp = NoApp
  Isolated = {wallet}
  Funding <- MCFunding
  Budget <- MCBudget
  Payers = {p1, p2}
  Payable = {"ext1", "ext2"}
  Operators = {}
  Emits = {"payment_received", "hold_invoice_accepted", "payment_sent", "payment_failed"}
  Outside = {}
  Reachable = {}
  Spare = 0
  MaxStops = 0
  MaxCrashes = 0
SYMMETRY PayerSymmetry
INVARIANTS
  IsolatedNeverOverspent
CHECK_DEADLOCK FALSE
