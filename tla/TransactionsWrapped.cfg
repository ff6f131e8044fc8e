\* A hold invoice of this hub wraps the invoice of another node.
SPECIFICATION Spec
CONSTANTS
  TxId = {1, 2, 3}
  Invoices = {"ext1", "wrapped"}
  Keysends = {}
  Own = {"wrapped"}
  Hold = {"wrapped"}
  HashOf <- MCHashOf
  AmountOf <- MCAmountOf
  Payee <- MCPayee
  Apps = {wallet}
  NoApp = NoApp
  Isolated = {wallet}
  Funding <- MCFunding
  Budget <- MCBudget
  Payers = {p1, p2}
  Payable = {"ext1", "wrapped"}
  Operators = {o1}
  Emits = {"payment_received", "hold_invoice_accepted", "payment_sent", "payment_failed"}
  Outside = {}
  Reachable = {"wrapped"}
  Spare = 0
  MaxStops = 0
  MaxCrashes = 0
SYMMETRY PayerSymmetry
INVARIANTS
  SettledMeansThisWasPaid
CHECK_DEADLOCK FALSE
