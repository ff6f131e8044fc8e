\* One hold invoice of this hub, settled and canceled at the same time.
SPECIFICATION Spec
CONSTANTS
  TxId = {1, 2}
  Invoices = {"hold1"}
  Keysends = {}
  Own = {"hold1"}
  Hold = {"hold1"}
  HashOf <- MCHashOf
  AmountOf <- MCAmountOf
  Payee <- MCPayee
  Apps = {wallet}
  NoApp = NoApp
  Isolated = {wallet}
  Funding <- MCFunding
  Budget <- MCBudget
  Payers = {p1}
  Payable = {"hold1"}
  Operators = {o1, o2}
  Emits = {"payment_received", "hold_invoice_accepted", "payment_sent", "payment_failed"}
  Outside = {}
  Reachable = {}
  Spare = 0
  MaxStops = 0
  MaxCrashes = 0
SYMMETRY PayerSymmetry
PROPERTIES
  CanceledHoldStaysCanceled
CHECK_DEADLOCK FALSE
