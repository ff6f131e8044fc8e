\* An invoice and a hold invoice of this hub, paid by this hub and by others, and a
\* keysend of others, with a crash at any point.
SPECIFICATION Spec
CONSTANTS
  TxId = {1, 2, 3, 4}
  Invoices = {"own1", "hold1"}
  Keysends = {"selfkey"}
  Own = {"own1", "hold1", "selfkey"}
  Hold = {"hold1"}
  HashOf <- MCHashOf
  AmountOf <- MCAmountOf
  Payee <- MCPayee
  Apps = {wallet}
  NoApp = NoApp
  Isolated = {wallet}
  Funding <- MCFunding
  Budget <- MCBudget
  Payers = {p1, p2}
  Payable = {"own1", "hold1"}
  Operators = {o1}
  Emits = {"payment_received", "hold_invoice_accepted", "payment_sent", "payment_failed"}
  Outside = {}
  Reachable = {"own1", "hold1", "selfkey"}
  Spare = 0
  MaxStops = 0
  MaxCrashes = 1
SYMMETRY PayerSymmetry
INVARIANTS
  SettledMeansPaid
  SuccessIsTrue
  SelfPaymentConserved
PROPERTIES
  SettledIsFinal
  CanceledHoldStaysCanceled
  SuccessIsRecorded
CHECK_DEADLOCK FALSE
