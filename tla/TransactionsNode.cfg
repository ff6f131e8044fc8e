\* Two payers share an isolated app and pay invoices of other nodes:
\* retries, a graceful stop of the node, its events in any order, and a
\* payment made on the node without the hub.
SPECIFICATION Spec
CONSTANTS
  TxId = {1, 2, 3}
  Invoices = {"ext1", "ext2"}
  Keysends = {}
  Own = {}
  Hold = {}
  HashOf <- MCHashOf
  AmountOf <- MCAmountOf
  Payee <- MCPayee
  Apps = {wallet}
  NoApp = NoApp
  Isolated = {wallet}
  Funding <- MCFunding
  Budget <- MCBudget
  Payers = {p1, p2}
  Payable = {"ext1", "ext2"}
  Operators = {}
  Emits = {"payment_received", "hold_invoice_accepted", "payment_sent", "payment_failed"}
  Outside = {"ext2"}
  Reachable = {}
  Spare = 0
  MaxStops = 1
  MaxCrashes = 0
SYMMETRY PayerSymmetry
INVARIANTS
  TypeOK
  SettledOncePerPayment
  AnnouncedOnce
  SettledMeansPaid
  IsolatedOverdraftIsRevived
  QuietTableAgreesWithNode
PROPERTIES
  SettledIsFinal
CHECK_DEADLOCK FALSE
