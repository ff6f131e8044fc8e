\* Whatever the node sent or received is recorded in the end, and whoever pays a
\* hold invoice of this hub is woken when it is decided.
SPECIFICATION FairSpec
CONSTANTS
  TxId = {1, 2, 3, 4}
  Invoices = {"ext1", "hold1"}
  Keysends = {"selfkey"}
  Own = {"selfkey", "hold1"}
  Hold = {"hold1"}
  HashOf <- MCHashOf
  AmountOf <- MCAmountOf
  Payee <- MCPayee
  Apps = {wallet}
  NoApp = NoApp
  Isolated = {wallet}
  Funding <- MCFunding
  Budget <- MCBudget
  Payers = {p1, p2}
  Payable = {"ext1", "hold1"}
  Operators = {o1}
  Emits = {"payment_received", "hold_invoice_accepted", "payment_sent", "payment_failed"}
  Outside = {}
  Reachable = {"selfkey"}
  Spare = 2
  MaxStops = 1
  MaxCrashes = 0
PROPERTIES
  SentIsRecorded
  ReceivedIsRecorded
  HoldPayerIsWoken
CHECK_DEADLOCK FALSE
