-------------------------- MODULE TransactionRows --------------------------
(***************************************************************************)
(* The transactions table (db/models.go) and the queries the transactions  *)
(* service runs on it.  A table is a function from the primary keys of its *)
(* rows to the rows; every query is an operator on a table t.              *)
(*                                                                         *)
(* What is paid is a request: a bolt11 invoice or a keysend.  A request    *)
(* has a payment hash and an amount; two requests may share a hash (a      *)
(* wrapped invoice, a keysend with a chosen preimage).  The payment        *)
(* request column of a keysend row is the empty string.                    *)
(***************************************************************************)
EXTENDS Integers, FiniteSetsExt

CONSTANTS
    TxId,        \* primary keys a run may use
    Invoices,    \* bolt11 payment requests
    Keysends,    \* keysend payments, whose payment request is ""
    Own,         \* the requests whose payee is this node
    Hold,        \* the own invoices that are hold invoices
    HashOf,      \* the payment hash of a request
    AmountOf,    \* the amount of a request, in msat
    Payee,       \* the app an own request pays to
    Apps,        \* app connections
    NoApp,       \* the main wallet: appId = nil
    Isolated,    \* the apps with a balance of their own
    Funding,     \* what an isolated app holds from earlier, settled rows, in msat
    Budget       \* MaxAmountSat of an app's pay_invoice permission, 0 if unlimited

Requests == Invoices \cup Keysends
Hashes == {HashOf[x] : x \in Requests}

ASSUME TxIdAssumption == TxId \subseteq Nat \ {0}
ASSUME RequestAssumption ==
    /\ Invoices \cap Keysends = {}
    /\ Own \subseteq Requests
    /\ Hold \subseteq Own \cap Invoices
    /\ AmountOf \in [Requests -> Nat \ {0}]
ASSUME AppAssumption ==
    /\ NoApp \notin Apps
    /\ Isolated \subseteq Apps
    /\ Payee \in [Own -> Apps \cup {NoApp}]
    /\ Funding \in [Apps -> Nat]
    /\ Budget \in [Apps -> Nat]

Types == {"incoming", "outgoing"}
States == {"PENDING", "ACCEPTED", "SETTLED", "FAILED"}

(* The columns that decide anything; hash and amount follow from pay. *)
Row == [type : Types, state : States, pay : Requests, app : Apps \cup {NoApp},
        fee : Nat, reserve : Nat, self : BOOLEAN]

(* Inserting row r under a new key i. *)
Insert(t, i, r) == [j \in DOMAIN t \cup {i} |-> IF j = i THEN r ELSE t[j]]

(* Autoincrement: the new key follows every key in use. *)
IsNextId(t, i) == i \in TxId \ DOMAIN t /\ \A j \in TxId \ DOMAIN t : i <= j

-----------------------------------------------------------------------------
(* Lookups.  gorm leaves a zero-valued field out of the WHERE clause, so a  *)
(* condition on the payment request "" of a keysend is no condition at all. *)

SameRequest(x, y) == HashOf[x] = HashOf[y] /\ (x \in Keysends \/ x = y)

(* Rows of a type in one of the states with the payment hash of x. *)
FindByHash(t, type, states, x) ==
    {i \in DOMAIN t : /\ t[i].type = type
                      /\ t[i].state \in states
                      /\ HashOf[t[i].pay] = HashOf[x]}

(* The same, with the payment request of x as well. *)
FindByRequest(t, type, states, x) ==
    {i \in FindByHash(t, type, states, x) : SameRequest(x, t[i].pay)}

FindSettled(t, type, x) == FindByRequest(t, type, {"SETTLED"}, x)

-----------------------------------------------------------------------------
(* Amounts, in msat. *)

CalculateFeeReserveMsat(amount) ==
    LET onePercent == (amount + 99) \div 100
    IN  IF onePercent > 10000 THEN onePercent ELSE 10000

Cost(r) == AmountOf[r.pay] + r.fee + r.reserve

Outgoing(t, a) == {i \in DOMAIN t : /\ t[i].type = "outgoing"
                                    /\ t[i].app = a
                                    /\ t[i].state \in {"SETTLED", "PENDING"}}

Received(t, a) == {i \in DOMAIN t : /\ t[i].type = "incoming"
                                    /\ t[i].app = a
                                    /\ t[i].state = "SETTLED"}

(* SUM of a column c over the rows in S.                                   *)
SumOver(c, S) == MapThenSumSet(LAMBDA i : c[i], S)

Costs(t) == [i \in DOMAIN t |-> Cost(t[i])]

SpentMsat(t, a) == SumOver(Costs(t), Outgoing(t, a))

ReceivedMsat(t, a) == SumOver([i \in DOMAIN t |-> AmountOf[t[i].pay]], Received(t, a))

GetIsolatedBalanceMsat(t, a) == Funding[a] + ReceivedMsat(t, a) - SpentMsat(t, a)

(* All modelled rows fall in the current budget period. *)
GetBudgetUsageMsat(t, a) == SpentMsat(t, a)

(* Variant: whoever asks may pay.                                          *)
AnyoneCanPay(t, a, amount, self) == TRUE

(* validateCanPay: the balance of an isolated app and the budget of any    *)
(* app cover the payment, with its fee reserve unless it stays in the hub. *)
ValidateCanPay(t, a, amount, self) ==
    LET need == IF self THEN amount ELSE amount + CalculateFeeReserveMsat(amount)
    IN  a # NoApp =>
          /\ a \in Isolated => need <= GetIsolatedBalanceMsat(t, a)
          /\ Budget[a] > 0 =>
               need \div 1000 <= Budget[a] - GetBudgetUsageMsat(t, a) \div 1000
=============================================================================
