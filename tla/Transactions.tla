---------------------------- MODULE Transactions ----------------------------
(***************************************************************************)
(* The transactions service (transactions/transactions_service.go) at work:*)
(* goroutines that pay invoices and send keysends, goroutines that settle  *)
(* or cancel hold invoices, and the events of the Lightning node, each     *)
(* consumed in a goroutine of its own and therefore in any order.  Every   *)
(* database transaction is one step (sqlite transactions are serializable);*)
(* whatever the code reads outside of one is a step of its own.            *)
(*                                                                         *)
(* The Lightning node is external: what it may do follows from the LNClient*)
(* interface and the LDK client (lnclient/ldk/ldk.go).                     *)
(***************************************************************************)
EXTENDS TransactionRows

CONSTANTS
    Payers,      \* goroutines that send payments
    Payable,     \* requests that payers are asked to pay
    Operators,   \* goroutines that settle or cancel hold invoices
    Emits,       \* the kinds of events the node's client publishes
    Outside,     \* requests that may be paid from the node without the hub
    Reachable,   \* own requests that others may pay over the network
    Spare,       \* bound: the rows payments leave to invoices and events
    MaxStops,    \* bound on graceful stops of the node
    MaxCrashes   \* bound on crashes of the hub

EventKinds == {"payment_received", "hold_invoice_accepted",
               "payment_sent", "payment_failed"}

ASSUME EmitsAssumption == Emits \subseteq EventKinds
ASSUME OutsideAssumption == /\ Outside \subseteq Requests \ Own
                             /\ Reachable \subseteq Own
                             /\ Payable \subseteq Requests
ASSUME BoundsAssumption == Spare \in Nat /\ MaxStops \in Nat /\ MaxCrashes \in Nat

VARIABLES
    txs,         \* the transactions table
    call,        \* running SendPaymentSync and SendKeysend calls, by payer
    ops,         \* running SettleHoldInvoice and CancelHoldInvoice calls
    events,      \* published node events whose consumer has not read the table
    consumers,   \* event consumers between their lookup and their update
    wakes,       \* goroutines about to send to a waiting self payment
    announced,   \* nwc_payment_sent and _received events published, by payment
    revived,     \* rows that went from FAILED to SETTLED
    running,     \* whether the node is started
    stops, crashes,
    out,         \* outgoing payments of the node, by hash
    htlc         \* incoming payments of the node, by own request

db == <<txs, announced, revived>>
node == <<out, htlc, running, stops, crashes>>
vars == <<txs, call, ops, events, consumers, wakes, announced, revived,
          running, stops, crashes, out, htlc>>

-----------------------------------------------------------------------------
CallPcs == {"create", "send", "waiting", "keysendIncoming", "intercept", "selfSettle",
            "register", "registered", "holding", "settle", "fail"}
OpPcs == {"settle", "settleCommit", "cancel", "cancelCommit"}
OutStates == {"inflight", "sent", "failed"}
HtlcStates == {"none", "held", "paid", "canceled"}

Call == [pc : CallPcs, pay : Requests, app : Apps \cup {NoApp}, self : BOOLEAN,
         row : TxId \cup {0}, incoming : TxId \cup {0}]
Op == [pc : OpPcs, row : TxId, self : BOOLEAN]
Event == [kind : EventKinds, pay : Requests, fee : Nat]
Consumer == [kind : EventKinds, pay : Requests, fee : Nat, row : TxId \cup {0}]
Wake == [to : Payers, kind : {"settled", "canceled"}]
OutPayment == [status : OutStates, pay : Requests, fee : Nat]

At(p, pc) == p \in DOMAIN call /\ call[p].pc = pc
Goto(p, pc) == call' = [call EXCEPT ![p].pc = pc]
Return(p) == call' = [q \in DOMAIN call \ {p} |-> call[q]]
OpAt(o, pc) == o \in DOMAIN ops /\ ops[o].pc = pc
OpReturn(o) == ops' = [q \in DOMAIN ops \ {o} |-> ops[q]]

Emit(e) == events' = IF e.kind \in Emits THEN events \cup {e} ELSE events

-----------------------------------------------------------------------------
(* Changing a row.                                                         *)

(* Publishing to the hold invoice consumers registered for request x.      *)
Waiters(x) == {p \in DOMAIN call : /\ call[p].pc \in {"registered", "holding"}
                                   /\ call[p].pay = x}

(* Variant: a cancellation is not published.                               *)
NotifySettledOnly(x, kind) ==
    wakes' = wakes \cup {[to |-> p, kind |-> kind] : p \in {q \in Waiters(x) : kind = "settled"}}

Notify(x, kind) ==
    wakes' = wakes \cup {[to |-> p, kind |-> kind] : p \in Waiters(x)}

(* nwc_payment_sent or nwc_payment_received, published after the commit.   *)
Announce(type, x) ==
    /\ announced' = [announced EXCEPT ![<<type, x>>] = @ + 1]
    /\ IF type = "incoming" THEN Notify(x, "settled") ELSE UNCHANGED wakes

SetSettled(i, fee, self) ==
    /\ txs' = [txs EXCEPT ![i].state = "SETTLED", ![i].fee = fee,
                          ![i].reserve = 0, ![i].self = self]
    /\ revived' = IF txs[i].state = "FAILED" THEN revived \cup {i} ELSE revived
    /\ Announce(txs[i].type, txs[i].pay)

MarkTransactionSettled(i, fee, self) ==
    IF FindSettled(txs, txs[i].type, txs[i].pay) # {}
    THEN UNCHANGED <<txs, announced, revived, wakes>>
    ELSE SetSettled(i, fee, self)

CreateSettledTransactionFromNotification(i, type, x, fee) ==
    IF FindSettled(txs, type, x) # {}
    THEN UNCHANGED <<txs, announced, revived, wakes>>
    ELSE /\ IsNextId(txs, i)
         /\ txs' = Insert(txs, i,
                [type |-> type, state |-> "SETTLED", pay |-> x,
                 app |-> IF type = "incoming" /\ x \in Keysends \cap Own
                         THEN Payee[x] ELSE NoApp,
                 fee |-> fee, reserve |-> 0, self |-> FALSE])
         /\ Announce(type, x)
         /\ UNCHANGED revived

(* Variant: the settled row is not refused.                                *)
CanFailSettled(i) == txs[i].state # "FAILED"

(* Refuses a settled row and does nothing to a failed one.                 *)
CanFail(i) == txs[i].state \in {"PENDING", "ACCEPTED"}

MarkPaymentFailed(i) ==
    /\ txs' = IF CanFail(i)
              THEN [txs EXCEPT ![i].state = "FAILED", ![i].reserve = 0]
              ELSE txs
    /\ UNCHANGED <<announced, revived>>

-----------------------------------------------------------------------------
(* MakeInvoice and MakeHoldInvoice: the node creates the invoice, the row  *)
(* follows before anybody else knows the invoice.                          *)
MakeInvoice(x, i) ==
    /\ running
    /\ x \in Own \cap Invoices
    /\ FindByRequest(txs, "incoming", States, x) = {}
    /\ IsNextId(txs, i)
    /\ txs' = Insert(txs, i, [type |-> "incoming", state |-> "PENDING", pay |-> x,
                              app |-> Payee[x], fee |-> 0, reserve |-> 0, self |-> FALSE])
    /\ UNCHANGED <<call, ops, events, consumers, wakes, announced, revived, node>>

-----------------------------------------------------------------------------
(* SendPaymentSync and SendKeysend.                                        *)

(* Whether this is a self payment is decided before the lock is taken: for *)
(* an invoice by the table, for a keysend by its destination.              *)
BeginPayment(p, x, a) ==
    /\ running
    /\ p \notin DOMAIN call
    /\ Cardinality(DOMAIN txs) + Cardinality(DOMAIN call) + Spare < Cardinality(TxId)
    /\ x \in Own \cap Invoices => FindByRequest(txs, "incoming", States, x) # {}
    /\ LET self == IF x \in Keysends THEN x \in Own
                   ELSE FindByRequest(txs, "incoming", States, x) # {}
       IN  call' = [q \in DOMAIN call \cup {p} |->
                      IF q # p THEN call[q]
                      ELSE [pc |-> "create", pay |-> x, app |-> a, self |-> self,
                            row |-> 0, incoming |-> 0]]
    /\ UNCHANGED <<txs, ops, events, consumers, wakes, announced, revived, node>>

(* Variant: a pending payment of the invoice is no reason to refuse it.    *)
AlreadySettled(x) ==
    x \in Invoices /\ FindByRequest(txs, "outgoing", {"SETTLED"}, x) # {}

(* An invoice that is paid, or being paid, is refused; a keysend is not.   *)
AlreadyPaid(x) ==
    x \in Invoices /\ FindByRequest(txs, "outgoing", {"SETTLED", "PENDING"}, x) # {}

(* Under balanceValidationLock, in one database transaction.               *)
CreateOutgoing(p, i) ==
    /\ At(p, "create")
    /\ LET c == call[p]
           amount == AmountOf[c.pay]
       IN  IF AlreadyPaid(c.pay) \/ ~ValidateCanPay(txs, c.app, amount, c.self)
           THEN Return(p) /\ UNCHANGED txs
           ELSE /\ IsNextId(txs, i)
                /\ txs' = Insert(txs, i,
                     [type |-> "outgoing", state |-> "PENDING", pay |-> c.pay, app |-> c.app,
                      fee |-> 0, reserve |-> CalculateFeeReserveMsat(amount), self |-> c.self])
                /\ call' = [call EXCEPT ![p].row = i,
                              ![p].pc = IF ~c.self THEN "send"
                                        ELSE IF c.pay \in Keysends THEN "keysendIncoming"
                                        ELSE "intercept"]
    /\ UNCHANGED <<ops, events, consumers, wakes, announced, revived, node>>

(* lnClient.SendPaymentSync or SendKeysend: the node takes the payment on, *)
(* unless it already has one in flight or sent with this hash, is stopped  *)
(* or has no route.                                                        *)
SendToNode(p) ==
    /\ At(p, "send")
    /\ LET x == call[p].pay
           h == HashOf[x]
       IN  \/ /\ running /\ x \notin Own
              /\ h \in DOMAIN out => out[h].status = "failed"
              /\ out' = [g \in DOMAIN out \cup {h} |->
                           IF g # h THEN out[g]
                           ELSE [status |-> "inflight", pay |-> x, fee |-> 0]]
              /\ Goto(p, "waiting")
           \/ Goto(p, "fail") /\ UNCHANGED out
    /\ UNCHANGED <<db, ops, events, consumers, wakes, htlc, running, stops, crashes>>

(* SendKeysend to this node: the incoming row is created outside the lock. *)
CreateKeysendIncoming(p, i) ==
    /\ At(p, "keysendIncoming")
    /\ IsNextId(txs, i)
    /\ txs' = Insert(txs, i,
                [type |-> "incoming", state |-> "PENDING", pay |-> call[p].pay,
                 app |-> Payee[call[p].pay], fee |-> 0, reserve |-> 0, self |-> TRUE])
    /\ Goto(p, "intercept")
    /\ UNCHANGED <<ops, events, consumers, wakes, announced, revived, node>>

(* Variant: a hold invoice is not waited for.                              *)
InterceptWithoutHold(p) ==
    /\ At(p, "intercept")
    /\ LET found == FindByRequest(txs, "incoming", {"PENDING"}, call[p].pay)
       IN  Goto(p, IF found = {} THEN "fail" ELSE "settle")
    /\ UNCHANGED <<db, ops, events, consumers, wakes, node>>

(* interceptSelfPayment looks the pending incoming row up.                 *)
InterceptSelfPayment(p) ==
    /\ At(p, "intercept")
    /\ LET found == FindByRequest(txs, "incoming", {"PENDING"}, call[p].pay)
       IN  \/ found = {} /\ Goto(p, "fail")
           \/ \E i \in found :
                IF txs[i].pay \in Hold THEN Goto(p, "register")
                ELSE call' = [call EXCEPT ![p].incoming = i, ![p].pc = "selfSettle"]
    /\ UNCHANGED <<db, ops, events, consumers, wakes, node>>

SettleIncomingSelfPayment(p) ==
    /\ At(p, "selfSettle")
    /\ MarkTransactionSettled(call[p].incoming, 0, TRUE)
    /\ Goto(p, "settle")
    /\ UNCHANGED <<ops, events, consumers, node>>

(* interceptSelfHoldPayment subscribes, asks the node for the block height *)
(* and marks the row accepted; then it waits.                              *)
RegisterHoldConsumer(p) ==
    /\ At(p, "register")
    /\ Goto(p, "registered")
    /\ UNCHANGED <<db, ops, events, consumers, wakes, node>>

GetInfoFails(p) ==
    /\ At(p, "registered")
    /\ Goto(p, "fail")
    /\ wakes' = {w \in wakes : w.to # p}
    /\ UNCHANGED <<db, ops, events, consumers, node>>

(* Variant: a row in any state is accepted.                                *)
MarkAnyHoldInvoiceAccepted(x, self) ==
    LET found == FindByRequest(txs, "incoming", States, x)
    IN  IF found = {} THEN UNCHANGED txs
        ELSE \E i \in found :
               txs' = [txs EXCEPT ![i].state = "ACCEPTED", ![i].self = self]

(* Only a pending row is accepted; that none was found is merely logged.   *)
MarkHoldInvoiceAccepted(x, self) ==
    LET found == FindByRequest(txs, "incoming", {"PENDING"}, x)
    IN  IF found = {} THEN UNCHANGED txs
        ELSE \E i \in found :
               txs' = [txs EXCEPT ![i].state = "ACCEPTED", ![i].self = self]

AcceptSelfHoldPayment(p) ==
    /\ At(p, "registered")
    /\ MarkHoldInvoiceAccepted(call[p].pay, TRUE)
    /\ Goto(p, "holding")
    /\ UNCHANGED <<ops, events, consumers, wakes, announced, revived, node>>

(* Variant: the two channels are swapped.                                  *)
WakeSwapped(p) ==
    /\ At(p, "holding")
    /\ \E w \in wakes : /\ w.to = p
                        /\ Goto(p, IF w.kind = "settled" THEN "fail" ELSE "settle")
    /\ wakes' = {w \in wakes : w.to # p}
    /\ UNCHANGED <<db, ops, events, consumers, node>>

(* The select on the two channels; the deferred removal of the consumer.   *)
WakeSelfHoldPayment(p) ==
    /\ At(p, "holding")
    /\ \E w \in wakes : /\ w.to = p
                        /\ Goto(p, IF w.kind = "settled" THEN "settle" ELSE "fail")
    /\ wakes' = {w \in wakes : w.to # p}
    /\ UNCHANGED <<db, ops, events, consumers, node>>

SettleOutgoing(p) ==
    /\ At(p, "settle")
    /\ LET c == call[p]
       IN  MarkTransactionSettled(c.row, IF c.self THEN 0 ELSE out[HashOf[c.pay]].fee, c.self)
    /\ Return(p)
    /\ UNCHANGED <<ops, events, consumers, node>>

FailOutgoing(p) ==
    /\ At(p, "fail")
    /\ MarkPaymentFailed(call[p].row)
    /\ Return(p)
    /\ UNCHANGED <<ops, events, consumers, wakes, node>>

PayerStep(p) ==
    \/ \E i \in TxId : CreateOutgoing(p, i) \/ CreateKeysendIncoming(p, i)
    \/ SendToNode(p) \/ InterceptSelfPayment(p) \/ SettleIncomingSelfPayment(p)
    \/ RegisterHoldConsumer(p) \/ GetInfoFails(p) \/ AcceptSelfHoldPayment(p)
    \/ WakeSelfHoldPayment(p) \/ SettleOutgoing(p) \/ FailOutgoing(p)

-----------------------------------------------------------------------------
(* Variant: the row is looked up in any state.                             *)
BeginHoldOperationAnyState(o, pc) ==
    /\ running
    /\ o \notin DOMAIN ops
    /\ \E i \in DOMAIN txs :
         /\ txs[i].type = "incoming"
         /\ ops' = [q \in DOMAIN ops \cup {o} |->
                      IF q # o THEN ops[q]
                      ELSE [pc |-> pc, row |-> i, self |-> txs[i].self]]
    /\ UNCHANGED <<db, call, events, consumers, wakes, node>>

(* SettleHoldInvoice and CancelHoldInvoice.  Both look an accepted row up  *)
(* by its hash, then ask the node unless the payer was this hub itself.    *)
BeginHoldOperation(o, pc) ==
    /\ running
    /\ o \notin DOMAIN ops
    /\ \E i \in DOMAIN txs :
         /\ txs[i].type = "incoming" /\ txs[i].state = "ACCEPTED"
         /\ ops' = [q \in DOMAIN ops \cup {o} |->
                      IF q # o THEN ops[q]
                      ELSE [pc |-> pc, row |-> i, self |-> txs[i].self]]
    /\ UNCHANGED <<db, call, events, consumers, wakes, node>>

(* What the node holds for the hash of row i.                              *)
Held(i) == {x \in Own : htlc[x] = "held" /\ HashOf[x] = HashOf[txs[i].pay]}

AskNode(o, pc, next, newHtlc) ==
    /\ OpAt(o, pc)
    /\ \/ /\ ops[o].self
          /\ ops' = [ops EXCEPT ![o].pc = next]
          /\ UNCHANGED <<htlc, events>>
       \/ /\ ~ops[o].self /\ running
          /\ \E x \in Held(ops[o].row) :
               /\ htlc' = [htlc EXCEPT ![x] = newHtlc]
               /\ IF newHtlc = "paid"
                  THEN Emit([kind |-> "payment_received", pay |-> x, fee |-> 0])
                  ELSE UNCHANGED events
          /\ ops' = [ops EXCEPT ![o].pc = next]
       \/ /\ ~ops[o].self
          /\ ~running \/ Held(ops[o].row) = {}
          /\ OpReturn(o)
          /\ UNCHANGED <<htlc, events>>
    /\ UNCHANGED <<db, call, consumers, wakes, out, running, stops, crashes>>

SettleHoldInvoice(o) == AskNode(o, "settle", "settleCommit", "paid")
CancelHoldInvoice(o) == AskNode(o, "cancel", "cancelCommit", "canceled")

CommitSettleHoldInvoice(o) ==
    /\ OpAt(o, "settleCommit")
    /\ MarkTransactionSettled(ops[o].row, 0, ops[o].self)
    /\ OpReturn(o)
    /\ UNCHANGED <<call, events, consumers, node>>

(* nwc_hold_invoice_canceled only if this call failed the row.             *)
CommitCancelHoldInvoice(o) ==
    /\ OpAt(o, "cancelCommit")
    /\ MarkPaymentFailed(ops[o].row)
    /\ IF CanFail(ops[o].row) THEN Notify(txs[ops[o].row].pay, "canceled")
       ELSE UNCHANGED wakes
    /\ OpReturn(o)
    /\ UNCHANGED <<call, events, consumers, node>>

OperatorStep(o) ==
    \/ SettleHoldInvoice(o) \/ CommitSettleHoldInvoice(o)
    \/ CancelHoldInvoice(o) \/ CommitCancelHoldInvoice(o)

-----------------------------------------------------------------------------
(* ConsumeEvent: the lookup, then the update in a database transaction.    *)
Consume(e, row) ==
    consumers' = consumers \cup
        {[kind |-> e.kind, pay |-> e.pay, fee |-> e.fee, row |-> row]}

(* Variant: a payment without a row is ignored.                            *)
ConsumeKnownPaymentReceived(e) ==
    /\ e.kind = "payment_received"
    /\ LET found == FindByHash(txs, "incoming", States, e.pay)
       IN  IF found = {} THEN UNCHANGED consumers ELSE \E i \in found : Consume(e, i)
    /\ UNCHANGED txs

ConsumePaymentReceived(e) ==
    /\ e.kind = "payment_received"
    /\ LET found == FindByHash(txs, "incoming", States, e.pay)
       IN  IF found = {} THEN Consume(e, 0) ELSE \E i \in found : Consume(e, i)
    /\ UNCHANGED txs

ConsumeHoldInvoiceAccepted(e) ==
    /\ e.kind = "hold_invoice_accepted"
    /\ MarkHoldInvoiceAccepted(e.pay, FALSE)
    /\ UNCHANGED consumers

(* Variant: only a pending row is looked for.                              *)
ConsumePendingPaymentSent(e) ==
    /\ e.kind = "payment_sent"
    /\ LET pending == FindByHash(txs, "outgoing", {"PENDING"}, e.pay)
       IN  IF pending = {} THEN UNCHANGED consumers ELSE \E i \in pending : Consume(e, i)
    /\ UNCHANGED txs

(* First the pending rows, then the failed ones (in the order they were    *)
(* last touched, which any edit of a label changes), then any.             *)
ConsumePaymentSent(e) ==
    /\ e.kind = "payment_sent"
    /\ LET pending == FindByHash(txs, "outgoing", {"PENDING"}, e.pay)
           failed == FindByHash(txs, "outgoing", {"FAILED"}, e.pay)
           any == FindByHash(txs, "outgoing", States, e.pay)
           found == IF pending # {} THEN pending ELSE IF failed # {} THEN failed ELSE any
       IN  IF found = {} THEN Consume(e, 0) ELSE \E i \in found : Consume(e, i)
    /\ UNCHANGED txs

(* Variant: that no row was found is not checked.                          *)
ConsumePaymentFailedUnchecked(e) ==
    /\ e.kind = "payment_failed"
    /\ LET pending == FindByHash(txs, "outgoing", {"PENDING"}, e.pay)
       IN  IF pending = {} THEN Consume(e, 0) ELSE \E i \in pending : Consume(e, i)
    /\ UNCHANGED txs

ConsumePaymentFailed(e) ==
    /\ e.kind = "payment_failed"
    /\ LET pending == FindByHash(txs, "outgoing", {"PENDING"}, e.pay)
       IN  IF pending = {} THEN UNCHANGED consumers ELSE \E i \in pending : Consume(e, i)
    /\ UNCHANGED txs

ConsumeEvent(e) ==
    /\ \/ ConsumePaymentReceived(e) \/ ConsumeHoldInvoiceAccepted(e)
       \/ ConsumePaymentSent(e) \/ ConsumePaymentFailed(e)
    /\ events' = events \ {e}
    /\ UNCHANGED <<call, ops, wakes, announced, revived, node>>

CommitEvent(c) ==
    /\ \/ /\ c.kind = "payment_failed"
          /\ MarkPaymentFailed(c.row)
          /\ UNCHANGED wakes
       \/ /\ c.kind # "payment_failed" /\ c.row # 0
          /\ MarkTransactionSettled(c.row, c.fee, FALSE)
       \/ /\ c.kind # "payment_failed" /\ c.row = 0
          /\ \E i \in TxId : CreateSettledTransactionFromNotification(i,
                IF c.kind = "payment_sent" THEN "outgoing" ELSE "incoming", c.pay, c.fee)
    /\ consumers' = consumers \ {c}
    /\ UNCHANGED <<call, ops, events, node>>

(* Variant: a payment the node knows of counts as settled.                 *)
LookupKnown(x) == HashOf[x] \in DOMAIN out \/ \E y \in Own : HashOf[y] = HashOf[x]

(* checkUnsettledTransactions, for a client without payment_received       *)
(* events: LookupInvoice answers for an incoming payment with the hash,    *)
(* otherwise for an outgoing one.                                          *)
LookupSettled(x) ==
    LET incoming == {y \in Own : HashOf[y] = HashOf[x]}
    IN  IF incoming # {} THEN \E y \in incoming : htlc[y] = "paid"
        ELSE HashOf[x] \in DOMAIN out /\ out[HashOf[x]].status = "sent"

CheckUnsettledTransaction(i) ==
    /\ running
    /\ "payment_received" \notin Emits
    /\ i \in DOMAIN txs
    /\ txs[i].state = "PENDING"
    /\ LookupSettled(txs[i].pay)
    /\ Consume([kind |-> IF txs[i].type = "incoming" THEN "payment_received" ELSE "payment_sent",
                pay |-> txs[i].pay,
                fee |-> IF HashOf[txs[i].pay] \in DOMAIN out
                        THEN out[HashOf[txs[i].pay]].fee ELSE 0], i)
    /\ UNCHANGED <<db, call, ops, events, wakes, node>>

-----------------------------------------------------------------------------
(* The node.                                                               *)

(* An outgoing payment ends.  Its event is published and the call waiting  *)
(* for it is answered.  The route's fee is at most the fee reserve.        *)
ResolvePayment(h, status, fee) ==
    /\ running
    /\ h \in DOMAIN out /\ out[h].status = "inflight"
    /\ out' = [out EXCEPT ![h].status = status, ![h].fee = fee]
    /\ call' = [p \in DOMAIN call |->
                  IF call[p].pc = "waiting" /\ HashOf[call[p].pay] = h
                  THEN [call[p] EXCEPT !.pc = IF status = "sent" THEN "settle" ELSE "fail"]
                  ELSE call[p]]
    /\ Emit([kind |-> IF status = "sent" THEN "payment_sent" ELSE "payment_failed",
             pay |-> out[h].pay, fee |-> fee])
    /\ UNCHANGED <<db, ops, consumers, wakes, htlc, running, stops, crashes>>

NodeResolves(h) ==
    \/ ResolvePayment(h, "failed", 0)
    \/ \E fee \in {0, CalculateFeeReserveMsat(AmountOf[out[h].pay])} :
         ResolvePayment(h, "sent", fee)

(* The node is paid, or holds the payment of a hold invoice.               *)
NodeReceives(x) ==
    /\ running
    /\ x \in Reachable /\ htlc[x] = "none"
    /\ x \in Invoices => FindByRequest(txs, "incoming", States, x) # {}
    /\ htlc' = [htlc EXCEPT ![x] = IF x \in Hold THEN "held" ELSE "paid"]
    /\ Emit([kind |-> IF x \in Hold THEN "hold_invoice_accepted" ELSE "payment_received",
             pay |-> x, fee |-> 0])
    /\ UNCHANGED <<db, call, ops, consumers, wakes, out, running, stops, crashes>>

(* The settle deadline passes: the node gives the held payment back and    *)
(* no event says so.                                                       *)
HoldExpires(x) ==
    /\ x \in Own /\ htlc[x] = "held"
    /\ htlc' = [htlc EXCEPT ![x] = "canceled"]
    /\ UNCHANGED <<db, call, ops, events, consumers, wakes, out, running, stops, crashes>>

(* Another user of the node sends a payment the hub knows nothing of.      *)
PaidOutside(x) ==
    /\ running
    /\ x \in Outside /\ HashOf[x] \notin DOMAIN out
    /\ out' = [g \in DOMAIN out \cup {HashOf[x]} |->
                 IF g # HashOf[x] THEN out[g] ELSE [status |-> "sent", pay |-> x, fee |-> 0]]
    /\ Emit([kind |-> "payment_sent", pay |-> x, fee |-> 0])
    /\ UNCHANGED <<db, call, ops, consumers, wakes, htlc, running, stops, crashes>>

(* Variant: a call cut off by the stop takes its payment for made.         *)
StopNodeAssumingSuccess ==
    /\ running /\ stops < MaxStops
    /\ running' = FALSE
    /\ stops' = stops + 1
    /\ call' = [p \in DOMAIN call |->
                  IF call[p].pc = "waiting" THEN [call[p] EXCEPT !.pc = "settle"] ELSE call[p]]
    /\ UNCHANGED <<db, ops, events, consumers, wakes, crashes, out, htlc>>

(* The node is stopped: its context is cancelled and every call waiting in *)
(* it returns the context's error.                                         *)
StopNode ==
    /\ running /\ stops < MaxStops
    /\ running' = FALSE
    /\ stops' = stops + 1
    /\ call' = [p \in DOMAIN call |->
                  IF call[p].pc = "waiting" THEN [call[p] EXCEPT !.pc = "fail"] ELSE call[p]]
    /\ UNCHANGED <<db, ops, events, consumers, wakes, crashes, out, htlc>>

StartNode ==
    /\ ~running
    /\ running' = TRUE
    /\ UNCHANGED <<db, call, ops, events, consumers, wakes, stops, crashes, out, htlc>>

(* The process dies and is started again.  Events that were published but  *)
(* not yet marked as handled come again; the others are gone.              *)
Crash ==
    /\ crashes < MaxCrashes
    /\ crashes' = crashes + 1
    /\ running' = TRUE
    /\ call' = [p \in {} |-> 0]
    /\ ops' = [o \in {} |-> 0]
    /\ consumers' = {}
    /\ wakes' = {}
    /\ events' \in SUBSET events
    /\ UNCHANGED <<db, stops, out, htlc>>

-----------------------------------------------------------------------------
Init ==
    /\ txs = [i \in {} |-> 0]
    /\ call = [p \in {} |-> 0]
    /\ ops = [o \in {} |-> 0]
    /\ events = {} /\ consumers = {} /\ wakes = {}
    /\ announced = [k \in Types \X Requests |-> 0]
    /\ revived = {}
    /\ running = TRUE /\ stops = 0 /\ crashes = 0
    /\ out = [h \in {} |-> 0]
    /\ htlc = [x \in Own |-> "none"]

Next ==
    \/ \E x \in Own, i \in TxId : MakeInvoice(x, i)
    \/ \E p \in Payers, x \in Payable, a \in Apps \cup {NoApp} : BeginPayment(p, x, a)
    \/ \E p \in Payers : PayerStep(p)
    \/ \E o \in Operators, pc \in {"settle", "cancel"} : BeginHoldOperation(o, pc)
    \/ \E o \in Operators : OperatorStep(o)
    \/ \E e \in events : ConsumeEvent(e)
    \/ \E c \in consumers : CommitEvent(c)
    \/ \E i \in TxId : CheckUnsettledTransaction(i)
    \/ \E h \in DOMAIN out : NodeResolves(h)
    \/ \E x \in Reachable : NodeReceives(x) \/ HoldExpires(x)
    \/ \E x \in Outside : PaidOutside(x)
    \/ StopNode \/ StartNode \/ Crash

Spec == Init /\ [][Next]_vars

(* Goroutines are scheduled.  Nothing is asked of the node.                *)
Fairness ==
    /\ \A p \in Payers : WF_vars(PayerStep(p))
    /\ \A o \in Operators : WF_vars(OperatorStep(o))
    /\ WF_vars(\E e \in events : ConsumeEvent(e))
    /\ WF_vars(\E c \in consumers : CommitEvent(c))

FairSpec == Spec /\ Fairness
-----------------------------------------------------------------------------
(* Properties.                                                             *)

IsRow(i, type, x) ==
    i \in DOMAIN txs /\ txs[i].type = type /\ HashOf[txs[i].pay] = HashOf[x]

SelfPcs == {"keysendIncoming", "intercept", "selfSettle", "register", "registered", "holding"}

CallOK(c) ==
    /\ c.pc # "create" => IsRow(c.row, "outgoing", c.pay) /\ txs[c.row].pay = c.pay
    /\ c.pc = "selfSettle" => IsRow(c.incoming, "incoming", c.pay)
    /\ c.pc \in SelfPcs => c.self
    /\ c.pc = "keysendIncoming" => c.pay \in Keysends
    /\ c.self /\ c.pay \in Keysends => c.pay \in Own
    /\ c.pc = "settle" /\ ~c.self => HashOf[c.pay] \in DOMAIN out
                                    /\ out[HashOf[c.pay]].status = "sent"

ConsumerHasRow(c) ==
    /\ c.row # 0 => IsRow(c.row, IF c.kind \in {"payment_sent", "payment_failed"}
                                  THEN "outgoing" ELSE "incoming", c.pay)
    /\ c.kind = "payment_failed" => c.row # 0

LocalsOK ==
    /\ \A p \in DOMAIN call : CallOK(call[p])
    /\ \A o \in DOMAIN ops : ops[o].row \in DOMAIN txs /\ txs[ops[o].row].type = "incoming"
    /\ \A c \in consumers : ConsumerHasRow(c)

(* Types; and every row a goroutine carries in a local variable is a row   *)
(* of the table, of the type and the hash its next step takes it for (the  *)
(* code updates through such a row without checking what became of it).  A *)
(* call that was answered with success by the node has a sent payment.     *)
TypeOK ==
    /\ DOMAIN txs \subseteq TxId /\ txs \in [DOMAIN txs -> Row]
    /\ DOMAIN call \subseteq Payers /\ call \in [DOMAIN call -> Call]
    /\ DOMAIN ops \subseteq Operators /\ ops \in [DOMAIN ops -> Op]
    /\ events \subseteq Event
    /\ consumers \subseteq Consumer
    /\ wakes \subseteq Wake
    /\ announced \in [Types \X Requests -> Nat]
    /\ revived \subseteq TxId
    /\ running \in BOOLEAN /\ stops \in Nat /\ crashes \in Nat
    /\ DOMAIN out \subseteq Hashes /\ out \in [DOMAIN out -> OutPayment]
    /\ htlc \in [Own -> HtlcStates]
    /\ LocalsOK

Settled(i) == txs[i].state = "SETTLED"

(* However often a payment is retried, answered, announced by an event or  *)
(* found by polling, at most one of its rows is settled                    *)
(* (findSettledTransaction: "only one transaction is settled per payment").*)
SamePayment(x, y) == x = y \/ (x \in Keysends /\ y \in Keysends /\ HashOf[x] = HashOf[y])

SettledOncePerPayment ==
    \A i, j \in DOMAIN txs :
        /\ Settled(i) /\ Settled(j)
        /\ txs[i].type = txs[j].type
        /\ SamePayment(txs[i].pay, txs[j].pay)
        => i = j

(* Every settlement is published once, and nothing is published that is    *)
(* not a settlement (publishEvents after the commit).                      *)
AnnouncedOnce ==
    \A k \in Types \X Requests :
        announced[k] = Cardinality({i \in DOMAIN txs :
                          Settled(i) /\ txs[i].type = k[1] /\ txs[i].pay = k[2]})

Sent(x) == HashOf[x] \in DOMAIN out /\ out[HashOf[x]].status = "sent"

ReceivedHere(x) == FindByHash(txs, "incoming", {"SETTLED"}, x) # {}

Paid(x) == Sent(x) \/ ReceivedHere(x)

(* A sent payment that the table calls settled was paid: by the node, or   *)
(* to an incoming row of this hub.                                         *)
SettledMeansPaid ==
    \A i \in DOMAIN txs :
        Settled(i) /\ txs[i].type = "outgoing" => Paid(txs[i].pay)

WakeIsTrue(w) ==
    /\ w.to \in DOMAIN call /\ call[w.to].pc \in {"registered", "holding"}
    /\ w.kind = "settled" => ReceivedHere(call[w.to].pay)

(* Nobody is told of a success that is none: neither the call about to     *)
(* settle its row, nor the goroutine waiting for a hold invoice (which     *)
(* gets the settlement on a channel, without an identifier), nor the       *)
(* consumer of a sent event, whatever happened since they were told.       *)
SuccessIsTrue ==
    /\ \A p \in DOMAIN call : call[p].pc = "settle" => Paid(call[p].pay)
    /\ \A w \in wakes : WakeIsTrue(w)
    /\ \A e \in events : e.kind = "payment_sent" => Sent(e.pay)
    /\ \A c \in consumers : c.kind = "payment_sent" => Sent(c.pay)

(* What a wrapped invoice needs: the payment settled is the payment that   *)
(* was made, not another one with the same hash.                           *)
SettledMeansThisWasPaid ==
    \A i \in DOMAIN txs :
        Settled(i) /\ txs[i].type = "outgoing" =>
            LET x == txs[i].pay
            IN  \/ /\ HashOf[x] \in DOMAIN out
                   /\ out[HashOf[x]].status = "sent" /\ out[HashOf[x]].pay = x
                \/ FindByRequest(txs, "incoming", {"SETTLED"}, x) # {}

(* Money received from this hub itself is money some payer here is out of: *)
(* its row has not failed.                                                 *)
SelfPaymentConserved ==
    \A i \in DOMAIN txs :
        Settled(i) /\ txs[i].type = "incoming" /\ txs[i].self =>
            \E j \in FindByHash(txs, "outgoing", {"PENDING", "SETTLED"}, txs[i].pay) :
                txs[j].self

(* The part of an app's outgoing rows its balance was not validated for:   *)
(* the reserve of a self payment.                                          *)
SelfReserves(a) ==
    SumOver([i \in DOMAIN txs |-> IF txs[i].self THEN txs[i].reserve ELSE 0], Outgoing(txs, a))

(* What an app spent on payments that settled after their row had failed.  *)
RevivedMsat(a) == SumOver(Costs(txs), revived \cap Outgoing(txs, a))

(* An isolated app never spends what it has not received, however its      *)
(* payments interleave (validateCanPay: "ensure balance for isolated       *)
(* apps").                                                                 *)
IsolatedNeverOverspent ==
    \A a \in Isolated : GetIsolatedBalanceMsat(txs, a) + SelfReserves(a) >= 0

(* What the code guarantees of it: an overdraft is never larger than the   *)
(* payments that settled after their row had failed.                       *)
IsolatedOverdraftIsRevived ==
    \A a \in Isolated :
        GetIsolatedBalanceMsat(txs, a) + SelfReserves(a) + RevivedMsat(a) >= 0

(* The budget of an app holds up to the two roundings to sats.             *)
BudgetHolds ==
    \A a \in Apps : Budget[a] > 0 =>
        GetBudgetUsageMsat(txs, a) - SelfReserves(a) - RevivedMsat(a) <= 1000 * Budget[a] + 1998

(* With nothing left to do, the table agrees with the node: what was sent  *)
(* is settled, and nothing is pending that is not in flight.               *)
Quiet == DOMAIN call = {} /\ DOMAIN ops = {} /\ events = {} /\ consumers = {}

QuietTableAgreesWithNode ==
    Quiet =>
        /\ \A h \in DOMAIN out : out[h].status = "sent" =>
             FindByHash(txs, "outgoing", {"SETTLED"}, out[h].pay) # {}
        /\ \A i \in DOMAIN txs : txs[i].type = "outgoing" /\ txs[i].state = "PENDING" =>
             HashOf[txs[i].pay] \in DOMAIN out /\ out[HashOf[txs[i].pay]].status = "inflight"

(* A settled row stays as it was settled: it never fails, is never settled *)
(* again with another fee and is never taken back to accepted.             *)
SettledIsFinal ==
    [][\A i \in DOMAIN txs : Settled(i) => i \in DOMAIN txs' /\ txs'[i] = txs[i]]_vars

(* A call that was answered with success leaves its own row settled        *)
(* ("the payment definitely succeeded").                                   *)
SuccessIsRecorded ==
    [][\A p \in Payers : At(p, "settle") /\ p \notin DOMAIN call' /\ crashes' = crashes =>
         txs'[call[p].row].state = "SETTLED"]_vars

(* A canceled hold invoice is never paid out afterwards.                   *)
CanceledHoldStaysCanceled ==
    [][\A i \in DOMAIN txs :
         txs[i].type = "incoming" /\ txs[i].state = "FAILED" => txs'[i].state = "FAILED"]_vars

(* Whatever the node sent or received is recorded in the end.              *)
SentIsRecorded ==
    \A h \in Hashes :
        (h \in DOMAIN out /\ out[h].status = "sent")
          ~> \E i \in DOMAIN txs : Settled(i) /\ txs[i].type = "outgoing" /\ HashOf[txs[i].pay] = h

ReceivedIsRecorded ==
    \A x \in Own :
        htlc[x] = "paid"
          ~> \E i \in DOMAIN txs : Settled(i) /\ txs[i].type = "incoming"
                                   /\ HashOf[txs[i].pay] = HashOf[x]

(* A payer waiting for a hold invoice of this hub is woken once the        *)
(* invoice is settled or canceled.                                         *)
HoldPayerIsWoken ==
    \A p \in Payers :
        (At(p, "holding") /\ FindByRequest(txs, "incoming", {"PENDING", "ACCEPTED"}, call[p].pay) = {})
          ~> ~At(p, "holding")
=============================================================================
