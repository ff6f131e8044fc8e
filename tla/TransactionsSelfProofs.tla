------------------------ MODULE TransactionsSelfProofs ------------------------
(***************************************************************************)
(* Self payments and hold invoices: what a payment to the hub's own invoice *)
(* moves stays in the ledger (SelfPaymentConserved), a hold invoice that    *)
(* was canceled stays canceled (CanceledHoldStaysCanceled), a caller who is *)
(* told of success finds the settled row (SuccessIsRecorded).  And payments *)
(* to others: in the end the table agrees with the node                     *)
(* (QuietTableAgreesWithNode).                                              *)
(***************************************************************************)
EXTENDS TransactionsProofs

-----------------------------------------------------------------------------
(* What a step does to a row, and on whose behalf: what the goroutine      *)
(* knew, which is why it may.                                              *)

RowFails(i) ==
    /\ CanFail(i) /\ txs'[i].state = "FAILED" /\ txs'[i].self = txs[i].self
    /\ \/ \E p \in DOMAIN call : /\ call[p].pc = "fail" /\ call[p].row = i
                                 /\ p \notin DOMAIN call'
       \/ \E c \in consumers : c.kind = "payment_failed" /\ c.row = i
       \/ \E o \in DOMAIN ops : /\ ops[o].pc = "cancelCommit" /\ ops[o].row = i
                                /\ o \notin DOMAIN ops'

RowAccepted(i) ==
    /\ txs[i].type = "incoming" /\ txs[i].state = "PENDING" /\ txs'[i].state = "ACCEPTED"
    /\ \/ /\ ~txs'[i].self
          /\ \E e \in events : /\ e.kind = "hold_invoice_accepted"
                               /\ SameRequest(e.pay, txs[i].pay)
       \/ /\ txs'[i].self
          /\ \E p \in DOMAIN call : /\ call[p].pc = "registered"
                                    /\ SameRequest(call[p].pay, txs[i].pay)
                                    /\ Goto(p, "holding") /\ UNCHANGED wakes

RowSettled(i) ==
    /\ ~Settled(i) /\ txs'[i].state = "SETTLED"
    /\ \/ \E p \in DOMAIN call : /\ call[p].pc = "settle" /\ call[p].row = i
                                 /\ txs'[i].self = call[p].self
       \/ \E p \in DOMAIN call : /\ call[p].pc = "selfSettle" /\ call[p].incoming = i
                                 /\ txs'[i].self /\ Goto(p, "settle")
       \/ /\ ~txs'[i].self
          /\ \E c \in consumers : c.kind # "payment_failed" /\ c.row = i
       \/ \E o \in DOMAIN ops : /\ ops[o].pc = "settleCommit" /\ ops[o].row = i
                                /\ txs'[i].self = ops[o].self

RowStep(i) == txs'[i] = txs[i] \/ RowFails(i) \/ RowAccepted(i) \/ RowSettled(i)

(* Where a new row comes from.                                             *)
NewInvoice(i) ==
    /\ txs'[i].type = "incoming" /\ txs'[i].state = "PENDING" /\ ~txs'[i].self
    /\ txs'[i].pay \in Own \cap Invoices
    /\ \A j \in DOMAIN txs : txs[j].type = "incoming" => txs[j].pay # txs'[i].pay

NewOutgoing(i) ==
    /\ txs'[i].type = "outgoing" /\ txs'[i].state = "PENDING" /\ ~AlreadyPaid(txs'[i].pay)
    /\ \E p \in DOMAIN call : /\ call[p].pc = "create" /\ call[p].pay = txs'[i].pay
                              /\ txs'[i].self = call[p].self
                              /\ p \in DOMAIN call' /\ call'[p].row = i
                              /\ call'[p].pc \in {"send", "keysendIncoming", "intercept"}

NewKeysend(i) ==
    /\ txs'[i].type = "incoming" /\ txs'[i].state = "PENDING"
    /\ \E p \in DOMAIN call : call[p].pc = "keysendIncoming" /\ call[p].pay = txs'[i].pay

NewSettled(i) ==
    /\ txs'[i].state = "SETTLED" /\ ~txs'[i].self
    /\ \E c \in consumers : /\ c.kind # "payment_failed" /\ c.row = 0 /\ c.pay = txs'[i].pay
                            /\ txs'[i].type = IF c.kind = "payment_sent" THEN "outgoing"
                                              ELSE "incoming"

NewRow(i) == NewInvoice(i) \/ NewOutgoing(i) \/ NewKeysend(i) \/ NewSettled(i)

RowsStep ==
    /\ \A i \in DOMAIN txs : RowStep(i)
    /\ \A i \in DOMAIN txs' \ DOMAIN txs : NewRow(i) /\ \A j \in DOMAIN txs : txs'[j] = txs[j]
    /\ \A i, j \in DOMAIN txs' \ DOMAIN txs : i = j

LEMMA SameRows == ASSUME UNCHANGED txs PROVE RowsStep
BY DEF RowsStep, RowStep

LEMMA InsertedRow ==
    ASSUME TypeOK, NEW i, IsNextId(txs, i), NEW r, txs' = Insert(txs, i, r),
           txs'[i] = r => NewRow(i)
    PROVE  RowsStep
<1>1. /\ DOMAIN txs' = DOMAIN txs \cup {i} /\ txs'[i] = r
      /\ \A j \in DOMAIN txs : txs'[j] = txs[j]
  BY DEF Insert, IsNextId
<1> QED BY <1>1 DEF RowsStep, RowStep

LEMMA SettledRow ==
    ASSUME TypeOK, NEW i \in DOMAIN txs, NEW fee, NEW self \in BOOLEAN,
           MarkTransactionSettled(i, fee, self),
           txs'[i].state = "SETTLED" /\ txs'[i].self = self /\ ~Settled(i) => RowSettled(i)
    PROVE  RowsStep
<1>1. CASE UNCHANGED txs
  BY <1>1, SameRows
<1>2. CASE ~UNCHANGED txs
  <2> DEFINE r == [txs[i] EXCEPT !.state = "SETTLED", !.fee = fee, !.reserve = 0, !.self = self]
  <2>1. FindSettled(txs, txs[i].type, txs[i].pay) = {} /\ SetSettled(i, fee, self)
    BY <1>2 DEF MarkTransactionSettled
  <2>2. ~Settled(i)
    BY <2>1, SettledIsFound
  <2>3. txs' = [txs EXCEPT ![i] = r]
    BY <2>1 DEF SetSettled, TypeOK
  <2>4. r.state = "SETTLED" /\ r.self = self
    BY DEF TypeOK, Row
  <2> HIDE DEF r
  <2>5. DOMAIN txs' = DOMAIN txs /\ txs'[i] = r /\ \A j \in DOMAIN txs \ {i} : txs'[j] = txs[j]
    BY <2>3 DEF TypeOK
  <2> QED BY <2>2, <2>4, <2>5 DEF RowsStep, RowStep
<1> QED BY <1>1, <1>2

LEMMA FailedRow ==
    ASSUME TypeOK, NEW i \in DOMAIN txs, MarkPaymentFailed(i),
           txs'[i].state = "FAILED" /\ txs'[i].self = txs[i].self /\ CanFail(i) => RowFails(i)
    PROVE  RowsStep
<1>1. CASE UNCHANGED txs
  BY <1>1, SameRows
<1>2. CASE CanFail(i)
  <2> DEFINE r == [txs[i] EXCEPT !.state = "FAILED", !.reserve = 0]
  <2>1. txs' = [txs EXCEPT ![i] = r]
    BY <1>2 DEF MarkPaymentFailed, TypeOK
  <2>2. r.state = "FAILED" /\ r.self = txs[i].self
    BY DEF TypeOK, Row
  <2> HIDE DEF r
  <2>3. DOMAIN txs' = DOMAIN txs /\ txs'[i] = r /\ \A j \in DOMAIN txs \ {i} : txs'[j] = txs[j]
    BY <2>1 DEF TypeOK
  <2> QED BY <1>2, <2>2, <2>3 DEF RowsStep, RowStep
<1> QED BY <1>1, <1>2 DEF MarkPaymentFailed

LEMMA AcceptedRow ==
    ASSUME TypeOK, NEW x, NEW self \in BOOLEAN, MarkHoldInvoiceAccepted(x, self),
           \A i \in DOMAIN txs : txs[i].type = "incoming" /\ txs[i].state = "PENDING"
               /\ SameRequest(x, txs[i].pay)
               /\ txs'[i].state = "ACCEPTED" /\ txs'[i].self = self => RowAccepted(i)
    PROVE  RowsStep
<1> DEFINE found == FindByRequest(txs, "incoming", {"PENDING"}, x)
<1>1. CASE UNCHANGED txs
  BY <1>1, SameRows
<1>2. CASE ~UNCHANGED txs
  <2>1. PICK i \in found : txs' = [txs EXCEPT ![i].state = "ACCEPTED", ![i].self = self]
    BY <1>2 DEF MarkHoldInvoiceAccepted
  <2>2. /\ i \in DOMAIN txs /\ txs[i].type = "incoming" /\ txs[i].state = "PENDING"
        /\ SameRequest(x, txs[i].pay)
    BY DEF FindByRequest, FindByHash
  <2> DEFINE r == [txs[i] EXCEPT !.state = "ACCEPTED", !.self = self]
  <2>3. txs' = [txs EXCEPT ![i] = r]
    BY <2>1, <2>2
  <2>4. r.state = "ACCEPTED" /\ r.self = self
    BY <2>2 DEF TypeOK, Row
  <2> HIDE DEF r, found
  <2>5. DOMAIN txs' = DOMAIN txs /\ txs'[i] = r /\ \A j \in DOMAIN txs \ {i} : txs'[j] = txs[j]
    BY <2>2, <2>3 DEF TypeOK
  <2> QED BY <2>2, <2>4, <2>5 DEF RowsStep, RowStep
<1> QED BY <1>1, <1>2

LEMMA PayerRows ==
    ASSUME TypeOK, NEW p, PayerStep(p)
    PROVE  RowsStep
<1>1. ASSUME NEW i \in TxId, CreateOutgoing(p, i)
      PROVE  RowsStep
  <2> DEFINE c == call[p]
             r == [type |-> "outgoing", state |-> "PENDING", pay |-> c.pay, app |-> c.app,
                   fee |-> 0, reserve |-> CalculateFeeReserveMsat(AmountOf[c.pay]),
                   self |-> c.self]
             pc == IF ~c.self THEN "send"
                   ELSE IF c.pay \in Keysends THEN "keysendIncoming" ELSE "intercept"
  <2>1. p \in DOMAIN call /\ c.pc = "create"
    BY <1>1 DEF CreateOutgoing, At
  <2>2. CASE UNCHANGED txs
    BY <2>2, SameRows
  <2>3. CASE ~UNCHANGED txs
    <3>1. /\ ~AlreadyPaid(c.pay) /\ IsNextId(txs, i) /\ txs' = Insert(txs, i, r)
          /\ call' = [call EXCEPT ![p].row = i, ![p].pc = pc]
      BY <1>1, <2>3 DEF CreateOutgoing
    <3>2. r.type = "outgoing" /\ r.state = "PENDING" /\ r.pay = c.pay /\ r.self = c.self
      OBVIOUS
    <3>3. pc \in {"send", "keysendIncoming", "intercept"}
      OBVIOUS
    <3> HIDE DEF r, pc
    <3>4. p \in DOMAIN call' /\ call'[p].row = i /\ call'[p].pc = pc
      BY <2>1, <3>1, TypeParts DEF CallsOK, Call
    <3>5. txs'[i] = r => NewRow(i)
      BY <2>1, <3>1, <3>2, <3>3, <3>4 DEF NewRow, NewOutgoing
    <3> QED BY <3>1, <3>5, InsertedRow
  <2> QED BY <2>2, <2>3
<1>2. ASSUME NEW i \in TxId, CreateKeysendIncoming(p, i)
      PROVE  RowsStep
  <2> DEFINE r == [type |-> "incoming", state |-> "PENDING", pay |-> call[p].pay,
                   app |-> Payee[call[p].pay], fee |-> 0, reserve |-> 0, self |-> TRUE]
  <2>1. /\ p \in DOMAIN call /\ call[p].pc = "keysendIncoming"
        /\ IsNextId(txs, i) /\ txs' = Insert(txs, i, r)
    BY <1>2 DEF CreateKeysendIncoming, At
  <2>2. r.type = "incoming" /\ r.state = "PENDING" /\ r.pay = call[p].pay
    OBVIOUS
  <2> HIDE DEF r
  <2>3. txs'[i] = r => NewRow(i)
    BY <2>1, <2>2 DEF NewRow, NewKeysend
  <2> QED BY <2>1, <2>3, InsertedRow
<1>3. CASE SettleIncomingSelfPayment(p)
  <2>1. /\ p \in DOMAIN call /\ call[p].pc = "selfSettle" /\ call[p].incoming \in DOMAIN txs
        /\ MarkTransactionSettled(call[p].incoming, 0, TRUE) /\ Goto(p, "settle")
    BY <1>3, TypeParts DEF SettleIncomingSelfPayment, At, LocalsOK, CallOK, IsRow
  <2> DEFINE i == call[p].incoming
  <2>2. txs'[i].state = "SETTLED" /\ txs'[i].self = TRUE /\ ~Settled(i) => RowSettled(i)
    BY <2>1 DEF RowSettled
  <2> QED BY <2>1, <2>2, SettledRow
<1>4. CASE SettleOutgoing(p)
  <2> DEFINE i == call[p].row
             fee == IF call[p].self THEN 0 ELSE out[HashOf[call[p].pay]].fee
  <2>1. /\ p \in DOMAIN call /\ call[p].pc = "settle" /\ i \in DOMAIN txs
        /\ call[p].self \in BOOLEAN /\ MarkTransactionSettled(i, fee, call[p].self)
    BY <1>4, TypeParts, CallsTyped DEF SettleOutgoing, At, LocalsOK, CallOK, IsRow, Call
  <2> HIDE DEF fee
  <2>2. txs'[i].state = "SETTLED" /\ txs'[i].self = call[p].self /\ ~Settled(i) => RowSettled(i)
    BY <2>1 DEF RowSettled
  <2> QED BY <2>1, <2>2, SettledRow
<1>5. CASE FailOutgoing(p)
  <2> DEFINE i == call[p].row
  <2>1. /\ p \in DOMAIN call /\ call[p].pc = "fail" /\ i \in DOMAIN txs
        /\ MarkPaymentFailed(i) /\ p \notin DOMAIN call'
    BY <1>5, TypeParts DEF FailOutgoing, At, LocalsOK, CallOK, IsRow, Return
  <2>2. txs'[i].state = "FAILED" /\ txs'[i].self = txs[i].self /\ CanFail(i) => RowFails(i)
    BY <2>1 DEF RowFails
  <2> QED BY <2>1, <2>2, FailedRow
<1>6. CASE AcceptSelfHoldPayment(p)
  <2>1. /\ p \in DOMAIN call /\ call[p].pc = "registered" /\ Goto(p, "holding")
        /\ MarkHoldInvoiceAccepted(call[p].pay, TRUE) /\ UNCHANGED wakes
    BY <1>6 DEF AcceptSelfHoldPayment, At
  <2>2. \A i \in DOMAIN txs : txs[i].type = "incoming" /\ txs[i].state = "PENDING"
            /\ SameRequest(call[p].pay, txs[i].pay)
            /\ txs'[i].state = "ACCEPTED" /\ txs'[i].self = TRUE => RowAccepted(i)
    BY <2>1 DEF RowAccepted
  <2> QED BY <2>1, <2>2, AcceptedRow
<1>7. CASE \/ SendToNode(p) \/ InterceptSelfPayment(p) \/ RegisterHoldConsumer(p)
           \/ GetInfoFails(p) \/ WakeSelfHoldPayment(p)
  <2>1. UNCHANGED txs
    BY <1>7 DEF SendToNode, InterceptSelfPayment, RegisterHoldConsumer, GetInfoFails,
                WakeSelfHoldPayment, db
  <2> QED BY <2>1, SameRows
<1> QED BY <1>1, <1>2, <1>3, <1>4, <1>5, <1>6, <1>7 DEF PayerStep

LEMMA OperatorRows ==
    ASSUME TypeOK, NEW o \in Operators, OperatorStep(o)
    PROVE  RowsStep
<1>1. CASE SettleHoldInvoice(o) \/ CancelHoldInvoice(o)
  <2>1. UNCHANGED txs
    BY <1>1 DEF SettleHoldInvoice, CancelHoldInvoice, AskNode, db
  <2> QED BY <2>1, SameRows
<1>2. CASE CommitSettleHoldInvoice(o)
  <2> DEFINE i == ops[o].row
  <2>1. /\ o \in DOMAIN ops /\ ops[o].pc = "settleCommit" /\ i \in DOMAIN txs
        /\ ops[o].self \in BOOLEAN /\ MarkTransactionSettled(i, 0, ops[o].self)
    BY <1>2, TypeParts DEF CommitSettleHoldInvoice, OpAt, LocalsOK, OpsOK, Op
  <2>2. txs'[i].state = "SETTLED" /\ txs'[i].self = ops[o].self /\ ~Settled(i) => RowSettled(i)
    BY <2>1 DEF RowSettled
  <2> QED BY <2>1, <2>2, SettledRow
<1>3. CASE CommitCancelHoldInvoice(o)
  <2> DEFINE i == ops[o].row
  <2>1. /\ o \in DOMAIN ops /\ ops[o].pc = "cancelCommit" /\ i \in DOMAIN txs
        /\ MarkPaymentFailed(i) /\ o \notin DOMAIN ops'
    BY <1>3, TypeParts DEF CommitCancelHoldInvoice, OpAt, LocalsOK, OpReturn
  <2>2. txs'[i].state = "FAILED" /\ txs'[i].self = txs[i].self /\ CanFail(i) => RowFails(i)
    BY <2>1 DEF RowFails
  <2> QED BY <2>1, <2>2, FailedRow
<1> QED BY <1>1, <1>2, <1>3 DEF OperatorStep

LEMMA CommitRows ==
    ASSUME TypeOK, NEW c \in consumers, CommitEvent(c)
    PROVE  RowsStep
<1>1. c.row # 0 => c.row \in DOMAIN txs
  BY TypeParts DEF LocalsOK, ConsumerHasRow, IsRow
<1>0. c.kind = "payment_failed" => c.row # 0
  BY TypeParts DEF LocalsOK, ConsumerHasRow
<1>2. CASE c.kind = "payment_failed" /\ MarkPaymentFailed(c.row)
  <2>1. txs'[c.row].state = "FAILED" /\ txs'[c.row].self = txs[c.row].self /\ CanFail(c.row)
        => RowFails(c.row)
    BY <1>2 DEF RowFails
  <2> QED BY <1>0, <1>1, <1>2, <2>1, FailedRow
<1>3. CASE c.kind # "payment_failed" /\ c.row # 0 /\ MarkTransactionSettled(c.row, c.fee, FALSE)
  <2>1. txs'[c.row].state = "SETTLED" /\ txs'[c.row].self = FALSE /\ ~Settled(c.row)
        => RowSettled(c.row)
    BY <1>3 DEF RowSettled
  <2> QED BY <1>1, <1>3, <2>1, SettledRow
<1>4. ASSUME NEW i \in TxId, c.kind # "payment_failed", c.row = 0,
             CreateSettledTransactionFromNotification(i,
                IF c.kind = "payment_sent" THEN "outgoing" ELSE "incoming", c.pay, c.fee)
      PROVE  RowsStep
  <2> DEFINE type == IF c.kind = "payment_sent" THEN "outgoing" ELSE "incoming"
             r == [type |-> type, state |-> "SETTLED", pay |-> c.pay,
                   app |-> IF type = "incoming" /\ c.pay \in Keysends \cap Own
                           THEN Payee[c.pay] ELSE NoApp,
                   fee |-> c.fee, reserve |-> 0, self |-> FALSE]
  <2>1. CASE UNCHANGED txs
    BY <2>1, SameRows
  <2>2. CASE ~UNCHANGED txs
    <3>1. IsNextId(txs, i) /\ txs' = Insert(txs, i, r)
      BY <1>4, <2>2 DEF CreateSettledTransactionFromNotification
    <3>2. r.type = type /\ r.state = "SETTLED" /\ r.pay = c.pay /\ r.self = FALSE
      OBVIOUS
    <3> HIDE DEF r
    <3>3. txs'[i] = r => NewRow(i)
      BY <1>4, <3>2 DEF NewRow, NewSettled
    <3> QED BY <3>1, <3>3, InsertedRow
  <2> QED BY <2>1, <2>2
<1> QED BY <1>2, <1>3, <1>4 DEF CommitEvent

LEMMA EveryRow ==
    ASSUME TypeOK, [Next]_vars
    PROVE  RowsStep
<1>1. ASSUME NEW x \in Own, NEW i \in TxId, MakeInvoice(x, i)
      PROVE  RowsStep
  <2> DEFINE r == [type |-> "incoming", state |-> "PENDING", pay |-> x,
                   app |-> Payee[x], fee |-> 0, reserve |-> 0, self |-> FALSE]
  <2>1. /\ x \in Own \cap Invoices /\ FindByRequest(txs, "incoming", States, x) = {}
        /\ IsNextId(txs, i) /\ txs' = Insert(txs, i, r)
    BY <1>1 DEF MakeInvoice
  <2>2. r.type = "incoming" /\ r.state = "PENDING" /\ r.pay = x /\ ~r.self
    OBVIOUS
  <2> HIDE DEF r
  <2>3. \A j \in DOMAIN txs : txs[j].type = "incoming" => txs[j].pay # x
    BY <2>1, TypeParts DEF FindByRequest, FindByHash, SameRequest, TableOK, Row
  <2>4. txs'[i] = r => NewRow(i)
    BY <2>1, <2>2, <2>3 DEF NewRow, NewInvoice
  <2> QED BY <2>1, <2>4, InsertedRow
<1>2. ASSUME NEW e \in events, ConsumeEvent(e)
      PROVE  RowsStep
  <2>1. CASE e.kind = "hold_invoice_accepted"
    <3>1. MarkHoldInvoiceAccepted(e.pay, FALSE)
      BY <1>2, <2>1 DEF ConsumeEvent, ConsumePaymentReceived, ConsumeHoldInvoiceAccepted,
                  ConsumePaymentSent, ConsumePaymentFailed
    <3>2. \A i \in DOMAIN txs : txs[i].type = "incoming" /\ txs[i].state = "PENDING"
              /\ SameRequest(e.pay, txs[i].pay)
              /\ txs'[i].state = "ACCEPTED" /\ txs'[i].self = FALSE => RowAccepted(i)
      BY <2>1 DEF RowAccepted
    <3> QED BY <3>1, <3>2, AcceptedRow
  <2>2. CASE e.kind # "hold_invoice_accepted"
    <3>1. UNCHANGED txs
      BY <1>2, <2>2 DEF ConsumeEvent, ConsumePaymentReceived, ConsumeHoldInvoiceAccepted,
                  ConsumePaymentSent, ConsumePaymentFailed
    <3> QED BY <3>1, SameRows
  <2> QED BY <2>1, <2>2
<1>3. CASE \/ \E p \in Payers, x \in Payable, a \in Apps \cup {NoApp} : BeginPayment(p, x, a)
           \/ \E o \in Operators, pc \in {"settle", "cancel"} : BeginHoldOperation(o, pc)
           \/ \E i \in TxId : CheckUnsettledTransaction(i)
  <2>1. UNCHANGED txs
    BY <1>3 DEF BeginPayment, BeginHoldOperation, CheckUnsettledTransaction, db
  <2> QED BY <2>1, SameRows
<1>4. CASE \/ \E h \in DOMAIN out : NodeResolves(h)
           \/ \E x \in Reachable : NodeReceives(x) \/ HoldExpires(x)
           \/ \E x \in Outside : PaidOutside(x)
           \/ StopNode \/ StartNode \/ Crash
  <2>1. ASSUME NEW h, NodeResolves(h)
        PROVE  UNCHANGED txs
    BY <2>1 DEF NodeResolves, ResolvePayment, db
  <2>2. UNCHANGED txs
    BY <1>4, <2>1 DEF NodeReceives, HoldExpires, PaidOutside, StopNode, StartNode, Crash, db
  <2> QED BY <2>2, SameRows
<1>5. CASE UNCHANGED vars
  BY <1>5, SameRows DEF vars
<1> QED BY <1>1, <1>2, <1>3, <1>4, <1>5, PayerRows, OperatorRows, CommitRows DEF Next

-----------------------------------------------------------------------------
(* What a step does to a call, and what it knew.                           *)

SameCall(p) == /\ p \in DOMAIN call /\ call'[p].pay = call[p].pay
               /\ call'[p].self = call[p].self /\ call'[p].row = call[p].row

Moves(p, from, to) == call[p].pc = from /\ call'[p].pc = to

(* The payer found the row of an invoice or a keysend of this hub.         *)
Found(p, i) == /\ i \in DOMAIN txs /\ txs[i].type = "incoming"
               /\ txs[i].state = "PENDING" /\ SameRequest(call[p].pay, txs[i].pay)

CallKept(p) == p \in DOMAIN call /\ call'[p] = call[p]

CallMoved(p) ==
    /\ SameCall(p)
    /\ LET h == HashOf[call[p].pay]
       IN  \/ /\ Moves(p, "send", "waiting")
              /\ call[p].pay \notin Own
              /\ h \in DOMAIN out => out[h].status = "failed"
              /\ h \in DOMAIN out' /\ out'[h].status = "inflight"
              /\ \A q \in DOMAIN call' \ {p} : CallKept(q)
           \/ call[p].pc \in {"send", "waiting", "intercept", "registered"}
              /\ call'[p].pc = "fail"
           \/ Moves(p, "holding", "fail") /\ \E w \in wakes : w.to = p /\ w.kind = "canceled"
           \/ Moves(p, "keysendIncoming", "intercept")
           \/ Moves(p, "intercept", "register") /\ \E i : Found(p, i) /\ txs[i].pay \in Hold
           \/ Moves(p, "intercept", "selfSettle")
              /\ Found(p, call'[p].incoming) /\ txs[call'[p].incoming].pay \notin Hold
           \/ Moves(p, "selfSettle", "settle")
           \/ Moves(p, "register", "registered")
           \/ Moves(p, "registered", "holding")
           \/ Moves(p, "holding", "settle")
           \/ /\ Moves(p, "waiting", "settle")
              /\ h \in DOMAIN out /\ out[h].status = "inflight"
              /\ h \in DOMAIN out' /\ out'[h].status = "sent"

CallBegun(p) == /\ p \notin DOMAIN call /\ call'[p].pc = "create"
                /\ call'[p].pay \in Payable
                /\ call'[p].self => call'[p].pay \in Own

CallCreated(p) ==
    /\ p \in DOMAIN call /\ call[p].pc = "create" /\ ~AlreadyPaid(call[p].pay)
    /\ call'[p].pay = call[p].pay /\ call'[p].self = call[p].self
    /\ call'[p].pc \in IF call[p].self THEN {"keysendIncoming", "intercept"} ELSE {"send"}
    /\ call'[p].row \in DOMAIN txs' \ DOMAIN txs
    /\ \A q \in DOMAIN call' \ {p} : CallKept(q)
    /\ LET r == txs'[call'[p].row]
       IN  /\ r.type = "outgoing" /\ r.state = "PENDING"
           /\ r.pay = call[p].pay /\ r.self = call[p].self

(* How a call ends, other than by a crash.                                 *)
CallEnds(p) ==
    \/ call[p].pc = "create"
    \/ call[p].pc = "fail" /\ MarkPaymentFailed(call[p].row)
    \/ call[p].pc = "settle" /\ \E fee : MarkTransactionSettled(call[p].row, fee, call[p].self)

Crashed == crashes < MaxCrashes /\ crashes' = crashes + 1
           /\ DOMAIN call' = {} /\ DOMAIN ops' = {} /\ consumers' = {} /\ wakes' = {}

CallsStep ==
    /\ \A p \in DOMAIN call' : CallKept(p) \/ CallBegun(p) \/ CallCreated(p) \/ CallMoved(p)
    /\ crashes' = crashes => \A p \in DOMAIN call \ DOMAIN call' : CallEnds(p)
    /\ crashes' # crashes => Crashed

LEMMA UnchangedCalls ==
    ASSUME UNCHANGED <<call, crashes>>
    PROVE  CallsStep
<1>1. call' = call /\ crashes' = crashes
  OBVIOUS
<1>2. \A p \in DOMAIN call' : CallKept(p)
  BY <1>1 DEF CallKept
<1> QED BY <1>1, <1>2 DEF CallsStep

LEMMA GotoCalls ==
    ASSUME TypeOK, NEW p \in DOMAIN call, NEW pc, Goto(p, pc), UNCHANGED crashes,
           /\ SameCall(p) /\ call'[p].pc = pc /\ (\A q \in DOMAIN call' \ {p} : CallKept(q))
           => CallMoved(p)
    PROVE  CallsStep
<1>1. /\ DOMAIN call' = DOMAIN call /\ call'[p] = [call[p] EXCEPT !.pc = pc]
      /\ \A q \in DOMAIN call \ {p} : call'[q] = call[q]
  BY TypeParts DEF Goto, CallsOK
<1>2. SameCall(p) /\ call'[p].pc = pc
  BY <1>1, CallsTyped DEF SameCall, Call
<1> QED BY <1>1, <1>2 DEF CallsStep, CallKept

LEMMA ReturnCalls ==
    ASSUME NEW p, Return(p), UNCHANGED crashes, CallEnds(p)
    PROVE  CallsStep
BY DEF Return, CallsStep, CallKept

LEMMA PayerCalls ==
    ASSUME TypeOK, NEW p, PayerStep(p)
    PROVE  CallsStep
<1>0. p \in DOMAIN call /\ UNCHANGED crashes
  BY DEF PayerStep, CreateOutgoing, CreateKeysendIncoming, SendToNode, InterceptSelfPayment,
         SettleIncomingSelfPayment, RegisterHoldConsumer, GetInfoFails, AcceptSelfHoldPayment,
         WakeSelfHoldPayment, SettleOutgoing, FailOutgoing, At, node
<1> DEFINE c == call[p]
<1>1. ASSUME NEW i \in TxId, CreateOutgoing(p, i)
      PROVE  CallsStep
  <2> DEFINE r == [type |-> "outgoing", state |-> "PENDING", pay |-> c.pay, app |-> c.app,
                   fee |-> 0, reserve |-> CalculateFeeReserveMsat(AmountOf[c.pay]),
                   self |-> c.self]
             pc == IF ~c.self THEN "send"
                   ELSE IF c.pay \in Keysends THEN "keysendIncoming" ELSE "intercept"
  <2>1. c.pc = "create"
    BY <1>1 DEF CreateOutgoing, At
  <2>2. CASE Return(p)
    BY <1>0, <2>1, <2>2, ReturnCalls DEF CallEnds
  <2>3. CASE ~Return(p)
    <3>1. /\ ~AlreadyPaid(c.pay) /\ IsNextId(txs, i) /\ txs' = Insert(txs, i, r)
          /\ call' = [call EXCEPT ![p].row = i, ![p].pc = pc]
      BY <1>1, <2>3 DEF CreateOutgoing
    <3>2. r.type = "outgoing" /\ r.state = "PENDING" /\ r.pay = c.pay /\ r.self = c.self
      OBVIOUS
    <3>3. pc \in IF c.self THEN {"keysendIncoming", "intercept"} ELSE {"send"}
      OBVIOUS
    <3> HIDE DEF r, pc
    <3>4. i \in DOMAIN txs' \ DOMAIN txs /\ txs'[i] = r
      BY <3>1 DEF Insert, IsNextId
    <3>5. /\ call' = [call EXCEPT ![p] = [c EXCEPT !.row = i, !.pc = pc]]
      BY <1>0, <3>1
    <3>6. /\ DOMAIN call' = DOMAIN call
          /\ \A q \in DOMAIN call \ {p} : call'[q] = call[q]
          /\ call'[p].pay = c.pay /\ call'[p].self = c.self
          /\ call'[p].row = i /\ call'[p].pc = pc
      BY <1>0, <3>5, CallsTyped, TypeParts DEF CallsOK, Call
    <3>7. CallCreated(p)
      BY <1>0, <2>1, <3>1, <3>2, <3>3, <3>4, <3>6 DEF CallCreated, CallKept
    <3> QED BY <1>0, <3>6, <3>7 DEF CallsStep, CallKept
  <2> QED BY <2>2, <2>3
<1>2. ASSUME NEW i \in TxId, CreateKeysendIncoming(p, i)
      PROVE  CallsStep
  BY <1>0, <1>2, GotoCalls DEF CreateKeysendIncoming, At, CallMoved, Moves
<1>3. CASE SendToNode(p)
  <2> DEFINE h == HashOf[c.pay]
  <2>1. c.pc = "send"
    BY <1>3 DEF SendToNode, At
  <2>2. CASE Goto(p, "fail")
    BY <1>0, <2>1, <2>2, GotoCalls DEF CallMoved
  <2>3. CASE ~Goto(p, "fail")
    <3>1. /\ c.pay \notin Own /\ (h \in DOMAIN out => out[h].status = "failed")
          /\ out' = [g \in DOMAIN out \cup {h} |->
                       IF g # h THEN out[g] ELSE [status |-> "inflight", pay |-> c.pay, fee |-> 0]]
          /\ Goto(p, "waiting")
      BY <1>3, <2>3 DEF SendToNode
    <3>2. h \in DOMAIN out' /\ out'[h].status = "inflight"
      BY <3>1
    <3> QED BY <1>0, <2>1, <3>1, <3>2, GotoCalls DEF CallMoved, Moves
  <2> QED BY <2>2, <2>3
<1>4. CASE InterceptSelfPayment(p)
  <2> DEFINE found == FindByRequest(txs, "incoming", {"PENDING"}, c.pay)
  <2>1. c.pc = "intercept"
    BY <1>4 DEF InterceptSelfPayment, At
  <2>2. CASE Goto(p, "fail")
    BY <1>0, <2>1, <2>2, GotoCalls DEF CallMoved
  <2>3. CASE ~Goto(p, "fail")
    <3>1. PICK i \in found :
                IF txs[i].pay \in Hold THEN Goto(p, "register")
                ELSE call' = [call EXCEPT ![p].incoming = i, ![p].pc = "selfSettle"]
      BY <1>4, <2>3 DEF InterceptSelfPayment
    <3>2. Found(p, i)
      BY DEF Found, FindByRequest, FindByHash
    <3> HIDE DEF found
    <3>3. CASE txs[i].pay \in Hold
      BY <1>0, <2>1, <3>1, <3>2, <3>3, GotoCalls DEF CallMoved, Moves
    <3>4. CASE txs[i].pay \notin Hold
      <4>1. call' = [call EXCEPT ![p] = [c EXCEPT !.incoming = i, !.pc = "selfSettle"]]
        BY <1>0, <3>1, <3>4
      <4>2. /\ DOMAIN call' = DOMAIN call
            /\ \A q \in DOMAIN call \ {p} : call'[q] = call[q]
            /\ SameCall(p) /\ call'[p].incoming = i /\ call'[p].pc = "selfSettle"
        BY <1>0, <4>1, CallsTyped, TypeParts DEF CallsOK, Call, SameCall
      <4>3. CallMoved(p)
        BY <2>1, <3>2, <3>4, <4>2 DEF CallMoved, Moves
      <4> QED BY <1>0, <4>2, <4>3 DEF CallsStep, CallKept
    <3> QED BY <3>3, <3>4
  <2> QED BY <2>2, <2>3
<1>5. CASE SettleIncomingSelfPayment(p) \/ RegisterHoldConsumer(p) \/ AcceptSelfHoldPayment(p)
           \/ GetInfoFails(p)
  <2>1. \/ c.pc = "selfSettle" /\ Goto(p, "settle")
        \/ c.pc = "register" /\ Goto(p, "registered")
        \/ c.pc = "registered" /\ Goto(p, "holding")
        \/ c.pc = "registered" /\ Goto(p, "fail")
    BY <1>5 DEF SettleIncomingSelfPayment, RegisterHoldConsumer, AcceptSelfHoldPayment,
                GetInfoFails, At
  <2> QED BY <1>0, <2>1, GotoCalls DEF CallMoved, Moves
<1>6. CASE WakeSelfHoldPayment(p)
  <2>1. PICK w \in wakes : w.to = p /\ Goto(p, IF w.kind = "settled" THEN "settle" ELSE "fail")
    BY <1>6 DEF WakeSelfHoldPayment
  <2>2. c.pc = "holding" /\ w.kind \in {"settled", "canceled"}
    BY <1>6 DEF WakeSelfHoldPayment, At, TypeOK, Wake
  <2>3. CASE w.kind = "settled"
    BY <1>0, <2>1, <2>2, <2>3, GotoCalls DEF CallMoved, Moves
  <2>4. CASE w.kind = "canceled"
    BY <1>0, <2>1, <2>2, <2>4, GotoCalls DEF CallMoved, Moves
  <2> QED BY <2>2, <2>3, <2>4
<1>7. CASE SettleOutgoing(p) \/ FailOutgoing(p)
  <2>1. Return(p) /\ CallEnds(p)
    BY <1>7 DEF SettleOutgoing, FailOutgoing, At, CallEnds
  <2> QED BY <1>0, <2>1, ReturnCalls
<1> QED BY <1>1, <1>2, <1>3, <1>4, <1>5, <1>6, <1>7 DEF PayerStep

(* Only requests of this hub have incoming rows.                           *)
OwnIncoming == \A i \in DOMAIN txs : txs[i].type = "incoming" => txs[i].pay \in Own

LEMMA AnsweredCalls ==
    ASSUME TypeOK, UNCHANGED crashes, NEW S, NEW pc,
           call' = [q \in DOMAIN call |-> IF q \in S THEN [call[q] EXCEPT !.pc = pc] ELSE call[q]],
           \A q \in DOMAIN call : q \in S /\ SameCall(q) /\ call'[q].pc = pc => CallMoved(q)
    PROVE  CallsStep
<1>1. \A q \in DOMAIN call : call[q] \in Call
  BY CallsTyped
<1>2. DOMAIN call' = DOMAIN call
  OBVIOUS
<1>3. ASSUME NEW q \in DOMAIN call
      PROVE  CallKept(q) \/ CallMoved(q)
  <2>1. CASE q \in S
    <3>1. SameCall(q) /\ call'[q].pc = pc
      BY <1>1, <2>1 DEF SameCall, Call
    <3> QED BY <2>1, <3>1
  <2>2. CASE q \notin S
    BY <2>2 DEF CallKept
  <2> QED BY <2>1, <2>2
<1> QED BY <1>2, <1>3 DEF CallsStep

LEMMA ResolvedCalls ==
    ASSUME TypeOK, NEW h \in DOMAIN out, NEW status \in {"sent", "failed"}, NEW fee,
           ResolvePayment(h, status, fee)
    PROVE  CallsStep
<1> DEFINE S == {q \in DOMAIN call : call[q].pc = "waiting" /\ HashOf[call[q].pay] = h}
           pc == IF status = "sent" THEN "settle" ELSE "fail"
<1>1. /\ out[h].status = "inflight" /\ UNCHANGED crashes
      /\ out' = [out EXCEPT ![h].status = status, ![h].fee = fee]
  BY DEF ResolvePayment
<1>2. h \in DOMAIN out' /\ out'[h].status = status
  BY <1>1, TypeParts DEF NodeOK, OutPayment
<1>3. call' = [q \in DOMAIN call |-> IF q \in S THEN [call[q] EXCEPT !.pc = pc] ELSE call[q]]
  BY DEF ResolvePayment
<1>4. ASSUME NEW q \in DOMAIN call, q \in S, SameCall(q), call'[q].pc = pc
      PROVE  CallMoved(q)
  <2>1. call[q].pc = "waiting" /\ HashOf[call[q].pay] = h
    BY <1>4
  <2>2. CASE status = "sent"
    BY <1>1, <1>2, <1>4, <2>1, <2>2 DEF CallMoved, Moves
  <2>3. CASE status = "failed"
    BY <1>4, <2>1, <2>3 DEF CallMoved
  <2> QED BY <2>2, <2>3
<1> HIDE DEF S, pc
<1> QED BY <1>1, <1>3, <1>4, AnsweredCalls

LEMMA StoppedCalls ==
    ASSUME TypeOK, StopNode
    PROVE  CallsStep
<1> DEFINE S == {q \in DOMAIN call : call[q].pc = "waiting"}
<1>1. UNCHANGED crashes
  BY DEF StopNode
<1>2. call' = [q \in DOMAIN call |-> IF q \in S THEN [call[q] EXCEPT !.pc = "fail"] ELSE call[q]]
  BY DEF StopNode
<1>3. \A q \in DOMAIN call : q \in S /\ SameCall(q) /\ call'[q].pc = "fail" => CallMoved(q)
  BY DEF CallMoved
<1> HIDE DEF S
<1> QED BY <1>1, <1>2, <1>3, AnsweredCalls

LEMMA BegunCalls ==
    ASSUME TypeOK, OwnIncoming, NEW p, NEW x \in Payable, NEW a, BeginPayment(p, x, a)
    PROVE  CallsStep
<1> DEFINE self == IF x \in Keysends THEN x \in Own
                   ELSE FindByRequest(txs, "incoming", States, x) # {}
           c == [pc |-> "create", pay |-> x, app |-> a, self |-> self,
                 row |-> 0, incoming |-> 0]
<1>1. /\ p \notin DOMAIN call /\ UNCHANGED crashes
      /\ call' = [q \in DOMAIN call \cup {p} |-> IF q # p THEN call[q] ELSE c]
  BY DEF BeginPayment, node
<1>2. c.pc = "create" /\ c.pay = x /\ c.self = self
  OBVIOUS
<1>3. self => x \in Own
  <2>1. CASE x \in Keysends
    BY <2>1
  <2>2. CASE x \notin Keysends
    BY <2>2 DEF FindByRequest, FindByHash, SameRequest, OwnIncoming
  <2> QED BY <2>1, <2>2
<1> HIDE DEF self, c
<1>4. CallBegun(p)
  BY <1>1, <1>2, <1>3 DEF CallBegun
<1> QED BY <1>1, <1>4 DEF CallsStep, CallKept

LEMMA EveryCall ==
    ASSUME TypeOK, OwnIncoming, [Next]_vars
    PROVE  CallsStep
<1>1. CASE \E p \in Payers, x \in Payable, a \in Apps \cup {NoApp} : BeginPayment(p, x, a)
  BY <1>1, BegunCalls
<1>2. CASE \E p \in Payers : PayerStep(p)
  BY <1>2, PayerCalls
<1>3. CASE \E h \in DOMAIN out : NodeResolves(h)
  BY <1>3, ResolvedCalls DEF NodeResolves
<1>4. CASE Crash
  <2>1. /\ DOMAIN call' = {} /\ DOMAIN ops' = {} /\ consumers' = {} /\ wakes' = {}
        /\ crashes < MaxCrashes /\ crashes' = crashes + 1
    BY <1>4 DEF Crash
  <2>2. crashes' # crashes
    BY <2>1 DEF TypeOK
  <2> QED BY <2>1, <2>2 DEF CallsStep, Crashed
<1>5. CASE \/ \E x \in Own, i \in TxId : MakeInvoice(x, i)
           \/ \E o \in Operators, pc \in {"settle", "cancel"} : BeginHoldOperation(o, pc)
           \/ \E o \in Operators : OperatorStep(o)
           \/ \E e \in events : ConsumeEvent(e)
           \/ \E c \in consumers : CommitEvent(c)
           \/ \E i \in TxId : CheckUnsettledTransaction(i)
           \/ \E x \in Reachable : NodeReceives(x) \/ HoldExpires(x)
           \/ \E x \in Outside : PaidOutside(x)
           \/ StartNode
  <2>1. UNCHANGED <<call, crashes>>
    BY <1>5 DEF MakeInvoice, BeginHoldOperation, OperatorStep, SettleHoldInvoice,
                CancelHoldInvoice, AskNode, CommitSettleHoldInvoice, CommitCancelHoldInvoice,
                ConsumeEvent, CommitEvent, CheckUnsettledTransaction, NodeReceives,
                HoldExpires, PaidOutside, StartNode, node
  <2> QED BY <2>1, UnchangedCalls
<1>6. CASE UNCHANGED vars
  BY <1>6, UnchangedCalls DEF vars
<1> QED BY <1>1, <1>2, <1>3, <1>4, <1>5, <1>6, StoppedCalls DEF Next

-----------------------------------------------------------------------------
(* What a step does to the wakes, to the operations on hold invoices, to   *)
(* the incoming payments of the node, and to the events.                   *)

WakesStep ==
    \A w \in wakes' :
        \/ w \in wakes
        \/ w.kind = "settled"
        \/ \E o \in DOMAIN ops : /\ ops[o].pc = "cancelCommit" /\ CanFail(ops[o].row)
                                 /\ w.to \in Waiters(txs[ops[o].row].pay)
                                 /\ txs'[ops[o].row].state = "FAILED" /\ UNCHANGED call

OpBegun(o) ==
    /\ o \notin DOMAIN ops /\ UNCHANGED <<txs, htlc>> /\ ops'[o].pc \in {"settle", "cancel"}
    /\ LET r == txs[ops'[o].row]
       IN  /\ ops'[o].row \in DOMAIN txs
           /\ r.type = "incoming" /\ r.state = "ACCEPTED" /\ ops'[o].self = r.self

OpAsked(o) ==
    /\ o \in DOMAIN ops /\ ops'[o].row = ops[o].row /\ ops'[o].self = ops[o].self
    /\ UNCHANGED txs
    /\ \/ ops[o].pc = "settle" /\ ops'[o].pc = "settleCommit"
       \/ /\ ops[o].pc = "cancel" /\ ops'[o].pc = "cancelCommit"
          /\ ~ops[o].self => \E x \in Held(ops[o].row) : htlc'[x] = "canceled"

OpsStep == \A o \in DOMAIN ops' : \/ o \in DOMAIN ops /\ ops'[o] = ops[o]
                                  \/ OpBegun(o) \/ OpAsked(o)

(* A hold invoice is paid only if it is settled for someone outside.       *)
HtlcStep ==
    \A x \in Own :
        \/ htlc'[x] = htlc[x]
        \/ htlc'[x] # "paid" /\ htlc[x] \in {"none", "held"}
        \/ htlc[x] = "none" /\ x \notin Hold
        \/ htlc[x] = "held" /\ UNCHANGED txs
           /\ \E o \in DOMAIN ops : ~ops[o].self /\ x \in Held(ops[o].row)

(* What is published, and what its consumer is told.                       *)
EventsStep ==
    \A e \in events' \ events :
        IF e.kind \in {"payment_sent", "payment_failed"}
        THEN e.pay \notin Own \/ \E h \in DOMAIN out : e.pay = out[h].pay
        ELSE /\ e.pay \in Own
             /\ e.kind = "hold_invoice_accepted" => e.pay \in Hold
             /\ e.kind = "payment_received" /\ e.pay \in Hold => htlc'[e.pay] = "paid"
             /\ e.pay \in Invoices => FindByHash(txs, "incoming", States, e.pay) # {}

ConsumersStep ==
    \A c \in consumers' \ consumers :
        \E e \in events :
            /\ c.kind = e.kind /\ c.pay = e.pay /\ e.kind # "hold_invoice_accepted"
            /\ e.kind = "payment_received" /\ c.row = 0 =>
                 FindByHash(txs, "incoming", States, e.pay) = {}
            /\ LET pending == FindByHash(txs, "outgoing", {"PENDING"}, e.pay)
               IN  e.kind = "payment_sent" /\ pending # {} => c.row \in pending
            /\ UNCHANGED <<txs, htlc>>

OutStep ==
    \A h \in DOMAIN out' : \/ out'[h].pay \notin Own
                           \/ h \in DOMAIN out /\ out'[h].pay = out[h].pay

LEMMA SettledWakes ==
    ASSUME TypeOK, NEW i, NEW fee, NEW self, MarkTransactionSettled(i, fee, self)
    PROVE  WakesStep
BY DEF MarkTransactionSettled, SetSettled, Announce, Notify, WakesStep

LEMMA EveryWake ==
    ASSUME TypeOK, [Next]_vars
    PROVE  WakesStep
<1>1. CASE \E p \in Payers : PayerStep(p)
  <2>1. PICK p \in Payers : PayerStep(p)
    BY <1>1
  <2>2. CASE SettleIncomingSelfPayment(p) \/ SettleOutgoing(p)
    BY <2>2, SettledWakes DEF SettleIncomingSelfPayment, SettleOutgoing
  <2>3. CASE ~(SettleIncomingSelfPayment(p) \/ SettleOutgoing(p))
    <3>1. wakes' \subseteq wakes
      BY <2>1, <2>3 DEF PayerStep, CreateOutgoing, CreateKeysendIncoming, SendToNode,
         InterceptSelfPayment, RegisterHoldConsumer, GetInfoFails, AcceptSelfHoldPayment,
         WakeSelfHoldPayment, FailOutgoing
    <3> QED BY <3>1 DEF WakesStep
  <2> QED BY <2>2, <2>3
<1>2. CASE \E o \in Operators : OperatorStep(o)
  <2>1. PICK o \in Operators : OperatorStep(o)
    BY <1>2
  <2>2. CASE SettleHoldInvoice(o) \/ CancelHoldInvoice(o)
    BY <2>2 DEF SettleHoldInvoice, CancelHoldInvoice, AskNode, WakesStep
  <2>3. CASE CommitSettleHoldInvoice(o)
    BY <2>3, SettledWakes DEF CommitSettleHoldInvoice
  <2>4. CASE CommitCancelHoldInvoice(o)
    <3> DEFINE i == ops[o].row
    <3>1. /\ o \in DOMAIN ops /\ ops[o].pc = "cancelCommit" /\ MarkPaymentFailed(i)
          /\ IF CanFail(i) THEN Notify(txs[i].pay, "canceled") ELSE UNCHANGED wakes
          /\ UNCHANGED call /\ i \in DOMAIN txs
      BY <2>4, TypeParts DEF CommitCancelHoldInvoice, OpAt, LocalsOK
    <3>2. CASE CanFail(i)
      <4>1. txs' = [txs EXCEPT ![i].state = "FAILED", ![i].reserve = 0] /\ txs[i] \in Row
        BY <3>1, <3>2 DEF MarkPaymentFailed, TypeOK
      <4>2. txs'[i].state = "FAILED"
        BY <3>1, <4>1 DEF Row
      <4>3. \A w \in wakes' : w \in wakes \/ w.to \in Waiters(txs[i].pay)
        BY <3>1, <3>2 DEF Notify
      <4> QED BY <3>1, <3>2, <4>2, <4>3 DEF WakesStep
    <3>3. CASE ~CanFail(i)
      BY <3>1, <3>3 DEF WakesStep
    <3> QED BY <3>2, <3>3
  <2> QED BY <2>1, <2>2, <2>3, <2>4 DEF OperatorStep
<1>3. CASE \E c \in consumers : CommitEvent(c)
  <2>1. PICK c \in consumers : CommitEvent(c)
    BY <1>3
  <2>2. CASE c.kind = "payment_failed"
    BY <2>1, <2>2 DEF CommitEvent, WakesStep
  <2>3. CASE c.kind # "payment_failed" /\ c.row # 0
    BY <2>1, <2>3, SettledWakes DEF CommitEvent
  <2>4. CASE c.kind # "payment_failed" /\ c.row = 0
    BY <2>1, <2>4 DEF CommitEvent, CreateSettledTransactionFromNotification, Announce, Notify,
                      WakesStep
  <2> QED BY <2>2, <2>3, <2>4
<1>4. CASE \/ \E x \in Own, i \in TxId : MakeInvoice(x, i)
           \/ \E p \in Payers, x \in Payable, a \in Apps \cup {NoApp} : BeginPayment(p, x, a)
           \/ \E o \in Operators, pc \in {"settle", "cancel"} : BeginHoldOperation(o, pc)
           \/ \E e \in events : ConsumeEvent(e)
           \/ \E i \in TxId : CheckUnsettledTransaction(i)
           \/ \E h \in DOMAIN out : NodeResolves(h)
           \/ \E x \in Reachable : NodeReceives(x) \/ HoldExpires(x)
           \/ \E x \in Outside : PaidOutside(x)
           \/ StopNode \/ StartNode \/ Crash
  <2>1. ASSUME NEW h, NodeResolves(h)
        PROVE  wakes' \subseteq wakes
    BY <2>1 DEF NodeResolves, ResolvePayment
  <2>2. wakes' \subseteq wakes
    BY <1>4, <2>1 DEF MakeInvoice, BeginPayment, BeginHoldOperation, ConsumeEvent,
       CheckUnsettledTransaction, NodeReceives, HoldExpires, PaidOutside, StopNode, StartNode, Crash
  <2> QED BY <2>2 DEF WakesStep
<1>5. CASE UNCHANGED vars
  BY <1>5 DEF vars, WakesStep
<1> QED BY <1>1, <1>2, <1>3, <1>4, <1>5 DEF Next

-----------------------------------------------------------------------------
(* The same for the operations, the node and the events.                   *)

NodeStep == OpsStep /\ HtlcStep /\ EventsStep /\ ConsumersStep /\ OutStep

LEMMA RestSteps ==
    ASSUME DOMAIN ops' \subseteq DOMAIN ops, \A o \in DOMAIN ops' : ops'[o] = ops[o],
           UNCHANGED htlc, events' \subseteq events, consumers' \subseteq consumers, UNCHANGED out
    PROVE  NodeStep
BY DEF NodeStep, OpsStep, HtlcStep, EventsStep, ConsumersStep, OutStep

LEMMA BeginOpSteps ==
    ASSUME TypeOK, NEW o, NEW pc \in {"settle", "cancel"}, BeginHoldOperation(o, pc)
    PROVE  NodeStep
<1>1. UNCHANGED <<txs, htlc, events, consumers, out>>
  BY DEF BeginHoldOperation, db, node
<1>2. PICK i \in DOMAIN txs :
         /\ txs[i].type = "incoming" /\ txs[i].state = "ACCEPTED"
         /\ ops' = [q \in DOMAIN ops \cup {o} |->
                      IF q # o THEN ops[q] ELSE [pc |-> pc, row |-> i, self |-> txs[i].self]]
  BY DEF BeginHoldOperation
<1>3. o \notin DOMAIN ops
  BY DEF BeginHoldOperation
<1>4. ops'[o].pc = pc /\ ops'[o].row = i /\ ops'[o].self = txs[i].self
  BY <1>2
<1>5. OpBegun(o)
  BY <1>1, <1>2, <1>3, <1>4 DEF OpBegun
<1>6. OpsStep
  BY <1>2, <1>3, <1>5 DEF OpsStep
<1> QED BY <1>1, <1>6 DEF NodeStep, HtlcStep, EventsStep, ConsumersStep, OutStep

LEMMA AskSteps ==
    ASSUME TypeOK, NEW o, SettleHoldInvoice(o) \/ CancelHoldInvoice(o)
    PROVE  NodeStep
<1>1. PICK settle \in BOOLEAN :
         AskNode(o, IF settle THEN "settle" ELSE "cancel",
                    IF settle THEN "settleCommit" ELSE "cancelCommit",
                    IF settle THEN "paid" ELSE "canceled")
  BY DEF SettleHoldInvoice, CancelHoldInvoice
<1> DEFINE pc == IF settle THEN "settle" ELSE "cancel"
           next == IF settle THEN "settleCommit" ELSE "cancelCommit"
           newHtlc == IF settle THEN "paid" ELSE "canceled"
<1>2. /\ UNCHANGED <<txs, consumers, out>>
      /\ o \in DOMAIN ops /\ ops[o].pc = pc /\ ops[o] \in Op
  BY <1>1 DEF AskNode, OpAt, db, TypeOK
<1>3. CASE OpReturn(o) /\ UNCHANGED <<htlc, events>>
  BY <1>2, <1>3, RestSteps DEF OpReturn
<1>4. CASE ops[o].self /\ ops' = [ops EXCEPT ![o].pc = next] /\ UNCHANGED <<htlc, events>>
  <2>1. /\ DOMAIN ops' = DOMAIN ops /\ ops'[o].row = ops[o].row /\ ops'[o].self = ops[o].self
        /\ ops'[o].pc = next /\ \A q \in DOMAIN ops \ {o} : ops'[q] = ops[q]
    BY <1>2, <1>4, TypeParts DEF OpsOK, Op
  <2>2. OpAsked(o)
    BY <1>2, <1>4, <2>1 DEF OpAsked
  <2>3. OpsStep
    BY <2>1, <2>2 DEF OpsStep
  <2> QED BY <1>2, <1>4, <2>3 DEF NodeStep, HtlcStep, EventsStep, ConsumersStep, OutStep
<1>5. ASSUME NEW x \in Held(ops[o].row), ~ops[o].self, ops' = [ops EXCEPT ![o].pc = next],
             htlc' = [htlc EXCEPT ![x] = newHtlc],
             IF newHtlc = "paid"
             THEN Emit([kind |-> "payment_received", pay |-> x, fee |-> 0])
             ELSE UNCHANGED events
      PROVE  NodeStep
  <2>0. x \in Own /\ htlc[x] = "held" /\ HashOf[x] = HashOf[txs[ops[o].row].pay]
    BY DEF Held
  <2>1. /\ DOMAIN ops' = DOMAIN ops /\ ops'[o].row = ops[o].row /\ ops'[o].self = ops[o].self
        /\ ops'[o].pc = next /\ \A q \in DOMAIN ops \ {o} : ops'[q] = ops[q]
    BY <1>2, <1>5, TypeParts DEF OpsOK, Op
  <2>2. htlc'[x] = newHtlc /\ \A y \in Own \ {x} : htlc'[y] = htlc[y]
    BY <1>5, <2>0 DEF TypeOK
  <2>3. OpAsked(o)
    BY <1>2, <1>5, <2>1, <2>2 DEF OpAsked
  <2>4. OpsStep
    BY <2>1, <2>3 DEF OpsStep
  <2>5. HtlcStep
    BY <1>2, <1>5, <2>0, <2>2 DEF HtlcStep
  <2>6. \A e \in events' \ events : e.kind = "payment_received" /\ e.pay = x /\ newHtlc = "paid"
    BY <1>5 DEF Emit
  <2>7. FindByHash(txs, "incoming", States, x) # {}
    <3>1. ops[o].row \in DOMAIN txs /\ txs[ops[o].row].type = "incoming"
      BY <1>2, TypeParts DEF LocalsOK
    <3>2. txs[ops[o].row].state \in States
      BY <3>1, TypeParts DEF TableOK, Row
    <3> QED BY <2>0, <3>1, <3>2 DEF FindByHash
  <2>8. EventsStep
    BY <2>0, <2>2, <2>6, <2>7 DEF EventsStep
  <2> QED BY <1>2, <2>4, <2>5, <2>8 DEF NodeStep, ConsumersStep, OutStep
<1> HIDE DEF pc, next, newHtlc
<1>6. AskNode(o, pc, next, newHtlc)
  BY <1>1 DEF pc, next, newHtlc
<1> QED BY <1>3, <1>4, <1>5, <1>6 DEF AskNode

LEMMA ConsumeSteps ==
    ASSUME TypeOK, NEW e \in events, ConsumeEvent(e)
    PROVE  NodeStep
<1>1. UNCHANGED <<ops, htlc, out>> /\ events' \subseteq events
  BY DEF ConsumeEvent, node
<1>2. ASSUME e.kind # "hold_invoice_accepted", NEW i, Consume(e, i), UNCHANGED txs,
             e.kind = "payment_received" /\ i = 0 =>
               FindByHash(txs, "incoming", States, e.pay) = {},
             LET pending == FindByHash(txs, "outgoing", {"PENDING"}, e.pay)
             IN  e.kind = "payment_sent" /\ pending # {} => i \in pending
      PROVE  ConsumersStep
  BY <1>1, <1>2 DEF Consume, ConsumersStep
<1>3. ConsumersStep
  <2>1. CASE ConsumePaymentReceived(e)
    <3>1. \A i \in FindByHash(txs, "incoming", States, e.pay) : i # 0
      BY TypeParts, TxIdAssumption DEF FindByHash, TableOK
    <3> QED BY <1>2, <2>1, <3>1 DEF ConsumePaymentReceived
  <2>2. CASE ConsumeHoldInvoiceAccepted(e)
    BY <2>2 DEF ConsumeHoldInvoiceAccepted, ConsumersStep
  <2>3. CASE ConsumePaymentSent(e)
    BY <1>2, <2>3 DEF ConsumePaymentSent
  <2>4. CASE ConsumePaymentFailed(e)
    <3>1. CASE UNCHANGED consumers
      BY <3>1 DEF ConsumersStep
    <3>2. CASE \E i : Consume(e, i)
      BY <1>2, <2>4, <3>2 DEF ConsumePaymentFailed
    <3> QED BY <2>4, <3>1, <3>2 DEF ConsumePaymentFailed
  <2> QED BY <2>1, <2>2, <2>3, <2>4 DEF ConsumeEvent
<1> QED BY <1>1, <1>3 DEF NodeStep, OpsStep, HtlcStep, EventsStep, OutStep

LEMMA PublishedSteps ==
    ASSUME UNCHANGED <<ops, consumers>>, HtlcStep, OutStep, NEW e, Emit(e),
           IF e.kind \in {"payment_sent", "payment_failed"}
           THEN e.pay \notin Own \/ \E h \in DOMAIN out : e.pay = out[h].pay
           ELSE /\ e.pay \in Own
                /\ e.kind = "hold_invoice_accepted" => e.pay \in Hold
                /\ e.kind = "payment_received" /\ e.pay \in Hold => htlc'[e.pay] = "paid"
                /\ e.pay \in Invoices => FindByHash(txs, "incoming", States, e.pay) # {}
    PROVE  NodeStep
<1>1. \A f \in events' \ events : f = e
  BY DEF Emit
<1>2. EventsStep
  BY <1>1 DEF EventsStep
<1> QED BY <1>2 DEF NodeStep, OpsStep, ConsumersStep

LEMMA ResolveSteps ==
    ASSUME TypeOK, NEW h \in DOMAIN out, NEW status \in {"sent", "failed"}, NEW fee,
           ResolvePayment(h, status, fee)
    PROVE  NodeStep
<1> DEFINE e == [kind |-> IF status = "sent" THEN "payment_sent" ELSE "payment_failed",
                 pay |-> out[h].pay, fee |-> fee]
<1>1. /\ UNCHANGED <<ops, consumers, htlc>> /\ Emit(e)
      /\ out' = [out EXCEPT ![h].status = status, ![h].fee = fee]
  BY DEF ResolvePayment
<1>2. OutStep
  BY <1>1, TypeParts DEF OutStep, NodeOK, OutPayment
<1>3. e.kind \in {"payment_sent", "payment_failed"} /\ e.pay = out[h].pay
  OBVIOUS
<1> HIDE DEF e
<1> QED BY <1>1, <1>2, <1>3, PublishedSteps DEF HtlcStep

LEMMA ReceiveSteps ==
    ASSUME TypeOK, NEW x \in Reachable, NodeReceives(x)
    PROVE  NodeStep
<1> DEFINE e == [kind |-> IF x \in Hold THEN "hold_invoice_accepted" ELSE "payment_received",
                 pay |-> x, fee |-> 0]
<1>1. /\ UNCHANGED <<ops, consumers, out>> /\ Emit(e)
      /\ htlc' = [htlc EXCEPT ![x] = IF x \in Hold THEN "held" ELSE "paid"]
      /\ htlc[x] = "none" /\ x \in Own
      /\ x \in Invoices => FindByRequest(txs, "incoming", States, x) # {}
  BY OutsideAssumption DEF NodeReceives
<1>2. e.pay = x /\ e.kind = IF x \in Hold THEN "hold_invoice_accepted" ELSE "payment_received"
  OBVIOUS
<1>3. HtlcStep
  BY <1>1, TypeParts DEF HtlcStep, NodeOK
<1>4. x \in Invoices => FindByHash(txs, "incoming", States, x) # {}
  BY <1>1 DEF FindByRequest
<1> HIDE DEF e
<1> QED BY <1>1, <1>2, <1>3, <1>4, PublishedSteps DEF OutStep

LEMMA OutsideSteps ==
    ASSUME TypeOK, NEW x \in Outside, PaidOutside(x)
    PROVE  NodeStep
<1> DEFINE e == [kind |-> "payment_sent", pay |-> x, fee |-> 0]
           o == [status |-> "sent", pay |-> x, fee |-> 0]
<1>1. /\ UNCHANGED <<ops, consumers, htlc>> /\ Emit(e) /\ x \notin Own
      /\ out' = [g \in DOMAIN out \cup {HashOf[x]} |-> IF g # HashOf[x] THEN out[g] ELSE o]
  BY OutsideAssumption DEF PaidOutside
<1>2. e.pay = x /\ e.kind = "payment_sent" /\ o.pay = x
  OBVIOUS
<1> HIDE DEF e, o
<1>3. OutStep
  BY <1>1, <1>2 DEF OutStep
<1> QED BY <1>1, <1>2, <1>3, PublishedSteps DEF HtlcStep

LEMMA ExpireSteps ==
    ASSUME TypeOK, NEW x, HoldExpires(x)
    PROVE  NodeStep
<1>1. /\ UNCHANGED <<ops, consumers, events, out>>
      /\ htlc' = [htlc EXCEPT ![x] = "canceled"] /\ x \in Own /\ htlc[x] = "held"
  BY DEF HoldExpires
<1>2. HtlcStep
  BY <1>1, TypeParts DEF HtlcStep, NodeOK
<1> QED BY <1>1, <1>2 DEF NodeStep, OpsStep, EventsStep, ConsumersStep, OutStep

LEMMA PayerSteps ==
    ASSUME TypeOK, NEW p, PayerStep(p)
    PROVE  NodeStep
<1>1. CASE SendToNode(p)
  <2> DEFINE x == call[p].pay
             o == [status |-> "inflight", pay |-> x, fee |-> 0]
  <2>1. /\ UNCHANGED <<ops, consumers, events, htlc>>
        /\ \/ UNCHANGED out
           \/ x \notin Own
              /\ out' = [g \in DOMAIN out \cup {HashOf[x]} |-> IF g # HashOf[x] THEN out[g] ELSE o]
    BY <1>1 DEF SendToNode
  <2>2. o.pay = x
    OBVIOUS
  <2> HIDE DEF o
  <2>3. OutStep
    BY <2>1, <2>2 DEF OutStep
  <2> QED BY <2>1, <2>3 DEF NodeStep, OpsStep, HtlcStep, EventsStep, ConsumersStep
<1>2. CASE ~SendToNode(p)
  <2>1. UNCHANGED <<ops, consumers, events, htlc, out>>
    BY <1>2 DEF PayerStep, CreateOutgoing, CreateKeysendIncoming, InterceptSelfPayment,
       SettleIncomingSelfPayment, RegisterHoldConsumer, GetInfoFails, AcceptSelfHoldPayment,
       WakeSelfHoldPayment, SettleOutgoing, FailOutgoing, node
  <2> QED BY <2>1, RestSteps
<1> QED BY <1>1, <1>2

LEMMA EveryNodeStep ==
    ASSUME TypeOK, "payment_received" \in Emits, [Next]_vars
    PROVE  NodeStep
<1>1. CASE \E o \in Operators : OperatorStep(o)
  <2>1. PICK o \in Operators : OperatorStep(o)
    BY <1>1
  <2>2. CASE CommitSettleHoldInvoice(o) \/ CommitCancelHoldInvoice(o)
    <3>1. OpReturn(o) /\ UNCHANGED <<events, consumers, htlc, out>>
      BY <2>2 DEF CommitSettleHoldInvoice, CommitCancelHoldInvoice, node
    <3> QED BY <3>1, RestSteps DEF OpReturn
  <2> QED BY <2>1, <2>2, AskSteps DEF OperatorStep
<1>2. CASE \E h \in DOMAIN out : NodeResolves(h)
  BY <1>2, ResolveSteps DEF NodeResolves
<1>3. CASE Crash
  <2>1. DOMAIN ops' = {} /\ consumers' = {} /\ events' \subseteq events /\ UNCHANGED <<htlc, out>>
    BY <1>3 DEF Crash
  <2> QED BY <2>1, RestSteps
<1>4. CASE \/ \E x \in Own, i \in TxId : MakeInvoice(x, i)
           \/ \E p \in Payers, x \in Payable, a \in Apps \cup {NoApp} : BeginPayment(p, x, a)
           \/ \E c \in consumers : CommitEvent(c)
           \/ StopNode \/ StartNode
           \/ UNCHANGED vars
  <2>1. UNCHANGED <<ops, htlc, events, out>> /\ consumers' \subseteq consumers
    BY <1>4 DEF MakeInvoice, BeginPayment, CommitEvent, StopNode, StartNode, node, vars
  <2> QED BY <2>1, RestSteps
<1>5. \A i : ~CheckUnsettledTransaction(i)
  BY DEF CheckUnsettledTransaction
<1> QED BY <1>1, <1>2, <1>3, <1>4, <1>5, BeginOpSteps, ConsumeSteps, ReceiveSteps, OutsideSteps,
           ExpireSteps, PayerSteps DEF Next

-----------------------------------------------------------------------------
(* The payments of this hub to itself.                                     *)

(* No request of others has the hash of one of this hub's.                 *)
OwnApart == \A x \in Own, y \in Requests : HashOf[x] = HashOf[y] => x = y

(* Operations on hold invoices do not overlap.                             *)
OneOperator == \A o, o2 \in Operators : o = o2

(* The node sends nothing to itself: whatever it sent, is sending or       *)
(* reports to have sent goes to others.                                    *)
SentElsewhere ==
    /\ \A h \in DOMAIN out : out[h].pay \notin Own
    /\ \A m \in events \cup consumers :
         m.kind \in {"payment_sent", "payment_failed"} => m.pay \notin Own

(* An incoming row is for a request of this hub, one row per invoice, and  *)
(* only hold invoices are accepted or fail.                                *)
IncomingRow(i, x) == i \in DOMAIN txs /\ txs[i].type = "incoming" /\ txs[i].pay = x

IncomingRows ==
    /\ \A i \in DOMAIN txs : txs[i].type = "incoming" =>
         /\ txs[i].pay \in Own
         /\ txs[i].state \in {"ACCEPTED", "FAILED"} => txs[i].pay \in Hold
    /\ \A x \in Invoices, i, j \in DOMAIN txs : IncomingRow(i, x) /\ IncomingRow(j, x) => i = j

(* What is received for an invoice has a row to go to, and a hold invoice  *)
(* is reported as received only once the node was paid for it.             *)
ReceiptsHaveRows ==
    /\ \A e \in events : e.kind \in {"payment_received", "hold_invoice_accepted"} =>
         /\ e.pay \in Own
         /\ e.kind = "hold_invoice_accepted" => e.pay \in Hold
         /\ e.pay \in Invoices => \E i : IncomingRow(i, e.pay)
         /\ e.kind = "payment_received" /\ e.pay \in Hold => htlc[e.pay] = "paid"
    /\ \A c \in consumers : c.kind \notin {"payment_sent", "payment_failed"} =>
         /\ c.pay \in Own
         /\ c.row = 0 => c.pay \notin Invoices
         /\ c.pay \in Hold => htlc[c.pay] = "paid"

(* A call works on a row of its own, which agrees with it on whether this  *)
(* is a self payment; while a self payment runs, nobody else fails its row.*)
HoldPcs == {"register", "registered", "holding"}

SelfCall(c) ==
    /\ c.self => c.pay \in Own
    /\ c.pc # "create" => /\ txs[c.row].self = c.self
                          /\ c.self => txs[c.row].state \in {"PENDING", "SETTLED"}
    /\ c.pc = "selfSettle" => c.pay \notin Hold
    /\ c.pc \in HoldPcs => c.pay \in Hold /\ \E i : IncomingRow(i, c.pay)

SelfCalls ==
    /\ \A p \in DOMAIN call : SelfCall(call[p])
    /\ \A p, q \in DOMAIN call :
         call[p].pc # "create" /\ call[q].pc # "create" /\ call[p].row = call[q].row => p = q

(* Operations work on hold invoices.                                       *)
OpsOnHolds == \A o \in DOMAIN ops : txs[ops[o].row].pay \in Hold

LedgerInv == SentElsewhere /\ IncomingRows /\ ReceiptsHaveRows /\ SelfCalls /\ OpsOnHolds

(* The row of a running operation waits for it, or is settled already; and *)
(* before it fails, the node gave the payment back.                        *)
HoldOps ==
    \A o \in DOMAIN ops :
        LET r == txs[ops[o].row]
        IN  /\ r.state = "SETTLED" \/ (r.state = "ACCEPTED" /\ r.self = ops[o].self)
            /\ ops[o].pc = "cancelCommit" /\ ~ops[o].self => htlc[r.pay] = "canceled"

(* A hold invoice is paid to the node only if its row waited for that.     *)
PaidHolds ==
    \A x \in Hold : htlc[x] = "paid" =>
        \E i : /\ IncomingRow(i, x)
               /\ txs[i].state = "SETTLED" \/ (txs[i].state = "ACCEPTED" /\ ~txs[i].self)

(* A payer is told of a cancellation only after its invoice was decided on.*)
CancelsAreDecided ==
    \A w \in wakes : w.kind = "canceled" =>
        \E i : IncomingRow(i, call[w.to].pay) /\ txs[i].state # "PENDING"

(* A call that will not fail its row: it settles it next, or waits and has *)
(* not been told of a cancellation.                                        *)
Stands(p) == \/ call[p].pc = "settle"
             \/ call[p].pc = "holding" /\ \A w \in wakes : w.to = p => w.kind # "canceled"

(* A payer is out of the money for x, and stays so.                        *)
Pays(j, x) ==
    /\ j \in DOMAIN txs /\ txs[j].type = "outgoing" /\ txs[j].self /\ txs[j].pay = x
    /\ txs[j].state \in {"PENDING", "SETTLED"}
    /\ \A p \in DOMAIN call : call[p].pc # "create" /\ call[p].row = j => Stands(p)

AllBacked ==
    \A i \in DOMAIN txs :
        /\ txs[i].type = "incoming" /\ txs[i].self /\ txs[i].state \in {"ACCEPTED", "SETTLED"}
        => \E j : Pays(j, txs[i].pay)

HoldInv == HoldOps /\ PaidHolds /\ CancelsAreDecided /\ AllBacked

LEMMA SentElsewhereStep ==
    ASSUME SentElsewhere, NodeStep
    PROVE  SentElsewhere'
<1>1. \A h \in DOMAIN out' : out'[h].pay \notin Own
  BY DEF SentElsewhere, NodeStep, OutStep
<1>2. ASSUME NEW e \in events', e.kind \in {"payment_sent", "payment_failed"}
      PROVE  e.pay \notin Own
  BY <1>2 DEF SentElsewhere, NodeStep, EventsStep
<1>3. ASSUME NEW c \in consumers', c.kind \in {"payment_sent", "payment_failed"}
      PROVE  c.pay \notin Own
  BY <1>3 DEF SentElsewhere, NodeStep, ConsumersStep
<1> QED BY <1>1, <1>2, <1>3 DEF SentElsewhere

(* Who fails or settles an incoming row, and who a self payment's row.     *)
LEMMA IncomingFails ==
    ASSUME TypeOK, NEW i \in DOMAIN txs, txs[i].type = "incoming", RowFails(i)
    PROVE  \E o \in DOMAIN ops : /\ ops[o].pc = "cancelCommit" /\ ops[o].row = i
                                 /\ o \notin DOMAIN ops'
<1>1. \A p \in DOMAIN call : call[p].pc = "fail" => call[p].row # i
  BY TypeParts DEF LocalsOK, CallOK, IsRow
<1>2. \A c \in consumers : c.kind = "payment_failed" => c.row # i
  BY TypeParts DEF LocalsOK, ConsumerHasRow, IsRow
<1> QED BY <1>1, <1>2 DEF RowFails

LEMMA IncomingSettles ==
    ASSUME TypeOK, NEW i \in DOMAIN txs, txs[i].type = "incoming", RowSettled(i)
    PROVE  \/ \E p \in DOMAIN call : /\ call[p].pc = "selfSettle" /\ call[p].incoming = i
                                     /\ Goto(p, "settle")
           \/ /\ ~txs'[i].self
              /\ \E c \in consumers : /\ c.kind \notin {"payment_sent", "payment_failed"}
                                      /\ c.row = i
           \/ \E o \in DOMAIN ops : ops[o].row = i /\ txs'[i].self = ops[o].self
<1>1. \A p \in DOMAIN call : call[p].pc = "settle" => call[p].row # i
  BY TypeParts DEF LocalsOK, CallOK, IsRow
<1>2. \A c \in consumers : c.row = i /\ i # 0 => c.kind \notin {"payment_sent", "payment_failed"}
  BY TypeParts DEF LocalsOK, ConsumerHasRow, IsRow
<1>3. i # 0
  BY TypeParts, TxIdAssumption DEF TableOK
<1> QED BY <1>1, <1>2, <1>3 DEF RowSettled

LEMMA OutgoingFails ==
    ASSUME TypeOK, SentElsewhere, OwnApart,
           NEW i \in DOMAIN txs, txs[i].type = "outgoing", txs[i].pay \in Own, RowFails(i)
    PROVE  \E p \in DOMAIN call : call[p].pc = "fail" /\ call[p].row = i /\ p \notin DOMAIN call'
<1>1. ASSUME NEW c \in consumers, c.kind = "payment_failed", c.row = i
      PROVE  FALSE
  <2>1. HashOf[c.pay] = HashOf[txs[i].pay] /\ c.pay \in Requests /\ c.pay \notin Own
    BY <1>1, TypeParts, TxIdAssumption
    DEF TableOK, LocalsOK, ConsumerHasRow, IsRow, QueuesOK, Consumer, SentElsewhere
  <2> QED BY <2>1 DEF OwnApart
<1>2. \A o \in DOMAIN ops : ops[o].row # i
  BY TypeParts DEF LocalsOK
<1> QED BY <1>1, <1>2 DEF RowFails

LEMMA OutgoingSettles ==
    ASSUME TypeOK, SentElsewhere, OwnApart,
           NEW i \in DOMAIN txs, txs[i].type = "outgoing", RowSettled(i)
    PROVE  \/ \E p \in DOMAIN call : /\ call[p].pc = "settle" /\ call[p].row = i
                                     /\ txs'[i].self = call[p].self
           \/ /\ txs[i].pay \notin Own /\ ~txs'[i].self
              /\ \E c \in consumers : c.kind = "payment_sent" /\ c.row = i
<1>1. ASSUME NEW c \in consumers, c.kind # "payment_failed", c.row = i
      PROVE  txs[i].pay \notin Own /\ c.kind = "payment_sent"
  <2>1. /\ c.row # 0 => IsRow(c.row, IF c.kind \in {"payment_sent", "payment_failed"}
                                     THEN "outgoing" ELSE "incoming", c.pay)
        /\ i # 0 /\ c.pay \in Requests /\ txs[i].pay \in Requests
    BY TypeParts, TxIdAssumption DEF TableOK, Row, LocalsOK, ConsumerHasRow, QueuesOK, Consumer
  <2>2. c.kind = "payment_sent" /\ HashOf[txs[i].pay] = HashOf[c.pay]
    BY <1>1, <2>1 DEF IsRow
  <2>3. c.pay \notin Own
    BY <2>2 DEF SentElsewhere
  <2> QED BY <2>1, <2>2, <2>3 DEF OwnApart
<1>2. \A o \in DOMAIN ops : ops[o].row # i
  BY TypeParts DEF LocalsOK
<1>3. \A p \in DOMAIN call : call[p].pc = "selfSettle" => call[p].incoming # i
  BY TypeParts DEF LocalsOK, CallOK, IsRow
<1> QED BY <1>1, <1>2, <1>3 DEF RowSettled

-----------------------------------------------------------------------------
(* Each part of the invariant is kept.                                     *)

LEMMA IncomingRowKept ==
    ASSUME KeepsRows, NEW i, NEW x, IncomingRow(i, x)
    PROVE  IncomingRow(i, x)'
BY DEF KeepsRows, IncomingRow

LEMMA IncomingRowsStep ==
    ASSUME TypeOK, TypeOK', OwnApart, KeepsRows, IncomingRows, ReceiptsHaveRows, SelfCalls,
           OpsOnHolds, RowsStep
    PROVE  IncomingRows'
<1>1. ASSUME NEW i \in DOMAIN txs, txs[i].type = "incoming",
             txs'[i].state \in {"ACCEPTED", "FAILED"}
      PROVE  txs[i].pay \in Hold
  <2>0. txs[i].pay \in Own /\ (txs[i].state \in {"ACCEPTED", "FAILED"} => txs[i].pay \in Hold)
    BY <1>1 DEF IncomingRows
  <2>1. CASE txs'[i] = txs[i]
    BY <1>1, <2>0, <2>1
  <2>2. CASE RowFails(i)
    BY <1>1, <2>2, IncomingFails DEF OpsOnHolds
  <2>3. CASE RowAccepted(i)
    <3>1. CASE \E e \in events : e.kind = "hold_invoice_accepted" /\ SameRequest(e.pay, txs[i].pay)
      BY <2>0, <3>1, RequestAssumption DEF ReceiptsHaveRows, SameRequest, OwnApart
    <3>2. CASE \E p \in DOMAIN call : /\ call[p].pc = "registered"
                                      /\ SameRequest(call[p].pay, txs[i].pay)
      BY <2>0, <3>2, RequestAssumption DEF SelfCalls, SelfCall, HoldPcs, SameRequest, OwnApart
    <3> QED BY <2>3, <3>1, <3>2 DEF RowAccepted
  <2>4. ~RowSettled(i)
    BY <1>1 DEF RowSettled
  <2> QED BY <2>1, <2>2, <2>3, <2>4 DEF RowsStep, RowStep
<1>2. ASSUME NEW i \in DOMAIN txs' \ DOMAIN txs, txs'[i].type = "incoming"
      PROVE  /\ txs'[i].pay \in Own /\ txs'[i].state \in {"PENDING", "SETTLED"}
             /\ txs'[i].pay \in Invoices => \A j : ~IncomingRow(j, txs'[i].pay)
  <2>1. CASE NewInvoice(i)
    BY <2>1 DEF NewInvoice, IncomingRow
  <2>2. CASE NewKeysend(i)
    <3>1. PICK p \in DOMAIN call : call[p].pc = "keysendIncoming" /\ call[p].pay = txs'[i].pay
      BY <2>2 DEF NewKeysend
    <3>2. call[p].pay \in Keysends \cap Own
      BY <3>1, TypeParts DEF LocalsOK, CallOK, SelfPcs
    <3> QED BY <2>2, <3>1, <3>2, RequestAssumption DEF NewKeysend
  <2>3. CASE NewSettled(i)
    <3>1. PICK c \in consumers : /\ c.kind # "payment_failed" /\ c.row = 0 /\ c.pay = txs'[i].pay
                                 /\ c.kind # "payment_sent"
      BY <1>2, <2>3 DEF NewSettled
    <3> QED BY <2>3, <3>1 DEF NewSettled, ReceiptsHaveRows
  <2>4. ~NewOutgoing(i)
    BY <1>2 DEF NewOutgoing
  <2> QED BY <2>1, <2>2, <2>3, <2>4 DEF RowsStep, NewRow
<1>3. ASSUME NEW i \in DOMAIN txs', txs'[i].type = "incoming"
      PROVE  /\ txs'[i].pay \in Own
             /\ txs'[i].state \in {"ACCEPTED", "FAILED"} => txs'[i].pay \in Hold
  BY <1>1, <1>2, <1>3 DEF KeepsRows, IncomingRows
<1>4. ASSUME NEW x \in Invoices, NEW i \in DOMAIN txs', NEW j \in DOMAIN txs',
             IncomingRow(i, x)', IncomingRow(j, x)'
      PROVE  i = j
  <2>1. \A k \in DOMAIN txs : IncomingRow(k, x)' => IncomingRow(k, x)
    BY DEF KeepsRows, IncomingRow
  <2>2. CASE i \in DOMAIN txs /\ j \in DOMAIN txs
    BY <1>4, <2>1, <2>2 DEF IncomingRows
  <2>3. CASE i \notin DOMAIN txs /\ j \notin DOMAIN txs
    BY <2>3 DEF RowsStep
  <2>4. ASSUME NEW k \in DOMAIN txs' \ DOMAIN txs, NEW l \in DOMAIN txs,
               IncomingRow(k, x)', IncomingRow(l, x)'
        PROVE  FALSE
    BY <1>2, <2>1, <2>4 DEF IncomingRow
  <2> QED BY <1>4, <2>2, <2>3, <2>4
<1> QED BY <1>3, <1>4 DEF IncomingRows

LEMMA ReceiptsStep ==
    ASSUME TypeOK, KeepsRows, ReceiptsHaveRows, NodeStep, OwnApart
    PROVE  ReceiptsHaveRows'
<1>1. \A x \in Hold : htlc[x] = "paid" => htlc'[x] = "paid"
  BY RequestAssumption DEF NodeStep, HtlcStep
<1>2. \A x : (\E i : IncomingRow(i, x)) => \E i : IncomingRow(i, x)'
  BY IncomingRowKept
<1>3. ASSUME NEW x \in Own
      PROVE  FindByHash(txs, "incoming", States, x) # {} <=> \E i : IncomingRow(i, x)
  <2>1. \A i \in DOMAIN txs : txs[i].state \in States /\ txs[i].pay \in Requests
    BY TypeParts DEF TableOK, Row
  <2> QED BY <2>1 DEF FindByHash, IncomingRow, OwnApart
<1>4. ASSUME NEW e \in events', e.kind \in {"payment_received", "hold_invoice_accepted"}
      PROVE  /\ e.pay \in Own
             /\ e.kind = "hold_invoice_accepted" => e.pay \in Hold
             /\ e.pay \in Invoices => \E i : IncomingRow(i, e.pay)'
             /\ e.kind = "payment_received" /\ e.pay \in Hold => htlc'[e.pay] = "paid"
  <2>1. CASE e \in events
    BY <1>1, <1>2, <1>4, <2>1 DEF ReceiptsHaveRows
  <2>2. CASE e \notin events
    BY <1>2, <1>3, <1>4, <2>2 DEF NodeStep, EventsStep
  <2> QED BY <2>1, <2>2
<1>5. ASSUME NEW c \in consumers', c.kind \notin {"payment_sent", "payment_failed"}
      PROVE  /\ c.pay \in Own
             /\ c.row = 0 => c.pay \notin Invoices
             /\ c.pay \in Hold => htlc'[c.pay] = "paid"
  <2>1. CASE c \in consumers
    BY <1>1, <1>5, <2>1 DEF ReceiptsHaveRows
  <2>2. CASE c \notin consumers
    <3>1. PICK e \in events :
            /\ c.kind = e.kind /\ c.pay = e.pay /\ e.kind # "hold_invoice_accepted"
            /\ e.kind = "payment_received" /\ c.row = 0 =>
                 FindByHash(txs, "incoming", States, e.pay) = {}
            /\ UNCHANGED <<txs, htlc>>
      BY <2>2 DEF NodeStep, ConsumersStep
    <3>2. e.kind = "payment_received"
      BY <1>5, <3>1, TypeParts DEF QueuesOK, Event, EventKinds
    <3> QED BY <1>3, <3>1, <3>2 DEF ReceiptsHaveRows
  <2> QED BY <2>1, <2>2
<1> QED BY <1>4, <1>5 DEF ReceiptsHaveRows

(* The row of a call agrees with it still, unless the call is over.        *)
LEMMA CallRowKept ==
    ASSUME TypeOK, TypeOK', KeepsRows, SentElsewhere, OwnApart, SelfCalls, RowsStep,
           NEW p \in DOMAIN call, call[p].pc # "create", p \in DOMAIN call'
    PROVE  /\ txs'[call[p].row].self = call[p].self
           /\ call[p].self => txs'[call[p].row].state \in {"PENDING", "SETTLED"}
<1> DEFINE i == call[p].row
<1>1. /\ i \in DOMAIN txs /\ txs[i].type = "outgoing" /\ txs[i].pay = call[p].pay
      /\ SelfCall(call[p])
      /\ \A q \in DOMAIN call : call[q].pc # "create" /\ call[q].row = i => q = p
  BY TypeParts DEF LocalsOK, CallOK, IsRow, SelfCalls
<1>2. txs[i].self = call[p].self /\ (call[p].self => txs[i].state \in {"PENDING", "SETTLED"})
  BY <1>1 DEF SelfCall
<1> HIDE DEF i
<1>3. CASE txs'[i] = txs[i]
  BY <1>2, <1>3 DEF i
<1>4. CASE RowFails(i)
  <2>1. CASE call[p].self
    <3>1. txs[i].pay \in Own
      BY <1>1, <2>1 DEF SelfCall
    <3> QED BY <1>1, <1>4, <3>1, OutgoingFails
  <2>2. CASE ~call[p].self
    <3>1. txs'[i].self = txs[i].self
      BY <1>4 DEF RowFails
    <3>2. txs'[i].self = call[p].self
      BY <1>2, <3>1
    <3> QED BY <2>2, <3>2 DEF i
  <2> QED BY <2>1, <2>2
<1>5. CASE RowSettled(i)
  <2>1. txs'[i].state = "SETTLED"
    BY <1>5 DEF RowSettled
  <2>2. CASE \E q \in DOMAIN call : /\ call[q].pc = "settle" /\ call[q].row = i
                                    /\ txs'[i].self = call[q].self
    BY <1>1, <2>1, <2>2 DEF i
  <2>3. CASE txs[i].pay \notin Own /\ ~txs'[i].self
    <3>1. ~call[p].self
      BY <1>1, <2>3 DEF SelfCall
    <3>2. txs'[i].self \in BOOLEAN /\ call[p].self \in BOOLEAN
      BY <1>1, CallsTyped DEF Call, KeepsRows, TypeOK, Row
    <3> QED BY <2>3, <3>1, <3>2 DEF i
  <2> QED BY <1>1, <1>5, <2>2, <2>3, OutgoingSettles
<1>6. ~RowAccepted(i)
  BY <1>1 DEF RowAccepted
<1> QED BY <1>1, <1>3, <1>4, <1>5, <1>6 DEF RowsStep, RowStep

LEMMA SelfCallsStep ==
    ASSUME TypeOK, TypeOK', OwnApart, KeepsRows, SentElsewhere, SelfCalls, IncomingRows,
           RowsStep, CallsStep
    PROVE  SelfCalls'
<1>0. \A p \in DOMAIN call : SelfCall(call[p]) /\ call[p] \in Call
  BY CallsTyped DEF SelfCalls
<1>1. ASSUME NEW p \in DOMAIN call'
      PROVE  SelfCall(call[p])'
  <2> DEFINE c == call[p]
             d == call'[p]
  <2>1. CASE CallKept(p)
    <3>1. p \in DOMAIN call /\ d = c
      BY <2>1 DEF CallKept
    <3>2. CASE c.pc = "create"
      BY <1>0, <3>1, <3>2 DEF SelfCall, HoldPcs
    <3>3. CASE c.pc # "create"
      <4>1. /\ txs'[c.row].self = c.self
            /\ c.self => txs'[c.row].state \in {"PENDING", "SETTLED"}
        BY <3>1, <3>3, CallRowKept
      <4>2. c.pc \in HoldPcs => \E i : IncomingRow(i, c.pay)'
        BY <1>0, <3>1, IncomingRowKept DEF SelfCall
      <4> QED BY <1>0, <3>1, <4>1, <4>2 DEF SelfCall, IncomingRow
    <3> QED BY <3>2, <3>3
  <2>2. CASE CallBegun(p)
    BY <2>2 DEF CallBegun, SelfCall, HoldPcs
  <2>3. CASE CallCreated(p)
    <3>1. /\ d.pay = c.pay /\ d.self = c.self /\ c \in Call
          /\ d.pc \notin HoldPcs \cup {"create", "selfSettle"}
          /\ txs'[d.row].state = "PENDING" /\ txs'[d.row].self = c.self
          /\ SelfCall(c)
      BY <1>0, <2>3 DEF CallCreated, HoldPcs
    <3> QED BY <3>1 DEF SelfCall
  <2>4. CASE CallMoved(p)
    <3>1. /\ p \in DOMAIN call /\ c.pc # "create" /\ d.pay = c.pay /\ d.self = c.self
          /\ d.row = c.row /\ SelfCall(c) /\ c.pay \in Requests
      BY <1>0, <2>4 DEF CallMoved, SameCall, Moves, Call
    <3>2. /\ txs'[d.row].self = d.self
          /\ d.self => txs'[d.row].state \in {"PENDING", "SETTLED"}
      BY <3>1, CallRowKept
    <3>3. ASSUME NEW i, Found(p, i), c.self
          PROVE  txs[i].pay = c.pay /\ IncomingRow(i, c.pay)
      BY <3>1, <3>3 DEF Found, SameRequest, SelfCall, IncomingRows, IncomingRow, OwnApart
    <3>4. c.pc \in SelfPcs => c.self
      BY <3>1, TypeParts DEF LocalsOK, CallOK
    <3>5. d.pc = "selfSettle" => c.pay \notin Hold
      <4>1. ASSUME d.pc = "selfSettle"
            PROVE  \E i : Found(p, i) /\ txs[i].pay \notin Hold /\ c.pc = "intercept"
        BY <2>4, <4>1 DEF CallMoved, Moves
      <4> QED BY <3>3, <3>4, <4>1 DEF SelfPcs
    <3>6. d.pc \in HoldPcs => c.pay \in Hold /\ \E i : IncomingRow(i, c.pay)
      <4>1. CASE c.pc \in HoldPcs
        BY <3>1, <4>1 DEF SelfCall
      <4>2. ASSUME c.pc \notin HoldPcs, d.pc \in HoldPcs
            PROVE  c.pc = "intercept" /\ \E i : Found(p, i) /\ txs[i].pay \in Hold
        BY <2>4, <4>2 DEF CallMoved, Moves, HoldPcs
      <4> QED BY <3>3, <3>4, <4>1, <4>2 DEF SelfPcs
    <3>7. d.pc \in HoldPcs => d.pay \in Hold /\ \E i : IncomingRow(i, call[p].pay)'
      <4>1. \A x : (\E i : IncomingRow(i, x)) => \E i : IncomingRow(i, x)'
        BY IncomingRowKept
      <4> QED BY <3>1, <3>6, <4>1
    <3>8. /\ d.self => d.pay \in Own
          /\ d.pc = "selfSettle" => d.pay \notin Hold
      BY <3>1, <3>5 DEF SelfCall
    <3> QED BY <3>2, <3>7, <3>8 DEF SelfCall, IncomingRow
  <2> QED BY <2>1, <2>2, <2>3, <2>4 DEF CallsStep
<1>2. ASSUME NEW p \in DOMAIN call', NEW q \in DOMAIN call',
             call'[p].pc # "create", call'[q].pc # "create", call'[p].row = call'[q].row
      PROVE  p = q
  <2>1. ASSUME NEW r \in DOMAIN call', call'[r].pc # "create", ~CallCreated(r)
        PROVE  /\ r \in DOMAIN call /\ call[r].pc # "create" /\ call'[r].row = call[r].row
               /\ call[r].row \in DOMAIN txs
    <3>1. CallKept(r) \/ CallMoved(r)
      BY <2>1 DEF CallsStep, CallBegun
    <3>2. r \in DOMAIN call /\ call[r].pc # "create" /\ call'[r].row = call[r].row
      BY <2>1, <3>1 DEF CallKept, CallMoved, SameCall, Moves
    <3> QED BY <3>2, TypeParts DEF LocalsOK, CallOK, IsRow
  <2>2. CASE ~CallCreated(p) /\ ~CallCreated(q)
    BY <1>2, <2>1, <2>2 DEF SelfCalls
  <2>3. ASSUME NEW r \in DOMAIN call', NEW s \in DOMAIN call' \ {r}, CallCreated(r),
               call'[s].pc # "create", call'[r].row = call'[s].row
        PROVE  FALSE
    <3>1. call'[r].row \notin DOMAIN txs /\ CallKept(s)
      BY <2>3 DEF CallCreated
    <3>2. s \in DOMAIN call /\ call[s].pc # "create" /\ call[s].row \notin DOMAIN txs
      BY <2>3, <3>1 DEF CallKept
    <3> QED BY <3>2, TypeParts DEF LocalsOK, CallOK, IsRow
  <2> QED BY <1>2, <2>2, <2>3
<1> QED BY <1>1, <1>2 DEF SelfCalls

(* An accepted row that does not change hands settles or stays.            *)
LEMMA AcceptedKept ==
    ASSUME TypeOK, RowsStep, NEW i \in DOMAIN txs, txs[i].type = "incoming",
           txs[i].state = "ACCEPTED",
           \A o \in DOMAIN ops : ops[o].pc = "cancelCommit" /\ ops[o].row = i => o \in DOMAIN ops'
    PROVE  txs'[i] = txs[i] \/ txs'[i].state = "SETTLED"
<1>1. ~RowFails(i)
  BY IncomingFails
<1> QED BY <1>1 DEF RowsStep, RowStep, RowAccepted, RowSettled

LEMMA OpsOnHoldsStep ==
    ASSUME TypeOK, KeepsRows, IncomingRows, OpsOnHolds, NodeStep
    PROVE  OpsOnHolds'
<1>1. ASSUME NEW o \in DOMAIN ops'
      PROVE  txs'[ops'[o].row].pay \in Hold
  <2>1. CASE OpBegun(o)
    BY <2>1 DEF OpBegun, IncomingRows
  <2>2. CASE ~OpBegun(o)
    <3>1. o \in DOMAIN ops /\ ops'[o].row = ops[o].row
      BY <2>2 DEF NodeStep, OpsStep, OpAsked
    <3> QED BY <3>1, TypeParts DEF LocalsOK, OpsOnHolds, KeepsRows
  <2> QED BY <2>1, <2>2
<1> QED BY <1>1 DEF OpsOnHolds

LEMMA HoldOpsStep ==
    ASSUME TypeOK, TypeOK', KeepsRows, OwnApart, OneOperator, OpsOnHolds, HoldOps,
           RowsStep, NodeStep
    PROVE  HoldOps'
<1>0. \A x \in Own : htlc[x] = "canceled" => htlc'[x] = "canceled"
  BY DEF NodeStep, HtlcStep
<1>1. ASSUME NEW o \in DOMAIN ops'
      PROVE  LET r == txs'[ops'[o].row]
             IN  /\ r.state = "SETTLED" \/ (r.state = "ACCEPTED" /\ r.self = ops'[o].self)
                 /\ ops'[o].pc = "cancelCommit" /\ ~ops'[o].self => htlc'[r.pay] = "canceled"
  <2> DEFINE i == ops'[o].row
  <2>1. CASE o \in DOMAIN ops /\ ops'[o] = ops[o]
    <3>1. /\ i \in DOMAIN txs /\ txs[i].type = "incoming" /\ txs[i].pay \in Hold
          /\ txs[i].state = "SETTLED" \/ (txs[i].state = "ACCEPTED" /\ txs[i].self = ops[o].self)
          /\ ops[o].pc = "cancelCommit" /\ ~ops[o].self => htlc[txs[i].pay] = "canceled"
      BY <2>1, TypeParts DEF LocalsOK, HoldOps, OpsOnHolds
    <3>2. \A q \in DOMAIN ops : q = o
      BY <2>1, TypeParts DEF OneOperator, OpsOK
    <3>3. txs[i].state = "ACCEPTED" => txs'[i] = txs[i] \/ txs'[i].state = "SETTLED"
      BY <2>1, <3>1, <3>2, AcceptedKept
    <3>4. /\ txs'[i].pay = txs[i].pay /\ (Settled(i) => txs'[i] = txs[i])
      BY <3>1 DEF KeepsRows
    <3> HIDE DEF i
    <3>5. txs'[i].state = "SETTLED" \/ (txs'[i].state = "ACCEPTED" /\ txs'[i].self = ops[o].self)
      BY <3>1, <3>3, <3>4 DEF Settled
    <3>6. ops[o].pc = "cancelCommit" /\ ~ops[o].self => htlc'[txs[i].pay] = "canceled"
      BY <1>0, <3>1, RequestAssumption
    <3> QED BY <2>1, <3>1, <3>4, <3>5, <3>6 DEF i
  <2>2. CASE OpBegun(o)
    BY <2>2 DEF OpBegun
  <2>3. CASE OpAsked(o)
    <3>1. /\ o \in DOMAIN ops /\ i = ops[o].row /\ ops'[o].self = ops[o].self /\ txs' = txs
          /\ i \in DOMAIN txs /\ txs[i].pay \in Hold /\ txs[i].pay \in Requests
          /\ txs[i].state = "SETTLED" \/ (txs[i].state = "ACCEPTED" /\ txs[i].self = ops[o].self)
      BY <2>3, TypeParts, RequestAssumption DEF OpAsked, LocalsOK, HoldOps, OpsOnHolds
    <3>2. ASSUME ops'[o].pc = "cancelCommit", ~ops[o].self
          PROVE  htlc'[txs[i].pay] = "canceled"
      <4>1. PICK x \in Held(i) : htlc'[x] = "canceled"
        BY <2>3, <3>1, <3>2 DEF OpAsked
      <4>2. x = txs[i].pay
        BY <3>1 DEF Held, OwnApart
      <4> QED BY <4>1, <4>2
    <3> HIDE DEF i
    <3> QED BY <3>1, <3>2 DEF i
  <2> QED BY <2>1, <2>2, <2>3 DEF NodeStep, OpsStep
<1> QED BY <1>1 DEF HoldOps

LEMMA PaidHoldsStep ==
    ASSUME TypeOK, KeepsRows, OwnApart, OpsOnHolds, HoldOps, PaidHolds, RowsStep, NodeStep
    PROVE  PaidHolds'
<1>1. ASSUME NEW x \in Hold, htlc'[x] = "paid"
      PROVE  \E i : /\ IncomingRow(i, x)'
                    /\ \/ txs'[i].state = "SETTLED"
                       \/ txs'[i].state = "ACCEPTED" /\ ~txs'[i].self
  <2>1. CASE htlc[x] = "paid"
    <3>1. PICK i : /\ IncomingRow(i, x)
                   /\ txs[i].state = "SETTLED" \/ (txs[i].state = "ACCEPTED" /\ ~txs[i].self)
      BY <2>1 DEF PaidHolds
    <3>2. IncomingRow(i, x)' /\ (Settled(i) => txs'[i] = txs[i])
      BY <3>1, IncomingRowKept DEF KeepsRows, IncomingRow
    <3>3. CASE txs[i].state = "SETTLED"
      BY <3>2, <3>3 DEF Settled
    <3>4. CASE txs[i].state = "ACCEPTED" /\ ~txs[i].self
      <4>1. \A o \in DOMAIN ops : ops[o].row = i => ops[o].pc # "cancelCommit"
        BY <2>1, <3>1, <3>4 DEF HoldOps, IncomingRow
      <4>2. txs'[i] = txs[i] \/ txs'[i].state = "SETTLED"
        BY <3>1, <3>4, <4>1, AcceptedKept DEF IncomingRow
      <4> QED BY <3>2, <3>4, <4>2
    <3> QED BY <3>1, <3>3, <3>4
  <2>2. CASE htlc[x] # "paid"
    <3>1. x \in Own /\ UNCHANGED txs /\ \E o \in DOMAIN ops : ~ops[o].self /\ x \in Held(ops[o].row)
      BY <1>1, <2>2, RequestAssumption DEF NodeStep, HtlcStep
    <3>2. PICK o \in DOMAIN ops : ~ops[o].self /\ x \in Held(ops[o].row)
      BY <3>1
    <3>0. PICK i : i = ops[o].row
      OBVIOUS
    <3>3. /\ i \in DOMAIN txs /\ txs[i].type = "incoming" /\ txs[i].pay \in Hold
          /\ txs[i].state = "SETTLED" \/ (txs[i].state = "ACCEPTED" /\ txs[i].self = ops[o].self)
      BY <3>0, TypeParts DEF LocalsOK, HoldOps, OpsOnHolds
    <3>4. txs[i].pay = x
      BY <3>0, <3>2, <3>3, RequestAssumption DEF Held, OwnApart
    <3>5. txs' = txs
      BY <3>1
    <3>6. IncomingRow(i, x)'
      BY <3>3, <3>4, <3>5 DEF IncomingRow
    <3> QED BY <3>0, <3>2, <3>3, <3>5, <3>6
  <2> QED BY <2>1, <2>2
<1> QED BY <1>1 DEF PaidHolds

LEMMA NeverPendingAgain ==
    ASSUME KeepsRows, RowsStep, NEW i \in DOMAIN txs, txs[i].state # "PENDING"
    PROVE  txs'[i].state # "PENDING"
BY DEF RowsStep, RowStep, RowFails, RowAccepted, RowSettled

LEMMA CancelsStep ==
    ASSUME TypeOK, PaidInv, PaidInv', KeepsRows, CancelsAreDecided, RowsStep, CallsStep, WakesStep
    PROVE  CancelsAreDecided'
<1>1. ASSUME NEW w \in wakes', w.kind = "canceled"
      PROVE  \E i : IncomingRow(i, call[w.to].pay)' /\ txs'[i].state # "PENDING"
  <2>1. CASE w \in wakes
    <3>1. PICK i : IncomingRow(i, call[w.to].pay) /\ txs[i].state # "PENDING"
      BY <1>1, <2>1 DEF CancelsAreDecided
    <3>2. /\ w.to \in DOMAIN call /\ call[w.to].pc # "create"
          /\ w.to \in DOMAIN call' /\ call'[w.to].pc \in {"registered", "holding"}
      BY <1>1, <2>1 DEF PaidInv, SuccessIsTrue, WakeIsTrue
    <3>3. call'[w.to].pay = call[w.to].pay
      BY <3>2 DEF CallsStep, CallKept, CallBegun, CallCreated, CallMoved, SameCall
    <3>4. i \in DOMAIN txs' /\ txs'[i].type = "incoming" /\ txs'[i].pay = call'[w.to].pay
      BY <3>1, <3>3 DEF KeepsRows, IncomingRow
    <3>5. txs'[i].state # "PENDING"
      BY <3>1, NeverPendingAgain DEF IncomingRow
    <3> QED BY <3>4, <3>5 DEF IncomingRow
  <2>2. CASE w \notin wakes
    <3>1. PICK o \in DOMAIN ops : /\ w.to \in Waiters(txs[ops[o].row].pay)
                                  /\ txs'[ops[o].row].state = "FAILED" /\ UNCHANGED call
      BY <1>1, <2>2 DEF WakesStep
    <3>0. PICK i : i = ops[o].row
      OBVIOUS
    <3>2. i \in DOMAIN txs /\ txs[i].type = "incoming"
      BY <3>0, TypeParts DEF LocalsOK
    <3>3. call[w.to].pay = txs[i].pay /\ call' = call
      BY <3>0, <3>1 DEF Waiters
    <3>4. i \in DOMAIN txs' /\ txs'[i].type = "incoming" /\ txs'[i].pay = call'[w.to].pay
      BY <3>2, <3>3 DEF KeepsRows
    <3>5. IncomingRow(i, call[w.to].pay)'
      BY <3>4 DEF IncomingRow
    <3> QED BY <3>0, <3>1, <3>5
  <2> QED BY <2>1, <2>2
<1> QED BY <1>1 DEF CancelsAreDecided

(* Who pays an incoming row that does not fail goes on paying it.          *)
LEMMA PaysKept ==
    ASSUME TypeOK, KeepsRows, OwnApart, SentElsewhere, IncomingRows, SelfCalls, OpsOnHolds,
           RowsStep, CallsStep, WakesStep, NEW x, NEW i, IncomingRow(i, x),
           txs'[i].state # "FAILED", NEW j, Pays(j, x)
    PROVE  Pays(j, x)'
<1>1. /\ j \in DOMAIN txs /\ txs[j].type = "outgoing" /\ txs[j].self /\ txs[j].pay = x
      /\ txs[j].state \in {"PENDING", "SETTLED"} /\ x \in Own
  BY DEF Pays, IncomingRow, IncomingRows
<1>2. ASSUME NEW p \in DOMAIN call, call[p].pc # "create", call[p].row = j
      PROVE  Stands(p) /\ call[p].pay = x /\ txs[j].self = call[p].self
  BY <1>1, <1>2, TypeParts DEF Pays, SelfCalls, SelfCall, LocalsOK, CallOK
<1>3. txs'[j].self /\ txs'[j].state \in {"PENDING", "SETTLED"}
  <2>1. CASE txs'[j] = txs[j]
    BY <1>1, <2>1
  <2>2. ~RowFails(j)
    BY <1>1, <1>2, OutgoingFails DEF Stands
  <2>3. CASE RowSettled(j)
    <3>1. PICK p \in DOMAIN call : /\ call[p].pc = "settle" /\ call[p].row = j
                                   /\ txs'[j].self = call[p].self
      BY <1>1, <2>3, OutgoingSettles
    <3>2. txs'[j].self = txs[j].self
      BY <1>2, <3>1
    <3> QED BY <1>1, <2>3, <3>2 DEF RowSettled
  <2>4. ~RowAccepted(j)
    BY <1>1 DEF RowAccepted
  <2> QED BY <1>1, <2>1, <2>2, <2>3, <2>4 DEF RowsStep, RowStep
<1>4. ASSUME NEW p \in DOMAIN call', call'[p].pc # "create", call'[p].row = j
      PROVE  \/ call'[p].pc = "settle"
             \/ call'[p].pc = "holding" /\ \A w \in wakes' : w.to = p => w.kind # "canceled"
  <2>1. CallKept(p) \/ CallMoved(p)
    BY <1>1, <1>4 DEF CallsStep, CallBegun, CallCreated
  <2>2. p \in DOMAIN call /\ call[p].pc # "create" /\ call[p].row = j
    BY <1>4, <2>1 DEF CallKept, CallMoved, SameCall, Moves
  <2>3. Stands(p) /\ call[p].pay = x
    BY <1>2, <2>2
  <2>4. CASE CallMoved(p)
    BY <2>3, <2>4 DEF CallMoved, Moves, Stands
  <2>5. CASE CallKept(p)
    <3>1. ASSUME NEW w \in wakes', w.to = p, w.kind = "canceled", call[p].pc = "holding"
          PROVE  FALSE
      <4>1. w \notin wakes
        BY <2>3, <3>1 DEF Stands
      <4>2. PICK o \in DOMAIN ops : /\ w.to \in Waiters(txs[ops[o].row].pay)
                                    /\ txs'[ops[o].row].state = "FAILED"
        BY <3>1, <4>1 DEF WakesStep
      <4>3. IncomingRow(ops[o].row, x) /\ x \in Hold
        BY <2>3, <3>1, <4>2, TypeParts DEF Waiters, LocalsOK, OpsOnHolds, IncomingRow
      <4>4. ops[o].row = i
        BY <4>3, RequestAssumption DEF IncomingRows, IncomingRow
      <4> QED BY <4>2, <4>4
    <3> QED BY <2>3, <2>5, <3>1 DEF CallKept, Stands
  <2> QED BY <2>1, <2>4, <2>5
<1>5. j \in DOMAIN txs' /\ txs'[j].type = "outgoing" /\ txs'[j].pay = x
  BY <1>1 DEF KeepsRows
<1> QED BY <1>3, <1>4, <1>5 DEF Pays, Stands

(* A self payment that has found its invoice pays it from now on.          *)
LEMMA PayerPays ==
    ASSUME TypeOK, TypeOK', KeepsRows, OwnApart, SentElsewhere, SelfCalls, SelfCalls', RowsStep,
           NEW p \in DOMAIN call, call[p].pc \in SelfPcs, NEW pc \in {"settle", "holding"},
           Goto(p, pc), NEW x, call[p].pay = x,
           pc = "holding" => \A w \in wakes' : w.to = p => w.kind # "canceled"
    PROVE  \E j : Pays(j, x)'
<1>1. PICK j : j = call[p].row
  OBVIOUS
<1>2. call[p].pc # "create" /\ call[p].self
  BY TypeParts DEF SelfPcs, LocalsOK, CallOK
<1>3. j \in DOMAIN txs /\ txs[j].type = "outgoing" /\ txs[j].pay = x
  BY <1>1, <1>2, TypeParts DEF LocalsOK, CallOK, IsRow
<1>4. p \in DOMAIN call' /\ call'[p].pc = pc /\ call'[p].row = j
  BY <1>1, CallsTyped, TypeParts DEF Goto, CallsOK, Call
<1>5. txs'[j].self /\ txs'[j].state \in {"PENDING", "SETTLED"}
  <2>1. txs'[j].self = call[p].self /\ (call[p].self => txs'[j].state \in {"PENDING", "SETTLED"})
    BY <1>1, <1>2, <1>4, CallRowKept
  <2> QED BY <1>2, <2>1
<1>6. \A q \in DOMAIN call' : call'[q].pc # "create" /\ call'[q].row = j => q = p
  BY <1>4 DEF SelfCalls
<1>7. j \in DOMAIN txs' /\ txs'[j].type = "outgoing" /\ txs'[j].pay = x
  BY <1>3 DEF KeepsRows
<1> QED BY <1>4, <1>5, <1>6, <1>7 DEF Pays, Stands

LEMMA BackedStep ==
    ASSUME TypeOK, TypeOK', KeepsRows, OwnApart, SentElsewhere, IncomingRows, SelfCalls, SelfCalls',
           OpsOnHolds, HoldOps, CancelsAreDecided, AllBacked, RowsStep, CallsStep, WakesStep
    PROVE  AllBacked'
<1>1. ASSUME NEW i \in DOMAIN txs', txs'[i].type = "incoming", txs'[i].self,
             txs'[i].state \in {"ACCEPTED", "SETTLED"}, NEW x, txs'[i].pay = x
      PROVE  \E j : Pays(j, x)'
  <2>0. i \in DOMAIN txs
    BY <1>1 DEF RowsStep, NewRow, NewInvoice, NewOutgoing, NewKeysend, NewSettled
  <2>1. txs[i].type = "incoming" /\ IncomingRow(i, x) /\ x \in Own
    BY <1>1, <2>0 DEF KeepsRows, IncomingRow, IncomingRows
  <2>2. ASSUME txs[i].self, txs[i].state \in {"ACCEPTED", "SETTLED"}
        PROVE  \E j : Pays(j, x)'
    <3>1. PICK j : Pays(j, x)
      BY <2>0, <2>1, <2>2 DEF AllBacked, IncomingRow
    <3> QED BY <1>1, <2>1, <3>1, PaysKept
  <2>3. CASE txs'[i] = txs[i]
    BY <1>1, <2>2, <2>3
  <2>4. CASE RowAccepted(i)
    <3>1. PICK p \in DOMAIN call : /\ call[p].pc = "registered"
                                   /\ SameRequest(call[p].pay, txs[i].pay)
                                   /\ Goto(p, "holding") /\ UNCHANGED wakes
      BY <1>1, <2>4 DEF RowAccepted
    <3>2. call[p].pay \in Hold
      BY <3>1 DEF SelfCalls, SelfCall, HoldPcs
    <3>3. call[p].pay = x
      BY <2>1, <3>1, <3>2, RequestAssumption DEF SameRequest, IncomingRow, OwnApart
    <3>4. txs[i].state = "PENDING"
      BY <2>4 DEF RowAccepted
    <3>5. \A k : IncomingRow(k, x) => k = i
      BY <2>1, <3>2, <3>3, RequestAssumption DEF IncomingRows, IncomingRow
    <3>6. \A w \in wakes' : w.to = p => w.kind # "canceled"
      BY <3>1, <3>3, <3>4, <3>5 DEF CancelsAreDecided
    <3> QED BY <3>1, <3>3, <3>6, PayerPays DEF SelfPcs
  <2>5. CASE RowSettled(i)
    <3>1. CASE \E p \in DOMAIN call : /\ call[p].pc = "selfSettle" /\ call[p].incoming = i
                                      /\ Goto(p, "settle")
      <4>1. PICK p \in DOMAIN call : /\ call[p].pc = "selfSettle" /\ call[p].incoming = i
                                     /\ Goto(p, "settle")
        BY <3>1
      <4>2. HashOf[call[p].pay] = HashOf[x] /\ call[p].pay \in Requests
        BY <2>1, <4>1, CallsTyped, TypeParts DEF LocalsOK, CallOK, IsRow, IncomingRow, Call
      <4>3. call[p].pay = x
        BY <2>1, <4>2 DEF OwnApart
      <4> QED BY <4>1, <4>3, PayerPays DEF SelfPcs
    <3>2. CASE \E o \in DOMAIN ops : ops[o].row = i /\ txs'[i].self = ops[o].self
      <4>1. ~Settled(i)
        BY <2>5 DEF RowSettled
      <4>2. txs[i].state = "ACCEPTED" /\ txs[i].self = txs'[i].self
        BY <3>2, <4>1 DEF HoldOps, Settled
      <4> QED BY <1>1, <2>2, <4>2
    <3> QED BY <1>1, <2>0, <2>1, <2>5, <3>1, <3>2, IncomingSettles
  <2>6. ~RowFails(i)
    BY <1>1 DEF RowFails
  <2> QED BY <2>0, <2>3, <2>4, <2>5, <2>6 DEF RowsStep, RowStep
<1> QED BY <1>1 DEF AllBacked

(* With a node that publishes what it receives, the ledger is in order     *)
(* even if operations overlap.                                             *)
LedgerAssumption == OwnApart /\ "payment_received" \in Emits
SelfPaymentsAssumption == LedgerAssumption /\ OneOperator

LEMMA EveryStep ==
    ASSUME LedgerAssumption, TypeOK, PaidInv, LedgerInv, [Next]_vars
    PROVE  /\ TypeOK' /\ KeepsRows /\ PaidInv'
           /\ RowsStep /\ CallsStep /\ WakesStep /\ NodeStep
<1>1. TypeOK' /\ KeepsRows
  BY NextOK DEF StepOK, TableStep
<1>2. OwnIncoming
  BY DEF LedgerInv, IncomingRows, OwnIncoming
<1> QED BY <1>1, <1>2, PaidInvStep, EveryRow, EveryCall, EveryWake, EveryNodeStep
        DEF LedgerAssumption

LEMMA LedgerInvStep ==
    ASSUME LedgerAssumption, TypeOK, PaidInv, LedgerInv, [Next]_vars
    PROVE  LedgerInv'
<1>1. SelfCalls' /\ OpsOnHolds'
  BY EveryStep, SelfCallsStep, OpsOnHoldsStep DEF LedgerInv, LedgerAssumption
<1>2. SentElsewhere' /\ IncomingRows' /\ ReceiptsHaveRows'
  BY EveryStep, SentElsewhereStep, IncomingRowsStep, ReceiptsStep DEF LedgerInv, LedgerAssumption
<1> QED BY <1>1, <1>2 DEF LedgerInv

LEMMA HoldInvStep ==
    ASSUME SelfPaymentsAssumption, TypeOK, PaidInv, LedgerInv, HoldInv, [Next]_vars
    PROVE  HoldInv'
<1>1. SelfCalls'
  BY LedgerInvStep DEF LedgerInv, SelfPaymentsAssumption
<1>2. HoldOps' /\ PaidHolds' /\ CancelsAreDecided'
  BY EveryStep, HoldOpsStep, PaidHoldsStep, CancelsStep
  DEF LedgerInv, HoldInv, SelfPaymentsAssumption, LedgerAssumption
<1>3. AllBacked'
  BY <1>1, EveryStep, BackedStep DEF LedgerInv, HoldInv, SelfPaymentsAssumption, LedgerAssumption
<1> QED BY <1>2, <1>3 DEF HoldInv

LEMMA NothingYet ==
    ASSUME Init
    PROVE  /\ DOMAIN txs = {} /\ DOMAIN call = {} /\ DOMAIN ops = {} /\ DOMAIN out = {}
           /\ events = {} /\ consumers = {} /\ wakes = {} /\ \A x \in Own : htlc[x] = "none"
BY DEF Init

LEMMA LedgerInvHolds ==
    ASSUME LedgerAssumption
    PROVE  Spec => [](TypeOK /\ PaidInv /\ LedgerInv)
<1>1. Init => PaidInv
  BY DEF Init, PaidInv, SettledMeansPaid, SuccessIsTrue, OutByHash
<1>2. Init => LedgerInv
  BY NothingYet
  DEF LedgerInv, SentElsewhere, IncomingRows, ReceiptsHaveRows, SelfCalls, OpsOnHolds
<1>3. TypeOK /\ PaidInv /\ [Next]_vars => PaidInv'
  BY PaidInvStep DEF LedgerAssumption
<1>4. TypeOK /\ PaidInv /\ LedgerInv /\ [Next]_vars => LedgerInv'
  BY LedgerInvStep
<1> QED BY <1>1, <1>2, <1>3, <1>4, TypeCorrect, PTL DEF Spec

LEMMA HoldInvHolds ==
    ASSUME SelfPaymentsAssumption
    PROVE  Spec => [](TypeOK /\ PaidInv /\ LedgerInv /\ HoldInv)
<1>1. Init => HoldInv
  BY NothingYet, RequestAssumption DEF HoldInv, HoldOps, PaidHolds, CancelsAreDecided, AllBacked
<1>2. TypeOK /\ PaidInv /\ LedgerInv /\ HoldInv /\ [Next]_vars => HoldInv'
  BY HoldInvStep
<1> QED BY <1>1, <1>2, LedgerInvHolds, PTL DEF Spec, SelfPaymentsAssumption

(* Money received from this hub itself is money some payer here is out of, *)
(* whatever payments, operations, events and crashes interleave: the row of*)
(* a self payment fails only if the incoming row was not accepted, or has  *)
(* been canceled (interceptSelfHoldPayment).                               *)
THEOREM SelfPaymentsAreConserved ==
    ASSUME SelfPaymentsAssumption
    PROVE  Spec => []SelfPaymentConserved
<1>1. HoldInv => SelfPaymentConserved
  <2> SUFFICES ASSUME HoldInv, NEW i \in DOMAIN txs, Settled(i),
                      txs[i].type = "incoming", txs[i].self
               PROVE  \E j \in FindByHash(txs, "outgoing", {"PENDING", "SETTLED"}, txs[i].pay) :
                         txs[j].self
    BY DEF SelfPaymentConserved
  <2>1. PICK j : Pays(j, txs[i].pay)
    BY DEF HoldInv, AllBacked, Settled
  <2> QED BY <2>1 DEF Pays, FindByHash
<1> QED BY <1>1, HoldInvHolds, PTL

(* A canceled hold invoice is never paid out, neither by the operation     *)
(* that settles it, nor by an event that comes late, nor by a self payment *)
(* (markTransactionSettled does not look at the state it overwrites).      *)
THEOREM CanceledHoldsStayCanceled ==
    ASSUME SelfPaymentsAssumption
    PROVE  Spec => CanceledHoldStaysCanceled
<1>1. TypeOK /\ PaidInv /\ LedgerInv /\ HoldInv /\ [Next]_vars =>
        \A i \in DOMAIN txs :
          txs[i].type = "incoming" /\ txs[i].state = "FAILED" => txs'[i].state = "FAILED"
  <2> SUFFICES ASSUME TypeOK, PaidInv, LedgerInv, HoldInv, [Next]_vars, NEW i \in DOMAIN txs,
                      txs[i].type = "incoming", txs[i].state = "FAILED"
               PROVE  txs'[i].state = "FAILED"
    OBVIOUS
  <2>1. RowsStep
    BY EveryStep DEF SelfPaymentsAssumption
  <2>2. txs[i].pay \in Hold /\ txs[i].pay \in Own
    BY DEF LedgerInv, IncomingRows
  <2>3. ASSUME NEW p \in DOMAIN call, call[p].pc = "selfSettle", call[p].incoming = i
        PROVE  FALSE
    <3>1. HashOf[call[p].pay] = HashOf[txs[i].pay] /\ call[p].pay \in Requests
      BY <2>3, CallsTyped, TypeParts DEF LocalsOK, CallOK, IsRow, Call
    <3>2. call[p].pay \notin Hold
      BY <2>3 DEF LedgerInv, SelfCalls, SelfCall
    <3> QED BY <2>2, <3>1, <3>2 DEF SelfPaymentsAssumption, LedgerAssumption, OwnApart
  <2>4. ASSUME NEW c \in consumers, c.kind \notin {"payment_sent", "payment_failed"}, c.row = i
        PROVE  FALSE
    <3>1. HashOf[c.pay] = HashOf[txs[i].pay] /\ c.pay \in Own
      BY <2>4, TypeParts, TxIdAssumption
      DEF TableOK, LocalsOK, ConsumerHasRow, IsRow, LedgerInv, ReceiptsHaveRows
    <3>2. c.pay = txs[i].pay
      BY <2>2, <3>1, RequestAssumption DEF SelfPaymentsAssumption, LedgerAssumption, OwnApart
    <3>3. htlc[txs[i].pay] = "paid"
      BY <2>2, <2>4, <3>2 DEF LedgerInv, ReceiptsHaveRows
    <3>4. PICK j : IncomingRow(j, txs[i].pay) /\ txs[j].state \in {"SETTLED", "ACCEPTED"}
      BY <2>2, <3>3 DEF HoldInv, PaidHolds
    <3>5. j = i
      BY <2>2, <3>4, RequestAssumption DEF LedgerInv, IncomingRows, IncomingRow
    <3> QED BY <3>4, <3>5
  <2>5. \A o \in DOMAIN ops : ops[o].row # i
    BY DEF HoldInv, HoldOps
  <2>6. ~RowSettled(i)
    BY <2>3, <2>4, <2>5, IncomingSettles
  <2>7. ~RowFails(i) /\ ~RowAccepted(i)
    BY DEF RowFails, CanFail, RowAccepted
  <2> QED BY <2>1, <2>6, <2>7 DEF RowsStep, RowStep
<1> QED BY <1>1, HoldInvHolds, PTL DEF Spec, CanceledHoldStaysCanceled

-----------------------------------------------------------------------------
(* A payment to this hub itself is made once: among the rows of an invoice *)
(* of its own at most one is pending or settled.                           *)

OwnPaidOnce ==
    \A i, j \in DOMAIN txs :
        /\ txs[i].type = "outgoing" /\ txs[i].state \in {"PENDING", "SETTLED"}
        /\ txs[j].type = "outgoing" /\ txs[j].state \in {"PENDING", "SETTLED"}
        /\ txs[i].pay = txs[j].pay /\ txs[i].pay \in Own \cap Invoices
        => i = j

CallsPayable == \A p \in DOMAIN call : call[p].pay \in Payable

LEMMA CallsPayableStep ==
    ASSUME CallsPayable, CallsStep
    PROVE  CallsPayable'
BY DEF CallsPayable, CallsStep, CallKept, CallBegun, CallCreated, CallMoved, SameCall

(* The node has sent nothing to an own request.                            *)
LEMMA OwnNotSent ==
    ASSUME TypeOK, OwnApart, SentElsewhere, OutByHash, NEW x \in Own, HashOf[x] \in DOMAIN out
    PROVE  FALSE
<1>1. out[HashOf[x]].pay \in Requests \ Own /\ HashOf[out[HashOf[x]].pay] = HashOf[x]
  BY TypeParts DEF SentElsewhere, OutByHash, NodeOK, OutPayment
<1> QED BY <1>1 DEF OwnApart

LEMMA OwnRowWasPaid ==
    ASSUME TypeOK, OwnApart, PaidInv, SentElsewhere, SelfCalls, RowsStep,
           NEW i \in DOMAIN txs, txs[i].type = "outgoing", txs[i].pay \in Own,
           txs'[i].state \in {"PENDING", "SETTLED"}
    PROVE  txs[i].state \in {"PENDING", "SETTLED"}
<1>1. CASE RowSettled(i)
  <2>1. PICK p \in DOMAIN call : call[p].pc = "settle" /\ call[p].row = i
    BY <1>1, OutgoingSettles
  <2>2. CallOK(call[p]) /\ SelfCall(call[p])
    BY TypeParts DEF LocalsOK, SelfCalls
  <2>3. call[p].pay = txs[i].pay
    BY <2>1, <2>2 DEF CallOK
  <2>4. call[p].self
    BY <2>1, <2>2, <2>3, OwnNotSent DEF CallOK, PaidInv
  <2> QED BY <2>1, <2>2, <2>4 DEF SelfCall
<1>2. CASE txs'[i] = txs[i]
  BY <1>2
<1>3. ~RowFails(i) /\ ~RowAccepted(i)
  BY DEF RowFails, RowAccepted
<1> QED BY <1>1, <1>2, <1>3 DEF RowsStep, RowStep

LEMMA OwnPaidOnceStep ==
    ASSUME TypeOK, KeepsRows, OwnApart, PaidInv, SentElsewhere, SelfCalls, OwnPaidOnce, RowsStep
    PROVE  OwnPaidOnce'
<1> DEFINE Paying(i, x) == /\ i \in DOMAIN txs /\ txs[i].type = "outgoing" /\ txs[i].pay = x
                           /\ txs[i].state \in {"PENDING", "SETTLED"}
<1>1. ASSUME NEW x \in Own \cap Invoices, NEW i \in DOMAIN txs, Paying(i, x)'
      PROVE  Paying(i, x)
  <2>1. txs[i].type = "outgoing" /\ txs[i].pay = x
    BY <1>1 DEF KeepsRows
  <2> QED BY <1>1, <2>1, OwnRowWasPaid
<1>2. ASSUME NEW x \in Own \cap Invoices, NEW i \in DOMAIN txs' \ DOMAIN txs, Paying(i, x)'
      PROVE  \A j : ~Paying(j, x)
  <2>1. ~NewInvoice(i) /\ ~NewKeysend(i)
    BY <1>2 DEF NewInvoice, NewKeysend
  <2>2. ~NewSettled(i)
    BY <1>2 DEF NewSettled, SentElsewhere
  <2>3. ~AlreadyPaid(x)
    BY <1>2, <2>1, <2>2 DEF RowsStep, NewRow, NewOutgoing
  <2> QED BY <2>3 DEF AlreadyPaid, FindByRequest, FindByHash, SameRequest
<1>3. ASSUME NEW x \in Own \cap Invoices, NEW i, NEW j, Paying(i, x)', Paying(j, x)'
      PROVE  i = j
  <2>1. CASE i \in DOMAIN txs /\ j \in DOMAIN txs
    <3>1. Paying(i, x) /\ Paying(j, x)
      BY <1>1, <1>3, <2>1
    <3> QED BY <3>1 DEF OwnPaidOnce
  <2>2. CASE i \notin DOMAIN txs /\ j \notin DOMAIN txs
    BY <1>3, <2>2 DEF RowsStep
  <2>3. ASSUME NEW k \in DOMAIN txs' \ DOMAIN txs, NEW l \in DOMAIN txs,
               Paying(k, x)', Paying(l, x)'
        PROVE  FALSE
    BY <1>1, <1>2, <2>3
  <2> QED BY <1>3, <2>1, <2>2, <2>3
<1> QED BY <1>3 DEF OwnPaidOnce

(* Settling the row of a call settles it, unless another row of the payment*)
(* is settled.                                                             *)
LEMMA SettlesItsRow ==
    ASSUME TypeOK, NEW i \in DOMAIN txs, txs[i].pay \in Invoices, NEW fee, NEW self,
           MarkTransactionSettled(i, fee, self),
           \A j \in DOMAIN txs :
               Settled(j) /\ txs[j].type = txs[i].type /\ txs[j].pay = txs[i].pay => j = i
    PROVE  txs'[i].state = "SETTLED"
<1>1. CASE FindSettled(txs, txs[i].type, txs[i].pay) # {}
  <2>1. PICK j \in FindSettled(txs, txs[i].type, txs[i].pay) : TRUE
    BY <1>1
  <2>2. /\ j \in DOMAIN txs /\ Settled(j) /\ txs[j].type = txs[i].type
        /\ txs[j].pay = txs[i].pay
    BY RequestAssumption DEF FindSettled, FindByRequest, FindByHash, SameRequest, Settled
  <2> QED BY <1>1, <2>2 DEF MarkTransactionSettled, Settled
<1>2. CASE FindSettled(txs, txs[i].type, txs[i].pay) = {}
  <2> DEFINE r == [txs[i] EXCEPT !.state = "SETTLED", !.fee = fee, !.reserve = 0, !.self = self]
  <2>1. txs' = [txs EXCEPT ![i] = r]
    BY <1>2 DEF MarkTransactionSettled, SetSettled, TypeOK
  <2>2. r.state = "SETTLED"
    BY DEF TypeOK, Row
  <2> HIDE DEF r
  <2> QED BY <2>1, <2>2
<1> QED BY <1>1, <1>2

OwnAssumption == LedgerAssumption /\ Payable \subseteq Own \cap Invoices

(* A call that pays an invoice of this hub itself and was answered with    *)
(* success leaves its own row settled, whatever other calls for the same   *)
(* invoice do (SendPaymentSync: "the payment definitely succeeded").       *)
THEOREM OwnSuccessIsRecorded ==
    ASSUME OwnAssumption
    PROVE  Spec => SuccessIsRecorded
<1>1. Init => OwnPaidOnce /\ CallsPayable
  BY NothingYet DEF OwnPaidOnce, CallsPayable
<1>2. TypeOK /\ PaidInv /\ LedgerInv /\ OwnPaidOnce /\ CallsPayable /\ [Next]_vars
      => OwnPaidOnce' /\ CallsPayable'
  BY EveryStep, OwnPaidOnceStep, CallsPayableStep DEF OwnAssumption, LedgerAssumption, LedgerInv
<1>3. TypeOK /\ PaidInv /\ LedgerInv /\ OwnPaidOnce /\ CallsPayable /\ [Next]_vars =>
        \A p \in Payers : At(p, "settle") /\ p \notin DOMAIN call' /\ crashes' = crashes =>
          txs'[call[p].row].state = "SETTLED"
  <2> SUFFICES ASSUME TypeOK, PaidInv, LedgerInv, OwnPaidOnce, CallsPayable, [Next]_vars,
                      NEW p \in Payers, At(p, "settle"), p \notin DOMAIN call', crashes' = crashes
               PROVE  txs'[call[p].row].state = "SETTLED"
    OBVIOUS
  <2>0. PICK i : i = call[p].row
    OBVIOUS
  <2>1. p \in DOMAIN call /\ call[p].pc = "settle" /\ call[p].pay \in Own \cap Invoices
    BY DEF At, CallsPayable, OwnAssumption
  <2>2. CallEnds(p)
    BY <2>1, EveryStep DEF CallsStep, OwnAssumption
  <2>3. PICK fee : MarkTransactionSettled(i, fee, call[p].self)
    BY <2>0, <2>1, <2>2 DEF CallEnds
  <2>4. CallOK(call[p]) /\ SelfCall(call[p])
    BY <2>1, TypeParts DEF LocalsOK, LedgerInv, SelfCalls
  <2>5. i \in DOMAIN txs /\ txs[i].type = "outgoing" /\ txs[i].pay = call[p].pay
    BY <2>0, <2>1, <2>4 DEF CallOK, IsRow
  <2>6. call[p].self
    BY <2>1, <2>4, OwnNotSent
    DEF CallOK, PaidInv, LedgerInv, OwnAssumption, LedgerAssumption
  <2>7. txs[i].state \in {"PENDING", "SETTLED"}
    BY <2>0, <2>1, <2>4, <2>6 DEF SelfCall
  <2>8. \A j \in DOMAIN txs :
          Settled(j) /\ txs[j].type = txs[i].type /\ txs[j].pay = txs[i].pay => j = i
    <3> SUFFICES ASSUME NEW j \in DOMAIN txs, Settled(j), txs[j].type = txs[i].type,
                        txs[j].pay = txs[i].pay
                 PROVE  j = i
      OBVIOUS
    <3>1. txs[j].state \in {"PENDING", "SETTLED"} /\ txs[j].pay \in Own \cap Invoices
      BY <2>1, <2>5 DEF Settled
    <3> QED BY <2>5, <2>7, <3>1 DEF OwnPaidOnce
  <2>9. txs[i].pay \in Invoices
    BY <2>1, <2>5
  <2>10. txs'[i].state = "SETTLED"
    BY <2>3, <2>5, <2>8, <2>9, SettlesItsRow
  <2> QED BY <2>0, <2>10
<1> QED BY <1>1, <1>2, <1>3, LedgerInvHolds, PTL DEF Spec, SuccessIsRecorded, OwnAssumption

-----------------------------------------------------------------------------
(* What the node did is told to somebody until a row has it.  In a step    *)
(* that is no crash, a sent event goes to a consumer, a consumer leaves a  *)
(* settled row, a payment that is sent is published, and a call that is    *)
(* cut off or answered is not waiting any more.                            *)

HasSettled(h) ==
    \E i \in DOMAIN txs : /\ txs[i].type = "outgoing" /\ txs[i].state = "SETTLED"
                          /\ HashOf[txs[i].pay] = h
Reported(h, reports) == \E m \in reports : m.kind = "payment_sent" /\ HashOf[m.pay] = h

EventsDelivered ==
    \A e \in events \ events' : e.kind = "payment_sent" => Reported(HashOf[e.pay], consumers')
ConsumersDelivered ==
    \A c \in consumers \ consumers' : c.kind = "payment_sent" => HasSettled(HashOf[c.pay])'
SentIsReported ==
    \A h \in DOMAIN out' : out'[h].status = "sent" =>
        \/ h \in DOMAIN out /\ out[h].status = "sent"
        \/ Reported(h, events')
NoneCutOff ==
    \A h \in DOMAIN out : out[h].status = "inflight" =>
        /\ h \in DOMAIN out'
        /\ \/ out'[h].status = "inflight"
           \/ \A p \in DOMAIN call' : ~(call'[p].pc = "waiting" /\ HashOf[call'[p].pay] = h)
Delivered == EventsDelivered /\ ConsumersDelivered /\ SentIsReported /\ NoneCutOff

LEMMA NothingDelivered ==
    ASSUME events \subseteq events', consumers \subseteq consumers', UNCHANGED out
    PROVE  Delivered
BY DEF Delivered, EventsDelivered, ConsumersDelivered, SentIsReported, NoneCutOff

LEMMA SendDelivers ==
    ASSUME TypeOK, NEW p, SendToNode(p)
    PROVE  Delivered
<1> DEFINE x == call[p].pay
           o == [status |-> "inflight", pay |-> x, fee |-> 0]
<1>1. UNCHANGED <<events, consumers>>
  BY DEF SendToNode
<1>2. CASE UNCHANGED out
  BY <1>1, <1>2, NothingDelivered
<1>3. CASE out' = [g \in DOMAIN out \cup {HashOf[x]} |-> IF g # HashOf[x] THEN out[g] ELSE o]
  <2>1. o.status = "inflight"
    OBVIOUS
  <2> HIDE DEF o
  <2>2. SentIsReported /\ NoneCutOff
    BY <1>3, <2>1 DEF SentIsReported, NoneCutOff
  <2> QED BY <1>1, <2>2 DEF Delivered, EventsDelivered, ConsumersDelivered
<1> QED BY <1>2, <1>3 DEF SendToNode

LEMMA OutsideDelivers ==
    ASSUME TypeOK, NEW x, PaidOutside(x), "payment_sent" \in Emits
    PROVE  Delivered
<1> DEFINE e == [kind |-> "payment_sent", pay |-> x, fee |-> 0]
           o == [status |-> "sent", pay |-> x, fee |-> 0]
<1>1. /\ UNCHANGED consumers /\ Emit(e) /\ HashOf[x] \notin DOMAIN out
      /\ out' = [g \in DOMAIN out \cup {HashOf[x]} |-> IF g # HashOf[x] THEN out[g] ELSE o]
  BY DEF PaidOutside
<1>2. e.kind = "payment_sent" /\ e.pay = x
  OBVIOUS
<1> HIDE DEF e, o
<1>3. e \in events' /\ events \subseteq events'
  BY <1>1, <1>2 DEF Emit
<1>4. SentIsReported /\ NoneCutOff
  BY <1>1, <1>2, <1>3 DEF SentIsReported, NoneCutOff, Reported
<1> QED BY <1>1, <1>3, <1>4 DEF Delivered, EventsDelivered, ConsumersDelivered

LEMMA ResolveDelivers ==
    ASSUME TypeOK, OutByHash, NEW h \in DOMAIN out, NEW status \in {"sent", "failed"}, NEW fee,
           ResolvePayment(h, status, fee), "payment_sent" \in Emits
    PROVE  Delivered
<1> DEFINE e == [kind |-> IF status = "sent" THEN "payment_sent" ELSE "payment_failed",
                 pay |-> out[h].pay, fee |-> fee]
<1>1. /\ UNCHANGED consumers /\ Emit(e)
      /\ out' = [out EXCEPT ![h].status = status, ![h].fee = fee]
      /\ call' = [p \in DOMAIN call |->
                  IF call[p].pc = "waiting" /\ HashOf[call[p].pay] = h
                  THEN [call[p] EXCEPT !.pc = IF status = "sent" THEN "settle" ELSE "fail"]
                  ELSE call[p]]
  BY DEF ResolvePayment
<1>2. /\ e.kind = IF status = "sent" THEN "payment_sent" ELSE "payment_failed"
      /\ HashOf[e.pay] = h
  BY DEF OutByHash
<1> HIDE DEF e
<1>3. events \subseteq events' /\ (status = "sent" => e \in events')
  BY <1>1, <1>2 DEF Emit
<1>4. DOMAIN out' = DOMAIN out /\ \A g \in DOMAIN out \ {h} : out'[g] = out[g]
  BY <1>1
<1>5. out'[h].status = status
  BY <1>1, TypeParts DEF NodeOK, OutPayment
<1>6. \A p \in DOMAIN call' : ~(call'[p].pc = "waiting" /\ HashOf[call'[p].pay] = h)
  <2> SUFFICES ASSUME NEW p \in DOMAIN call', call'[p].pc = "waiting", HashOf[call'[p].pay] = h
               PROVE  FALSE
    OBVIOUS
  <2>1. call[p] \in Call /\ p \in DOMAIN call
    BY <1>1, TypeParts DEF CallsOK
  <2>2. CASE call[p].pc = "waiting" /\ HashOf[call[p].pay] = h
    <3>1. call'[p] = [call[p] EXCEPT !.pc = IF status = "sent" THEN "settle" ELSE "fail"]
      BY <1>1, <2>1, <2>2
    <3> QED BY <2>1, <3>1 DEF Call
  <2>3. CASE ~(call[p].pc = "waiting" /\ HashOf[call[p].pay] = h)
    BY <1>1, <2>1, <2>3
  <2> QED BY <2>2, <2>3
<1>7. SentIsReported
  BY <1>2, <1>3, <1>4, <1>5 DEF SentIsReported, Reported
<1>8. NoneCutOff
  BY <1>4, <1>6 DEF NoneCutOff
<1> QED BY <1>1, <1>3, <1>7, <1>8 DEF Delivered, EventsDelivered, ConsumersDelivered

LEMMA ConsumeDelivers ==
    ASSUME TypeOK, NEW e \in events, ConsumeEvent(e)
    PROVE  Delivered
<1>1. UNCHANGED out /\ events' = events \ {e}
  BY DEF ConsumeEvent, node
<1>2. consumers \subseteq consumers'
  BY DEF ConsumeEvent, ConsumePaymentReceived, ConsumeHoldInvoiceAccepted, ConsumePaymentSent,
     ConsumePaymentFailed, Consume
<1>3. ASSUME e.kind = "payment_sent" PROVE Reported(HashOf[e.pay], consumers')
  <2>1. PICK i : Consume(e, i)
    BY <1>3 DEF ConsumeEvent, ConsumePaymentReceived, ConsumeHoldInvoiceAccepted,
       ConsumePaymentSent, ConsumePaymentFailed
  <2> DEFINE c == [kind |-> e.kind, pay |-> e.pay, fee |-> e.fee, row |-> i]
  <2>2. c \in consumers' /\ c.kind = e.kind /\ c.pay = e.pay
    BY <2>1 DEF Consume
  <2> HIDE DEF c
  <2> QED BY <1>3, <2>2 DEF Reported
<1>4. EventsDelivered
  BY <1>1, <1>3 DEF EventsDelivered
<1> QED BY <1>1, <1>2, <1>4 DEF Delivered, ConsumersDelivered, SentIsReported, NoneCutOff

LEMMA CommitDelivers ==
    ASSUME TypeOK, NEW c \in consumers, CommitEvent(c)
    PROVE  Delivered
<1>1. UNCHANGED <<events, out>> /\ consumers' = consumers \ {c}
  BY DEF CommitEvent, node
<1>2. ASSUME c.kind = "payment_sent" PROVE HasSettled(HashOf[c.pay])'
  <2>1. CASE FindSettled(txs, "outgoing", c.pay) # {} /\ UNCHANGED txs
    BY <2>1 DEF FindSettled, FindByRequest, FindByHash, HasSettled
  <2>2. CASE c.row # 0 /\ MarkTransactionSettled(c.row, c.fee, FALSE)
    <3>1. PICK i : i = c.row
      OBVIOUS
    <3>2. i \in DOMAIN txs /\ txs[i].type = "outgoing" /\ HashOf[txs[i].pay] = HashOf[c.pay]
      BY <1>2, <2>2, <3>1, TypeParts DEF LocalsOK, ConsumerHasRow, IsRow
    <3>3. CASE FindSettled(txs, txs[i].type, txs[i].pay) # {}
      <4>1. UNCHANGED txs
        BY <2>2, <3>1, <3>3 DEF MarkTransactionSettled
      <4>2. PICK j \in DOMAIN txs : /\ txs[j].type = "outgoing" /\ txs[j].state = "SETTLED"
                                    /\ HashOf[txs[j].pay] = HashOf[c.pay]
        BY <3>2, <3>3 DEF FindSettled, FindByRequest, FindByHash
      <4> QED BY <4>1, <4>2 DEF HasSettled
    <3>4. CASE FindSettled(txs, txs[i].type, txs[i].pay) = {}
      <4> DEFINE r == [txs[i] EXCEPT !.state = "SETTLED", !.fee = c.fee, !.reserve = 0, !.self = FALSE]
      <4>1. txs' = [txs EXCEPT ![i] = r]
        BY <2>2, <3>1, <3>2, <3>4 DEF MarkTransactionSettled, SetSettled, TypeOK
      <4>2. r.state = "SETTLED" /\ r.type = "outgoing" /\ r.pay = txs[i].pay
        BY <3>2 DEF TypeOK, Row
      <4> HIDE DEF r
      <4> QED BY <3>2, <4>1, <4>2 DEF HasSettled
    <3> QED BY <3>3, <3>4
  <2>3. ASSUME NEW i, c.row = 0,
               CreateSettledTransactionFromNotification(i, "outgoing", c.pay, c.fee)
        PROVE  HasSettled(HashOf[c.pay])'
    <3>1. CASE FindSettled(txs, "outgoing", c.pay) # {}
      BY <2>1, <2>3, <3>1 DEF CreateSettledTransactionFromNotification
    <3>2. CASE FindSettled(txs, "outgoing", c.pay) = {}
      <4>1. PICK r : /\ txs' = Insert(txs, i, r) /\ r.type = "outgoing"
                     /\ r.state = "SETTLED" /\ r.pay = c.pay
        BY <2>3, <3>2 DEF CreateSettledTransactionFromNotification
      <4> QED BY <4>1 DEF Insert, HasSettled
    <3> QED BY <3>1, <3>2
  <2> QED BY <1>2, <2>2, <2>3 DEF CommitEvent
<1>3. ConsumersDelivered
  BY <1>1, <1>2 DEF ConsumersDelivered
<1> QED BY <1>1, <1>3 DEF Delivered, EventsDelivered, SentIsReported, NoneCutOff

LEMMA EveryDelivery ==
    ASSUME TypeOK, OutByHash, {"payment_received", "payment_sent"} \subseteq Emits,
           [Next]_vars, UNCHANGED crashes
    PROVE  Delivered
<1>1. ASSUME NEW p, PayerStep(p) PROVE Delivered
  <2>1. CASE SendToNode(p)
    BY <2>1, SendDelivers
  <2>2. CASE ~SendToNode(p)
    <3>1. UNCHANGED <<consumers, events, out>>
      BY <1>1, <2>2 DEF PayerStep, CreateOutgoing, CreateKeysendIncoming, InterceptSelfPayment,
         SettleIncomingSelfPayment, RegisterHoldConsumer, GetInfoFails, AcceptSelfHoldPayment,
         WakeSelfHoldPayment, SettleOutgoing, FailOutgoing, node
    <3> QED BY <3>1, NothingDelivered
  <2> QED BY <2>1, <2>2
<1>2. ASSUME NEW o, OperatorStep(o) PROVE Delivered
  <2>1. UNCHANGED <<consumers, out>>
    BY <1>2 DEF OperatorStep, SettleHoldInvoice, CancelHoldInvoice, AskNode,
       CommitSettleHoldInvoice, CommitCancelHoldInvoice, node
  <2>2. events \subseteq events'
    BY <1>2 DEF OperatorStep, SettleHoldInvoice, CancelHoldInvoice, AskNode, Emit,
       CommitSettleHoldInvoice, CommitCancelHoldInvoice
  <2> QED BY <2>1, <2>2, NothingDelivered
<1>3. ASSUME NEW h \in DOMAIN out, NodeResolves(h) PROVE Delivered
  BY <1>3, ResolveDelivers DEF NodeResolves
<1>4. ASSUME NEW x, NodeReceives(x) PROVE Delivered
  <2>1. UNCHANGED <<consumers, out>>
    BY <1>4 DEF NodeReceives
  <2>2. events \subseteq events'
    BY <1>4 DEF NodeReceives, Emit
  <2> QED BY <2>1, <2>2, NothingDelivered
<1>5. CASE \/ \E x \in Own, i \in TxId : MakeInvoice(x, i)
           \/ \E p \in Payers, x \in Payable, a \in Apps \cup {NoApp} : BeginPayment(p, x, a)
           \/ \E o \in Operators, pc \in {"settle", "cancel"} : BeginHoldOperation(o, pc)
           \/ \E x \in Reachable : HoldExpires(x)
           \/ StopNode \/ StartNode
           \/ UNCHANGED vars
  <2>1. UNCHANGED <<events, consumers, out>>
    BY <1>5 DEF MakeInvoice, BeginPayment, BeginHoldOperation, HoldExpires, StopNode, StartNode,
       node, vars
  <2> QED BY <2>1, NothingDelivered
<1>6. ~Crash
  BY TypeParts DEF Crash, NodeOK
<1>7. \A i : ~CheckUnsettledTransaction(i)
  BY DEF CheckUnsettledTransaction
<1> QED BY <1>1, <1>2, <1>3, <1>4, <1>5, <1>6, <1>7, OutsideDelivers, ConsumeDelivers,
           CommitDelivers DEF Next

-----------------------------------------------------------------------------
(* Hashes are not shared and nothing crashes.                              *)

HashesUnique == \A x, y \in Requests : HashOf[x] = HashOf[y] => x = y

OutgoingRow(i, x) == i \in DOMAIN txs /\ txs[i].type = "outgoing" /\ txs[i].pay = x

(* An invoice has one pending row.                                         *)
PendingOnce ==
    \A x \in Invoices, i, j \in DOMAIN txs :
        /\ OutgoingRow(i, x) /\ txs[i].state = "PENDING"
        /\ OutgoingRow(j, x) /\ txs[j].state = "PENDING"
        => i = j

(* A payment is in flight or answered with success for one call.           *)
SendsOnce ==
    /\ \A p \in DOMAIN call : call[p].pc \in {"send", "waiting"} => ~call[p].self
    /\ \A p \in DOMAIN call : call[p].pc = "waiting" =>
         HashOf[call[p].pay] \in DOMAIN out /\ out[HashOf[call[p].pay]].status = "inflight"
    /\ \A p, q \in DOMAIN call :
         /\ call[p].pc \in {"waiting", "settle"} /\ ~call[p].self
         /\ call[q].pc \in {"waiting", "settle"} /\ ~call[q].self
         /\ call[p].pay = call[q].pay
         => p = q

(* A call about to settle its pending row is not anticipated by a row that *)
(* is settled, nor will be by a consumer of another row.                   *)
SettlesAlone ==
    \A p \in DOMAIN call :
        call[p].pc = "settle" /\ ~call[p].self /\ txs[call[p].row].state = "PENDING" =>
          /\ \A j : OutgoingRow(j, call[p].pay) => ~Settled(j)
          /\ \A c \in consumers : c.kind = "payment_sent" /\ c.pay = call[p].pay =>
               c.row = call[p].row

(* A pending row has a call that will settle it or fail it.                *)
HasCall ==
    \A i \in DOMAIN txs : txs[i].type = "outgoing" /\ txs[i].state = "PENDING" =>
        \E p \in DOMAIN call : call[p].pc # "create" /\ call[p].row = i

(* Of what was sent, a row, an event or a consumer tells.                  *)
SentIsCarried ==
    \A h \in DOMAIN out : out[h].status = "sent" =>
        HasSettled(h) \/ Reported(h, events) \/ Reported(h, consumers)

QuietInv == PendingOnce /\ SendsOnce /\ SettlesAlone /\ HasCall /\ SentIsCarried

-----------------------------------------------------------------------------

LEMMA SentIsCarriedStep ==
    ASSUME KeepsRows, Delivered, SentIsCarried
    PROVE  SentIsCarried'
<1> SUFFICES ASSUME NEW h \in DOMAIN out', out'[h].status = "sent", ~Reported(h, events')
             PROVE  HasSettled(h)' \/ Reported(h, consumers')
  BY DEF SentIsCarried, Reported
<1>1. h \in DOMAIN out /\ out[h].status = "sent"
  BY DEF Delivered, SentIsReported
<1>2. CASE HasSettled(h)
  BY <1>2 DEF HasSettled, KeepsRows, Settled
<1>3. CASE Reported(h, consumers)
  <2>1. PICK c \in consumers : c.kind = "payment_sent" /\ HashOf[c.pay] = h
    BY <1>3 DEF Reported
  <2>2. CASE c \in consumers'
    BY <2>1, <2>2 DEF Reported
  <2>3. CASE c \notin consumers'
    BY <2>1, <2>3 DEF Delivered, ConsumersDelivered
  <2> QED BY <2>2, <2>3
<1>4. CASE Reported(h, events)
  <2>1. PICK e \in events : e.kind = "payment_sent" /\ HashOf[e.pay] = h
    BY <1>4 DEF Reported
  <2>2. e \notin events'
    BY <2>1 DEF Reported
  <2> QED BY <2>1, <2>2 DEF Delivered, EventsDelivered
<1> QED BY <1>1, <1>2, <1>3, <1>4 DEF SentIsCarried

LEMMA PendingOnceStep ==
    ASSUME TypeOK, KeepsRows, RowsStep, CallsPayable, Payable \subseteq Invoices, PendingOnce
    PROVE  PendingOnce'
<1> DEFINE Pending(i, x) == OutgoingRow(i, x) /\ txs[i].state = "PENDING"
<1>1. ASSUME NEW x, NEW i \in DOMAIN txs, Pending(i, x)' PROVE Pending(i, x)
  BY <1>1, NeverPendingAgain DEF OutgoingRow, KeepsRows
<1>2. ASSUME NEW x \in Invoices, NEW i \in DOMAIN txs' \ DOMAIN txs, Pending(i, x)'
      PROVE  \A j : ~Pending(j, x)
  <2>1. ~NewInvoice(i) /\ ~NewKeysend(i) /\ ~NewSettled(i)
    BY <1>2 DEF NewInvoice, NewKeysend, NewSettled, OutgoingRow
  <2>2. ~AlreadyPaid(x)
    BY <1>2, <2>1 DEF RowsStep, NewRow, NewOutgoing, OutgoingRow
  <2> QED BY <2>2 DEF AlreadyPaid, FindByRequest, FindByHash, SameRequest, OutgoingRow
<1>3. ASSUME NEW x \in Invoices, NEW i, NEW j, Pending(i, x)', Pending(j, x)'
      PROVE  i = j
  <2>1. CASE i \in DOMAIN txs /\ j \in DOMAIN txs
    <3>1. Pending(i, x) /\ Pending(j, x)
      BY <1>1, <1>3, <2>1
    <3> QED BY <2>1, <3>1 DEF PendingOnce
  <2>2. CASE i \notin DOMAIN txs /\ j \notin DOMAIN txs
    BY <1>3, <2>2 DEF RowsStep, OutgoingRow
  <2>3. ASSUME NEW k \in DOMAIN txs' \ DOMAIN txs, NEW l \in DOMAIN txs,
               Pending(k, x)', Pending(l, x)'
        PROVE  FALSE
    BY <1>1, <1>2, <2>3
  <2> QED BY <1>3, <2>1, <2>2, <2>3 DEF OutgoingRow
<1> QED BY <1>3 DEF PendingOnce, OutgoingRow

(* What is known of a payment in flight: nobody reports it as sent.        *)
LEMMA InflightIsUnpaid ==
    ASSUME TypeOK, PaidInv, LedgerInv, HashesUnique,
           NEW x \in Requests \ Own, HashOf[x] \in DOMAIN out, out[HashOf[x]].status = "inflight"
    PROVE  /\ ~Paid(x)
           /\ \A j : OutgoingRow(j, x) => ~Settled(j)
           /\ \A m \in events \cup consumers : m.kind = "payment_sent" => m.pay # x
           /\ \A p \in DOMAIN call : call[p].pc = "settle" => call[p].pay # x
<1>1. ~Sent(x)
  BY DEF Sent
<1>2. ~ReceivedHere(x)
  <2> SUFFICES ASSUME NEW i \in DOMAIN txs, txs[i].type = "incoming", HashOf[txs[i].pay] = HashOf[x]
               PROVE  FALSE
    BY DEF ReceivedHere, FindByHash
  <2>1. txs[i].pay \in Own /\ txs[i].pay \in Requests
    BY TypeParts DEF LedgerInv, IncomingRows, TableOK, Row
  <2> QED BY <2>1 DEF HashesUnique
<1> QED BY <1>1, <1>2 DEF Paid, PaidInv, SettledMeansPaid, SuccessIsTrue, OutgoingRow

(* A call that is waiting or about to settle, and does not pay this hub    *)
(* itself, has a payment of its own at the node.                           *)
Sends(p) == call[p].pc \in {"waiting", "settle"} /\ ~call[p].self

LEMMA SendsToOthers ==
    ASSUME TypeOK, PaidInv, LedgerInv, OwnApart, SendsOnce, NEW p \in DOMAIN call, Sends(p)
    PROVE  LET h == HashOf[call[p].pay]
           IN  /\ call[p].pay \in Requests \ Own /\ h \in DOMAIN out
               /\ out[h].status = IF call[p].pc = "waiting" THEN "inflight" ELSE "sent"
<1>1. call[p].pay \in Requests /\ CallOK(call[p])
  BY CallsTyped, TypeParts DEF Call, LocalsOK
<1>2. HashOf[call[p].pay] \in DOMAIN out
  BY <1>1 DEF Sends, SendsOnce, CallOK
<1>3. call[p].pay \notin Own
  BY <1>2, OwnNotSent DEF PaidInv, LedgerInv
<1> QED BY <1>1, <1>2, <1>3 DEF Sends, SendsOnce, CallOK

(* Where a call that sends comes from.                                     *)
LEMMA SendsBefore ==
    ASSUME TypeOK, SendsOnce, CallsStep, NEW p \in DOMAIN call', Sends(p)'
    PROVE  /\ SameCall(p) /\ ~call[p].self
           /\ \/ Sends(p) /\ (call[p].pc = "settle" => call'[p].pc = "settle")
              \/ /\ Moves(p, "send", "waiting")
                 /\ \A q \in DOMAIN call' \ {p} : CallKept(q)
                 /\ HashOf[call[p].pay] \in DOMAIN out =>
                      out[HashOf[call[p].pay]].status = "failed"
                 /\ HashOf[call[p].pay] \in DOMAIN out'
                 /\ out'[HashOf[call[p].pay]].status = "inflight"
<1>1. CallKept(p) \/ CallMoved(p)
  BY DEF CallsStep, CallBegun, CallCreated, Sends
<1>2. CASE CallKept(p)
  BY <1>2 DEF CallKept, SameCall, Sends
<1>3. CASE CallMoved(p)
  <2>1. SameCall(p) /\ p \in DOMAIN call /\ call[p].self = call'[p].self
    BY <1>3 DEF CallMoved, SameCall
  <2>2. CallOK(call[p])
    BY <2>1, TypeParts DEF LocalsOK
  <2> QED BY <1>3, <2>1, <2>2 DEF CallMoved, Moves, Sends, CallOK, SelfPcs
<1> QED BY <1>1, <1>2, <1>3

LEMMA SendsOnceStep ==
    ASSUME TypeOK, TypeOK', PaidInv, LedgerInv, OwnApart, SendsOnce, CallsStep, Delivered
    PROVE  SendsOnce'
<1>1. ASSUME NEW p \in DOMAIN call', call'[p].pc \in {"send", "waiting"}
      PROVE  ~call'[p].self
  <2>1. CASE CallKept(p)
    BY <1>1, <2>1 DEF CallKept, SendsOnce
  <2>2. CASE CallBegun(p) \/ CallCreated(p)
    BY <1>1, <2>2 DEF CallBegun, CallCreated
  <2>3. CASE CallMoved(p)
    BY <1>1, <2>3 DEF CallMoved, Moves, SameCall, SendsOnce
  <2> QED BY <2>1, <2>2, <2>3 DEF CallsStep
<1>2. ASSUME NEW p \in DOMAIN call', call'[p].pc = "waiting"
      PROVE  HashOf[call'[p].pay] \in DOMAIN out' /\ out'[HashOf[call'[p].pay]].status = "inflight"
  <2>1. Sends(p)'
    BY <1>1, <1>2 DEF Sends
  <2>2. SameCall(p)
    BY <2>1, SendsBefore
  <2>3. CASE Moves(p, "send", "waiting")
    BY <2>1, <2>2, <2>3, SendsBefore DEF SameCall, Moves, Sends
  <2>4. CASE ~Moves(p, "send", "waiting")
    <3>1. p \in DOMAIN call /\ call[p].pc = "waiting" /\ call'[p].pay = call[p].pay
      BY <1>2, <2>1, <2>2, <2>4, SendsBefore DEF SameCall, Sends
    <3>2. HashOf[call[p].pay] \in DOMAIN out /\ out[HashOf[call[p].pay]].status = "inflight"
      BY <3>1 DEF SendsOnce
    <3> QED BY <1>2, <3>1, <3>2 DEF Delivered, NoneCutOff
  <2> QED BY <2>3, <2>4
<1>3. ASSUME NEW p \in DOMAIN call', NEW q \in DOMAIN call', Sends(p)', Sends(q)',
             call'[p].pay = call'[q].pay, Moves(p, "send", "waiting")
      PROVE  p = q
  <2> SUFFICES ASSUME p # q PROVE FALSE
    OBVIOUS
  <2>1. /\ SameCall(p) /\ CallKept(q)
        /\ HashOf[call[p].pay] \in DOMAIN out => out[HashOf[call[p].pay]].status = "failed"
    BY <1>3, SendsBefore DEF Moves, Sends
  <2>2. q \in DOMAIN call /\ Sends(q) /\ call[q].pay = call[p].pay
    BY <1>3, <2>1 DEF CallKept, SameCall, Sends
  <2> QED BY <2>1, <2>2, SendsToOthers
<1>4. ASSUME NEW p \in DOMAIN call', NEW q \in DOMAIN call', Sends(p)', Sends(q)',
             call'[p].pay = call'[q].pay
      PROVE  p = q
  <2>1. CASE Moves(p, "send", "waiting")
    BY <1>3, <1>4, <2>1
  <2>2. CASE Moves(q, "send", "waiting")
    BY <1>3, <1>4, <2>2
  <2>3. CASE ~Moves(p, "send", "waiting") /\ ~Moves(q, "send", "waiting")
    <3>1. SameCall(p) /\ SameCall(q) /\ Sends(p) /\ Sends(q)
      BY <1>4, <2>3, SendsBefore
    <3> QED BY <1>4, <3>1 DEF SameCall, Sends, SendsOnce
  <2> QED BY <2>1, <2>2, <2>3
<1> QED BY <1>1, <1>2, <1>4 DEF SendsOnce, Sends

(* What settles a row of the invoice that a call has paid: the call itself.*)
Alone(p, x) ==
    /\ \A j : OutgoingRow(j, x) => ~Settled(j)
    /\ \A c \in consumers : c.kind = "payment_sent" /\ c.pay = x => c.row = call[p].row
    /\ \A q \in DOMAIN call : call[q].pc = "settle" /\ call[q].pay = x => q = p

LEMMA AloneBefore ==
    ASSUME TypeOK, PaidInv, LedgerInv, HashesUnique, SendsOnce, SettlesAlone,
           NEW p \in DOMAIN call, Sends(p), txs[call[p].row].state = "PENDING"
    PROVE  Alone(p, call[p].pay)
<1>0. OwnApart
  BY RequestAssumption DEF HashesUnique, OwnApart
<1>1. PICK x : x = call[p].pay
  OBVIOUS
<1>2. x \in Requests \ Own /\ HashOf[x] \in DOMAIN out
      /\ out[HashOf[x]].status = IF call[p].pc = "waiting" THEN "inflight" ELSE "sent"
  BY <1>0, <1>1, SendsToOthers
<1>3. CASE call[p].pc = "waiting"
  <2>1. out[HashOf[x]].status = "inflight"
    BY <1>2, <1>3
  <2> QED BY <1>1, <1>2, <2>1, InflightIsUnpaid DEF Alone
<1>4. CASE call[p].pc = "settle"
  <2>1. ASSUME NEW q \in DOMAIN call, call[q].pc = "settle", call[q].pay = x PROVE q = p
    <3>1. ~call[q].self
      BY <1>2, <2>1 DEF LedgerInv, SelfCalls, SelfCall
    <3> QED BY <1>1, <1>4, <2>1, <3>1 DEF Sends, SendsOnce
  <2> QED BY <1>1, <1>4, <2>1 DEF SettlesAlone, Sends, Alone
<1> QED BY <1>3, <1>4 DEF Sends

(* A pending row of a call that has paid is settled by that call or stays. *)
LEMMA AloneKept ==
    ASSUME TypeOK, TypeOK', KeepsRows, PaidInv, LedgerInv, HashesUnique, PendingOnce,
           RowsStep, CallsStep, ConsumersStep,
           NEW p \in DOMAIN call, Sends(p), p \in DOMAIN call', Sends(p)', SameCall(p),
           NEW i \in DOMAIN txs, i = call[p].row, txs'[i].state = "PENDING",
           NEW x \in Invoices \ Own, x = call[p].pay, Alone(p, x)
    PROVE  /\ \A j : OutgoingRow(j, x)' => txs'[j].state # "SETTLED"
           /\ \A c \in consumers' : c.kind = "payment_sent" /\ c.pay = x => c.row = i
<1>1. OutgoingRow(i, x) /\ txs[i].state = "PENDING" /\ x \in Requests
  <2>1. CallOK(call[p]) /\ call[p].pay \in Requests
    BY TypeParts, CallsTyped DEF LocalsOK, Call
  <2>2. txs[i].state = "PENDING"
    BY NeverPendingAgain
  <2> QED BY <2>1, <2>2 DEF CallOK, IsRow, OutgoingRow, Sends
<1>2. ASSUME NEW j, OutgoingRow(j, x)', txs'[j].state = "SETTLED" PROVE FALSE
  <2>1. CASE j \notin DOMAIN txs
    <3>1. NewSettled(j)
      BY <1>2, <2>1 DEF RowsStep, NewRow, NewInvoice, NewOutgoing, NewKeysend, OutgoingRow
    <3>2. PICK c \in consumers : c.kind # "payment_failed" /\ c.row = 0 /\ c.pay = x
                                 /\ c.kind = "payment_sent"
      BY <1>2, <3>1 DEF NewSettled, OutgoingRow
    <3>3. c.row = i
      BY <3>2 DEF Alone
    <3> QED BY <3>2, <3>3, TxIdAssumption, TypeParts DEF TableOK
  <2>2. CASE j \in DOMAIN txs
    <3>1. txs[j].type = "outgoing" /\ txs[j].pay = x
      BY <1>2, <2>2 DEF OutgoingRow, KeepsRows
    <3>2. ~Settled(j)
      BY <2>2, <3>1 DEF Alone, OutgoingRow
    <3>3. RowSettled(j)
      BY <1>2, <2>2, <3>2 DEF RowsStep, RowStep, RowFails, RowAccepted, Settled
    <3>4. OwnApart
      BY RequestAssumption DEF HashesUnique, OwnApart
    <3>5. j # i
      BY <1>2
    <3>6. ASSUME NEW q \in DOMAIN call, call[q].pc = "settle", call[q].row = j PROVE FALSE
      <4>1. call[q].pay = x
        BY <3>1, <3>6, TypeParts DEF LocalsOK, CallOK
      <4> QED BY <3>5, <3>6, <4>1 DEF Alone
    <3>7. ASSUME NEW c \in consumers, c.kind = "payment_sent", c.row = j PROVE FALSE
      <4>1. HashOf[c.pay] = HashOf[x] /\ c.pay \in Requests
        BY <2>2, <3>1, <3>7, TypeParts, TxIdAssumption
        DEF TableOK, LocalsOK, ConsumerHasRow, IsRow, QueuesOK, Consumer
      <4>2. c.pay = x
        BY <1>1, <4>1 DEF HashesUnique
      <4> QED BY <3>5, <3>7, <4>2 DEF Alone
    <3> QED BY <2>2, <3>1, <3>3, <3>4, <3>6, <3>7, OutgoingSettles DEF LedgerInv
  <2> QED BY <2>1, <2>2
<1>3. ASSUME NEW c \in consumers', c.kind = "payment_sent", c.pay = x PROVE c.row = i
  <2>1. CASE c \in consumers
    BY <1>3, <2>1 DEF Alone
  <2>2. CASE c \notin consumers
    <3>1. i \in FindByHash(txs, "outgoing", {"PENDING"}, x)
      BY <1>1 DEF FindByHash, OutgoingRow
    <3>2. c.row \in FindByHash(txs, "outgoing", {"PENDING"}, x)
      BY <1>3, <2>2, <3>1 DEF ConsumersStep
    <3>3. PICK j : j = c.row
      OBVIOUS
    <3>4. /\ j \in DOMAIN txs /\ txs[j].type = "outgoing" /\ txs[j].state = "PENDING"
          /\ HashOf[txs[j].pay] = HashOf[x] /\ txs[j].pay \in Requests
      BY <3>2, <3>3, TypeParts DEF FindByHash, TableOK, Row
    <3>5. OutgoingRow(j, x)
      BY <1>1, <3>4 DEF OutgoingRow, HashesUnique
    <3> QED BY <1>1, <3>3, <3>4, <3>5 DEF PendingOnce
  <2> QED BY <2>1, <2>2
<1> QED BY <1>2, <1>3

LEMMA SettlesAloneStep ==
    ASSUME TypeOK, TypeOK', KeepsRows, PaidInv, LedgerInv, HashesUnique, PendingOnce,
           SendsOnce, SettlesAlone, CallsPayable, Payable \subseteq Invoices,
           RowsStep, CallsStep, ConsumersStep
    PROVE  SettlesAlone'
<1> SUFFICES ASSUME NEW p \in DOMAIN call', call'[p].pc = "settle", ~call'[p].self,
                    NEW i, i = call'[p].row, txs'[i].state = "PENDING",
                    NEW x, x = call'[p].pay
             PROVE  /\ \A j : OutgoingRow(j, x)' => txs'[j].state # "SETTLED"
                    /\ \A c \in consumers' : c.kind = "payment_sent" /\ c.pay = x => c.row = i
  BY DEF SettlesAlone, OutgoingRow, Settled
<1>1. Sends(p)' /\ SameCall(p) /\ p \in DOMAIN call /\ Sends(p)
  BY SendsBefore DEF Sends, SameCall, Moves
<1>2. CallOK(call[p]) /\ call[p].row = i /\ call[p].pay = x
  BY <1>1, TypeParts DEF LocalsOK, SameCall
<1>3. i \in DOMAIN txs
  BY <1>1, <1>2 DEF CallOK, IsRow, Sends
<1>4. txs[i].state = "PENDING"
  BY <1>3, NeverPendingAgain
<1>5. Alone(p, x)
  BY <1>1, <1>2, <1>4, AloneBefore
<1>6. x \in Invoices \ Own
  <2>1. OwnApart
    BY RequestAssumption DEF HashesUnique, OwnApart
  <2> QED BY <1>1, <1>2, <2>1, SendsToOthers DEF CallsPayable
<1> QED BY <1>1, <1>2, <1>3, <1>5, <1>6, AloneKept

(* A call ends only with its row settled or failed.                        *)
LEMMA HasCallStep ==
    ASSUME TypeOK, KeepsRows, PaidInv, LedgerInv, HashesUnique, SendsOnce, SettlesAlone,
           OwnPaidOnce, CallsPayable, Payable \subseteq Invoices, HasCall,
           RowsStep, CallsStep, UNCHANGED crashes
    PROVE  HasCall'
<1> SUFFICES ASSUME NEW i \in DOMAIN txs', txs'[i].type = "outgoing", txs'[i].state = "PENDING"
             PROVE  \E p \in DOMAIN call' : call'[p].pc # "create" /\ call'[p].row = i
  BY DEF HasCall
<1>1. CASE i \notin DOMAIN txs
  <2>1. NewOutgoing(i)
    BY <1>1 DEF RowsStep, NewRow, NewInvoice, NewKeysend, NewSettled
  <2> QED BY <2>1 DEF NewOutgoing
<1>2. CASE i \in DOMAIN txs
  <2>1. txs[i].type = "outgoing" /\ txs[i].state = "PENDING"
    BY <1>2, NeverPendingAgain DEF KeepsRows
  <2>2. PICK p \in DOMAIN call : call[p].pc # "create" /\ call[p].row = i
    BY <1>2, <2>1 DEF HasCall
  <2>3. CASE p \in DOMAIN call'
    <3>1. CallKept(p) \/ CallMoved(p)
      BY <2>2, <2>3 DEF CallsStep, CallBegun, CallCreated
    <3> QED BY <2>2, <2>3, <3>1 DEF CallKept, CallMoved, SameCall, Moves
  <2>4. CASE p \notin DOMAIN call'
    <3>1. CallEnds(p)
      BY <2>4 DEF CallsStep
    <3>2. ASSUME MarkPaymentFailed(i) PROVE FALSE
      <4>1. CanFail(i) /\ txs' = [txs EXCEPT ![i].state = "FAILED", ![i].reserve = 0]
        BY <2>1, <3>2 DEF MarkPaymentFailed, CanFail
      <4> QED BY <1>2, <4>1, TypeParts DEF TableOK, Row
    <3>3. ASSUME NEW fee, NEW self, MarkTransactionSettled(i, fee, self), call[p].pc = "settle"
          PROVE  FALSE
      <4>1. call[p].pay = txs[i].pay /\ call[p].pay \in Invoices /\ SelfCall(call[p])
        BY <2>2, TypeParts DEF LocalsOK, CallOK, CallsPayable, LedgerInv, SelfCalls
      <4>2. \A j \in DOMAIN txs :
              Settled(j) /\ txs[j].type = txs[i].type /\ txs[j].pay = txs[i].pay => j = i
        <5>1. CASE call[p].self
          <6>1. txs[i].pay \in Own \cap Invoices
            BY <4>1, <5>1 DEF SelfCall
          <6> QED BY <1>2, <2>1, <6>1 DEF OwnPaidOnce, Settled
        <5>2. CASE ~call[p].self
          BY <2>1, <2>2, <3>3, <4>1, <5>2 DEF SettlesAlone, OutgoingRow
        <5> QED BY <5>1, <5>2
      <4> QED BY <1>2, <3>3, <4>1, <4>2, SettlesItsRow
    <3> QED BY <2>2, <3>1, <3>2, <3>3 DEF CallEnds
  <2> QED BY <2>3, <2>4
<1> QED BY <1>1, <1>2

-----------------------------------------------------------------------------

QuietAssumption ==
    /\ HashesUnique /\ Payable \subseteq Invoices /\ MaxCrashes = 0
    /\ {"payment_received", "payment_sent"} \subseteq Emits

QuietParts == PaidInv /\ LedgerInv /\ OwnPaidOnce /\ CallsPayable /\ QuietInv

LEMMA QuietInvStep ==
    ASSUME QuietAssumption, TypeOK, QuietParts, [Next]_vars
    PROVE  QuietParts'
<1>1. LedgerAssumption /\ OwnApart
  BY RequestAssumption DEF QuietAssumption, HashesUnique, LedgerAssumption, OwnApart
<1>2. /\ TypeOK' /\ KeepsRows /\ PaidInv' /\ LedgerInv'
      /\ RowsStep /\ CallsStep /\ ConsumersStep
  BY <1>1, EveryStep, LedgerInvStep DEF QuietParts, NodeStep
<1>3. UNCHANGED crashes
  BY <1>2, TypeParts DEF QuietAssumption, CallsStep, Crashed, NodeOK
<1>4. Delivered
  BY <1>3, EveryDelivery DEF QuietAssumption, QuietParts, PaidInv
<1>5. OwnPaidOnce' /\ CallsPayable'
  BY <1>1, <1>2, OwnPaidOnceStep, CallsPayableStep DEF QuietParts, LedgerInv
<1>6. PendingOnce' /\ SentIsCarried' /\ SendsOnce'
  BY <1>1, <1>2, <1>4, PendingOnceStep, SentIsCarriedStep, SendsOnceStep
  DEF QuietParts, QuietInv, QuietAssumption
<1>7. SettlesAlone' /\ HasCall'
  BY <1>2, <1>3, SettlesAloneStep, HasCallStep DEF QuietParts, QuietInv, QuietAssumption
<1> QED BY <1>2, <1>5, <1>6, <1>7 DEF QuietParts, QuietInv

(* With nothing left to do, what the node sent is settled in the table and *)
(* nothing is pending: in a hub that lives, however often the node is      *)
(* stopped, an invoice is retried and the answer of a call is overtaken by *)
(* the event (SendPaymentSync, ConsumeEvent).                              *)
THEOREM QuietTableAgrees ==
    ASSUME QuietAssumption
    PROVE  Spec => []QuietTableAgreesWithNode
<1>1. Init => QuietParts
  BY NothingYet DEF QuietParts, PaidInv, SettledMeansPaid, SuccessIsTrue, OutByHash, LedgerInv,
     SentElsewhere, IncomingRows, ReceiptsHaveRows, SelfCalls, OpsOnHolds, OwnPaidOnce,
     CallsPayable, QuietInv, PendingOnce, SendsOnce, SettlesAlone, HasCall, SentIsCarried
<1>2. TypeOK /\ QuietParts /\ [Next]_vars => QuietParts'
  BY QuietInvStep
<1>3. QuietParts => QuietTableAgreesWithNode
  <2> SUFFICES ASSUME QuietParts, Quiet PROVE QuietTableAgreesWithNode
    BY DEF QuietTableAgreesWithNode
  <2>1. \A h \in DOMAIN out : out[h].status = "sent" => HasSettled(h) /\ HashOf[out[h].pay] = h
    BY DEF QuietParts, QuietInv, SentIsCarried, Quiet, Reported, PaidInv, OutByHash
  <2>2. \A i \in DOMAIN txs : ~(txs[i].type = "outgoing" /\ txs[i].state = "PENDING")
    BY DEF QuietParts, QuietInv, HasCall, Quiet
  <2> QED BY <2>1, <2>2 DEF QuietTableAgreesWithNode, HasSettled, FindByHash
<1> QED BY <1>1, <1>2, <1>3, TypeCorrect, PTL DEF Spec
=============================================================================
