------------------------- MODULE TransactionsProofs -------------------------
(***************************************************************************)
(* Theorems about Transactions, for every value of its constants: what is  *)
(* final, what settles once, what a settled payment rests on and what is   *)
(* published.                                                              *)
(***************************************************************************)
EXTENDS Transactions, TLAPS, FiniteSetTheorems

USE TxIdAssumption, RequestAssumption, AppAssumption, EmitsAssumption,
    OutsideAssumption, BoundsAssumption

-----------------------------------------------------------------------------
(* Lemmas about the operators on the table.                                *)

LEMMA FeeReserveType ==
    ASSUME NEW amount \in Nat
    PROVE  CalculateFeeReserveMsat(amount) \in Nat
BY DEF CalculateFeeReserveMsat

(* What every step does to the table: rows are neither removed nor turned  *)
(* into rows of another type or payment, and a settled row is final.       *)
KeepsRows ==
    \A i \in DOMAIN txs :
        /\ i \in DOMAIN txs'
        /\ txs'[i].type = txs[i].type
        /\ txs'[i].pay = txs[i].pay
        /\ Settled(i) => txs'[i] = txs[i]

NewlySettled(i) ==
    /\ i \in DOMAIN txs' /\ txs'[i].state = "SETTLED"
    /\ ~(i \in DOMAIN txs /\ Settled(i))

(* At most one row becomes settled, and only if its payment is not.        *)
SettlesOnce ==
    /\ \A i : NewlySettled(i) => FindSettled(txs, txs'[i].type, txs'[i].pay) = {}
    /\ \A i, j : NewlySettled(i) /\ NewlySettled(j) => i = j

TableStep == KeepsRows /\ SettlesOnce

TableOK == DOMAIN txs \subseteq TxId /\ txs \in [DOMAIN txs -> Row]
LogOK == announced \in [Types \X Requests -> Nat] /\ revived \subseteq TxId
                                                  /\ wakes \subseteq Wake

(* A step that settles no row settles nothing twice.                       *)
LEMMA NoneSettled ==
    ASSUME \A i : ~NewlySettled(i)
    PROVE  SettlesOnce
BY DEF SettlesOnce

LEMMA StutterTable == ASSUME TableOK, UNCHANGED txs PROVE TableStep /\ TableOK'
BY NoneSettled DEF TableStep, KeepsRows, NewlySettled, Settled, TableOK

LEMMA InsertStep ==
    ASSUME TableOK, NEW i, IsNextId(txs, i), NEW r \in Row,
           r.state = "SETTLED" => FindSettled(txs, r.type, r.pay) = {},
           txs' = Insert(txs, i, r)
    PROVE  TableStep /\ TableOK' /\ i \in DOMAIN txs' /\ txs'[i] = r
<1>1. /\ i \in TxId /\ i \notin DOMAIN txs
      /\ txs' = [j \in DOMAIN txs \cup {i} |-> IF j = i THEN r ELSE txs[j]]
  BY DEF IsNextId, Insert
<1>2. DOMAIN txs' = DOMAIN txs \cup {i} /\ txs'[i] = r
      /\ \A j \in DOMAIN txs : txs'[j] = txs[j]
  BY <1>1
<1>3. TableOK'
  BY <1>1 DEF TableOK
<1>4. KeepsRows
  BY <1>2 DEF KeepsRows
<1>5. \A j : NewlySettled(j) => j = i /\ r.state = "SETTLED"
  BY <1>2 DEF NewlySettled, Settled
<1>6. SettlesOnce
  BY <1>2, <1>5 DEF SettlesOnce
<1> QED BY <1>2, <1>3, <1>4, <1>6 DEF TableStep

(* A step that changes one row only.                                       *)
LEMMA UpdateStep ==
    ASSUME TableOK, NEW i \in DOMAIN txs, NEW r \in Row, ~Settled(i),
           r.type = txs[i].type, r.pay = txs[i].pay,
           r.state = "SETTLED" => FindSettled(txs, r.type, r.pay) = {},
           txs' = [txs EXCEPT ![i] = r]
    PROVE  TableStep /\ TableOK'
<1>1. /\ DOMAIN txs' = DOMAIN txs /\ txs'[i] = r
      /\ \A j \in DOMAIN txs \ {i} : txs'[j] = txs[j]
  BY DEF TableOK
<1>2. TableOK'
  BY DEF TableOK
<1>3. KeepsRows
  BY <1>1 DEF KeepsRows
<1>4. \A j : NewlySettled(j) => j = i /\ r.state = "SETTLED"
  BY <1>1 DEF NewlySettled, Settled
<1>5. SettlesOnce
  BY <1>1, <1>4 DEF SettlesOnce
<1> QED BY <1>2, <1>3, <1>5 DEF TableStep

LEMMA CallsTyped ==
    ASSUME TypeOK, NEW p \in DOMAIN call
    PROVE  p \in Payers /\ call[p] \in Call
BY DEF TypeOK

LEMMA NotifyType ==
    ASSUME TypeOK, NEW x, NEW kind \in {"settled", "canceled"}, Notify(x, kind)
    PROVE  wakes' \subseteq Wake
BY DEF TypeOK, Notify, Waiters, Wake

LEMMA AnnounceType ==
    ASSUME TypeOK, NEW type \in Types, NEW x \in Requests, Announce(type, x)
    PROVE  announced' \in [Types \X Requests -> Nat] /\ wakes' \subseteq Wake
<1>1. announced' \in [Types \X Requests -> Nat]
  BY DEF TypeOK, Announce
<1>2. wakes' \subseteq Wake
  BY NotifyType DEF TypeOK, Announce
<1> QED BY <1>1, <1>2

LEMMA SetSettledStep ==
    ASSUME TypeOK, NEW i \in DOMAIN txs, NEW fee \in Nat, NEW self \in BOOLEAN,
           SetSettled(i, fee, self), ~Settled(i),
           FindSettled(txs, txs[i].type, txs[i].pay) = {}
    PROVE  TableStep /\ TableOK' /\ LogOK'
<1> DEFINE r == [txs[i] EXCEPT !.state = "SETTLED", !.fee = fee, !.reserve = 0, !.self = self]
<1>1. txs[i] \in Row /\ i \in TxId /\ TableOK
  BY DEF TypeOK, TableOK
<1>2. r \in Row /\ r.type = txs[i].type /\ r.pay = txs[i].pay
  BY <1>1 DEF Row, States
<1>3. txs' = [txs EXCEPT ![i] = r]
  BY <1>1 DEF SetSettled, TableOK
<1> HIDE DEF r
<1>4. TableStep /\ TableOK'
  BY <1>1, <1>2, <1>3, UpdateStep
<1>5. revived' \subseteq TxId
  BY <1>1 DEF TypeOK, SetSettled
<1>6. announced' \in [Types \X Requests -> Nat] /\ wakes' \subseteq Wake
  BY <1>1, AnnounceType DEF SetSettled, Row
<1> QED BY <1>4, <1>5, <1>6 DEF LogOK

(* A settled row is found by its own lookup.                               *)
LEMMA SettledIsFound ==
    ASSUME TypeOK, NEW i \in DOMAIN txs, Settled(i)
    PROVE  i \in FindSettled(txs, txs[i].type, txs[i].pay)
BY DEF TypeOK, FindSettled, FindByRequest, FindByHash, SameRequest, Settled

LEMMA MarkSettledStep ==
    ASSUME TypeOK, NEW i \in DOMAIN txs, NEW fee \in Nat, NEW self \in BOOLEAN,
           MarkTransactionSettled(i, fee, self)
    PROVE  TableStep /\ TableOK' /\ LogOK'
<1>1. CASE FindSettled(txs, txs[i].type, txs[i].pay) # {}
  <2>1. UNCHANGED <<txs, announced, revived, wakes>>
    BY <1>1 DEF MarkTransactionSettled
  <2> QED BY <2>1, StutterTable DEF TypeOK, TableOK, LogOK
<1>2. CASE FindSettled(txs, txs[i].type, txs[i].pay) = {}
  BY <1>2, SettledIsFound, SetSettledStep DEF MarkTransactionSettled
<1> QED BY <1>1, <1>2

LEMMA CreateSettledStep ==
    ASSUME TypeOK, NEW i, NEW type \in Types, NEW x \in Requests, NEW fee \in Nat,
           CreateSettledTransactionFromNotification(i, type, x, fee)
    PROVE  TableStep /\ TableOK' /\ LogOK'
<1>1. CASE FindSettled(txs, type, x) # {}
  <2>1. UNCHANGED <<txs, announced, revived, wakes>>
    BY <1>1 DEF CreateSettledTransactionFromNotification
  <2> QED BY <2>1, StutterTable DEF TypeOK, TableOK, LogOK
<1>2. CASE FindSettled(txs, type, x) = {}
  <2> DEFINE r == [type |-> type, state |-> "SETTLED", pay |-> x,
                   app |-> IF type = "incoming" /\ x \in Keysends \cap Own
                           THEN Payee[x] ELSE NoApp,
                   fee |-> fee, reserve |-> 0, self |-> FALSE]
  <2>1. r \in Row /\ r.type = type /\ r.pay = x
    BY DEF Row, States, Types
  <2>2. IsNextId(txs, i) /\ txs' = Insert(txs, i, r)
    BY <1>2 DEF CreateSettledTransactionFromNotification
  <2> HIDE DEF r
  <2>3. TableStep /\ TableOK'
    BY <1>2, <2>1, <2>2, InsertStep DEF TypeOK, TableOK
  <2>4. announced' \in [Types \X Requests -> Nat] /\ wakes' \subseteq Wake
    BY <1>2, AnnounceType DEF CreateSettledTransactionFromNotification
  <2> QED BY <1>2, <2>3, <2>4 DEF CreateSettledTransactionFromNotification, LogOK, TypeOK
<1> QED BY <1>1, <1>2

LEMMA MarkFailedStep ==
    ASSUME TypeOK, NEW i \in DOMAIN txs, MarkPaymentFailed(i)
    PROVE  TableStep /\ TableOK'
<1> DEFINE r == [txs[i] EXCEPT !.state = "FAILED", !.reserve = 0]
<1>1. txs[i] \in Row /\ TableOK
  BY DEF TypeOK, TableOK
<1>2. CASE CanFail(i)
  <2>1. r \in Row /\ r.type = txs[i].type /\ r.pay = txs[i].pay /\ r.state = "FAILED"
    BY <1>1 DEF Row, States
  <2>2. txs' = [txs EXCEPT ![i] = r]
    BY <1>1, <1>2 DEF MarkPaymentFailed, TableOK
  <2>3. ~Settled(i)
    BY <1>2 DEF CanFail, Settled
  <2> HIDE DEF r
  <2> QED BY <1>1, <2>1, <2>2, <2>3, UpdateStep
<1>3. CASE ~CanFail(i)
  BY <1>1, <1>3, StutterTable DEF MarkPaymentFailed
<1> QED BY <1>2, <1>3

LEMMA MarkAcceptedStep ==
    ASSUME TypeOK, NEW x, NEW self \in BOOLEAN, MarkHoldInvoiceAccepted(x, self)
    PROVE  TableStep /\ TableOK'
<1> DEFINE found == FindByRequest(txs, "incoming", {"PENDING"}, x)
<1>1. CASE found = {}
  BY <1>1, StutterTable DEF TypeOK, TableOK, MarkHoldInvoiceAccepted
<1>2. CASE found # {}
  <2>1. PICK i \in found : txs' = [txs EXCEPT ![i].state = "ACCEPTED", ![i].self = self]
    BY <1>2 DEF MarkHoldInvoiceAccepted
  <2>2. i \in DOMAIN txs /\ ~Settled(i)
    BY DEF FindByRequest, FindByHash, Settled
  <2> DEFINE r == [txs[i] EXCEPT !.state = "ACCEPTED", !.self = self]
  <2>3. txs[i] \in Row /\ TableOK
    BY <2>2 DEF TypeOK, TableOK
  <2>4. txs' = [txs EXCEPT ![i] = r]
    BY <2>1, <2>2
  <2>5. r \in Row /\ r.type = txs[i].type /\ r.pay = txs[i].pay /\ r.state = "ACCEPTED"
    BY <2>3 DEF Row, States
  <2> HIDE DEF r, found
  <2> QED BY <2>2, <2>3, <2>4, <2>5, UpdateStep
<1> QED BY <1>1, <1>2

-----------------------------------------------------------------------------
(* Type correctness.  What a step must show, part by part.                 *)

CallsOK == DOMAIN call \subseteq Payers /\ call \in [DOMAIN call -> Call]
OpsOK == DOMAIN ops \subseteq Operators /\ ops \in [DOMAIN ops -> Op]
NodeOK == /\ running \in BOOLEAN /\ stops \in Nat /\ crashes \in Nat
          /\ DOMAIN out \subseteq Hashes /\ out \in [DOMAIN out -> OutPayment]
          /\ htlc \in [Own -> HtlcStates]
QueuesOK == events \subseteq Event /\ consumers \subseteq Consumer

LEMMA TypeParts ==
    TypeOK <=> TableOK /\ LogOK /\ CallsOK /\ OpsOK /\ NodeOK /\ QueuesOK /\ LocalsOK
BY DEF TypeOK, TableOK, LogOK, CallsOK, OpsOK, NodeOK, QueuesOK

LEMMA TypePartsNext ==
    ASSUME TableOK', LogOK', CallsOK', OpsOK', NodeOK', QueuesOK', LocalsOK'
    PROVE  TypeOK'
BY DEF TypeOK, TableOK, LogOK, CallsOK, OpsOK, NodeOK, QueuesOK

(* What the node has sent stays sent.                                      *)
SentStays ==
    \A h \in DOMAIN out : out[h].status = "sent" =>
        h \in DOMAIN out' /\ out'[h] = out[h]

StepOK == TypeOK' /\ TableStep /\ SentStays

(* A row that a local variable names stays what it is.                     *)
LEMMA KeepsRow ==
    ASSUME KeepsRows, NEW i, NEW type, NEW x, IsRow(i, type, x)
    PROVE  IsRow(i, type, x)'
BY DEF KeepsRows, IsRow

LEMMA KeepsCall ==
    ASSUME KeepsRows, SentStays, NEW c, CallOK(c)
    PROVE  CallOK(c)'
<1>1. c.pc # "create" => IsRow(c.row, "outgoing", c.pay)' /\ txs'[c.row].pay = c.pay
  BY KeepsRow DEF CallOK, IsRow, KeepsRows
<1>2. c.pc = "selfSettle" => IsRow(c.incoming, "incoming", c.pay)'
  BY KeepsRow DEF CallOK
<1> QED BY <1>1, <1>2 DEF CallOK, SentStays

LEMMA KeepsConsumer ==
    ASSUME KeepsRows, NEW c, ConsumerHasRow(c)
    PROVE  ConsumerHasRow(c)'
BY KeepsRow DEF ConsumerHasRow

(* Every local variable of the next state is one of this state, or names   *)
(* what it must by itself.                                                 *)
LEMMA LocalsStep ==
    ASSUME LocalsOK, TableStep, SentStays,
           \A q \in DOMAIN call' : \/ q \in DOMAIN call /\ call'[q] = call[q]
                                   \/ CallOK(call[q])',
           \A o \in DOMAIN ops' : \/ o \in DOMAIN ops /\ ops'[o].row = ops[o].row
                                  \/ ops'[o].row \in DOMAIN txs' /\ txs'[ops'[o].row].type = "incoming",
           \A c \in consumers' : c \in consumers \/ ConsumerHasRow(c)'
    PROVE  LocalsOK'
<1> USE DEF TableStep
<1>1. ASSUME NEW q \in DOMAIN call', NEW c, c = call'[q]
      PROVE  CallOK(c)'
  <2>1. CASE q \in DOMAIN call /\ call'[q] = call[q]
    <3>1. CallOK(c)
      BY <1>1, <2>1 DEF LocalsOK
    <3> QED BY <3>1, KeepsCall
  <2>2. CASE CallOK(call[q])'
    BY <1>1, <2>2 DEF CallOK, IsRow
  <2> QED BY <2>1, <2>2
<1>2. \A q \in DOMAIN call' : CallOK(call[q])'
  BY <1>1 DEF CallOK, IsRow
<1>3. \A c \in consumers' : ConsumerHasRow(c)'
  BY KeepsConsumer DEF LocalsOK
<1>4. \A o \in DOMAIN ops' : ops'[o].row \in DOMAIN txs' /\ txs'[ops'[o].row].type = "incoming"
  BY DEF LocalsOK, KeepsRows
<1> QED BY <1>2, <1>3, <1>4 DEF LocalsOK

LEMMA LocalsKept ==
    ASSUME TypeOK, TableStep, SentStays, UNCHANGED <<call, ops, consumers>>
    PROVE  LocalsOK'
BY LocalsStep, TypeParts

LEMMA NodeKept ==
    ASSUME TypeOK, UNCHANGED node
    PROVE  NodeOK' /\ SentStays
BY TypeParts DEF node, NodeOK, SentStays

(* A payer moves on: its call keeps everything but the program counter.    *)
LEMMA GotoStep ==
    ASSUME TypeOK, TableStep, SentStays, UNCHANGED <<ops, consumers>>,
           NEW p \in DOMAIN call, NEW pc \in CallPcs \ {"create", "selfSettle", "keysendIncoming"},
           call[p].pc # "create", pc \in SelfPcs => call[p].self,
           pc = "settle" => call[p].self,
           Goto(p, pc)
    PROVE  CallsOK' /\ LocalsOK'
<1>1. call' = [call EXCEPT ![p].pc = pc] /\ call \in [DOMAIN call -> Call]
  BY DEF Goto, TypeOK
<1>2. /\ DOMAIN call' = DOMAIN call /\ call'[p] = [call[p] EXCEPT !.pc = pc]
      /\ \A q \in DOMAIN call \ {p} : call'[q] = call[q]
  BY <1>1
<1>3. call[p] \in Call /\ CallOK(call[p])
  BY <1>1, TypeParts DEF LocalsOK
<1>4. CallOK(call[p])'
  BY <1>2, <1>3 DEF CallOK, TableStep, KeepsRows, IsRow, Call
<1>5. CallsOK'
  BY <1>1, <1>3, TypeParts DEF CallsOK, Call
<1>6. LocalsOK'
  BY <1>2, <1>4, LocalsStep, TypeParts
<1> QED BY <1>5, <1>6

LEMMA ReturnStep ==
    ASSUME TypeOK, TableStep, SentStays, UNCHANGED <<ops, consumers>>,
           NEW p \in DOMAIN call, Return(p)
    PROVE  CallsOK' /\ LocalsOK'
<1>1. CallsOK'
  BY TypeParts DEF Return, CallsOK
<1>2. \A q \in DOMAIN call' : q \in DOMAIN call /\ call'[q] = call[q]
  BY DEF Return
<1> QED BY <1>1, <1>2, LocalsStep, TypeParts

(* The node answers the calls in S.                                        *)
LEMMA AnswerStep ==
    ASSUME TypeOK, UNCHANGED <<txs, ops, consumers>>, SentStays, NEW S,
           NEW pc \in {"settle", "fail"},
           \A q \in DOMAIN call : q \in S => call[q].pc = "waiting",
           pc = "settle" => \A q \in DOMAIN call : q \in S =>
                HashOf[call[q].pay] \in DOMAIN out' /\ out'[HashOf[call[q].pay]].status = "sent",
           call' = [q \in DOMAIN call |->
                      IF q \in S THEN [call[q] EXCEPT !.pc = pc] ELSE call[q]]
    PROVE  CallsOK' /\ LocalsOK' /\ TableStep
<1>1. TableStep
  BY StutterTable, TypeParts
<1>2. \A q \in DOMAIN call : call[q] \in Call /\ CallOK(call[q])
  BY TypeParts DEF CallsOK, LocalsOK
<1>3. CallsOK'
  BY <1>2, TypeParts DEF CallsOK, Call, CallPcs
<1>4. \A q \in DOMAIN call : q \in S => CallOK(call[q])'
  BY <1>2 DEF CallOK, Call, IsRow, SelfPcs
<1>5. LocalsOK'
  BY <1>1, <1>4, LocalsStep, TypeParts
<1> QED BY <1>1, <1>3, <1>5

-----------------------------------------------------------------------------
(* One lemma per action.                                                   *)

LEMMA MakeInvoiceOK ==
    ASSUME TypeOK, NEW x \in Own, NEW i \in TxId, MakeInvoice(x, i)
    PROVE  StepOK
<1> DEFINE r == [type |-> "incoming", state |-> "PENDING", pay |-> x,
                 app |-> Payee[x], fee |-> 0, reserve |-> 0, self |-> FALSE]
<1>1. r \in Row /\ r.state # "SETTLED"
  BY DEF Row, States, Types
<1>2. IsNextId(txs, i) /\ txs' = Insert(txs, i, r)
  BY DEF MakeInvoice
<1> HIDE DEF r
<1>3. TableStep /\ TableOK'
  BY <1>1, <1>2, InsertStep, TypeParts
<1>4. UNCHANGED <<call, ops, events, consumers, wakes, announced, revived, node>>
  BY DEF MakeInvoice
<1>5. NodeOK' /\ SentStays /\ LogOK' /\ CallsOK' /\ OpsOK' /\ QueuesOK'
  BY <1>4, NodeKept, TypeParts DEF LogOK, CallsOK, OpsOK, QueuesOK
<1> QED BY <1>3, <1>4, <1>5, LocalsKept, TypePartsNext DEF StepOK

LEMMA BeginPaymentOK ==
    ASSUME TypeOK, NEW p \in Payers, NEW x \in Payable, NEW a \in Apps \cup {NoApp},
           BeginPayment(p, x, a)
    PROVE  StepOK
<1> DEFINE self == IF x \in Keysends THEN x \in Own
                   ELSE FindByRequest(txs, "incoming", States, x) # {}
           c == [pc |-> "create", pay |-> x, app |-> a, self |-> self,
                 row |-> 0, incoming |-> 0]
<1>1. self \in BOOLEAN
  <2>1. (x \in Own) \in BOOLEAN /\ (FindByRequest(txs, "incoming", States, x) # {}) \in BOOLEAN
    OBVIOUS
  <2> QED BY <2>1, Zenon
<1>2. call' = [q \in DOMAIN call \cup {p} |-> IF q # p THEN call[q] ELSE c]
  BY DEF BeginPayment
<1>3. UNCHANGED <<txs, ops, events, consumers, wakes, announced, revived, node>>
  BY DEF BeginPayment
<1>4. c \in Call
  BY <1>1 DEF Call, CallPcs
<1>0. self /\ x \in Keysends => x \in Own
  OBVIOUS
<1> HIDE DEF self
<1>5. TableStep /\ TableOK' /\ NodeOK' /\ SentStays /\ LogOK' /\ OpsOK' /\ QueuesOK'
  BY <1>3, StutterTable, NodeKept, TypeParts DEF LogOK, OpsOK, QueuesOK
<1>6. CallsOK'
  BY <1>2, <1>4, TypeParts DEF CallsOK
<1>7. CallOK(call[p])'
  BY <1>0, <1>2 DEF CallOK, SelfPcs
<1>8. LocalsOK'
  BY <1>2, <1>3, <1>5, <1>7, LocalsStep, TypeParts
<1> QED BY <1>5, <1>6, <1>8, TypePartsNext DEF StepOK

LEMMA CreateOutgoingOK ==
    ASSUME TypeOK, NEW p \in Payers, NEW i \in TxId, CreateOutgoing(p, i)
    PROVE  StepOK
<1> DEFINE c == call[p]
           amount == AmountOf[c.pay]
           r == [type |-> "outgoing", state |-> "PENDING", pay |-> c.pay, app |-> c.app,
                 fee |-> 0, reserve |-> CalculateFeeReserveMsat(amount), self |-> c.self]
           pc == IF ~c.self THEN "send"
                 ELSE IF c.pay \in Keysends THEN "keysendIncoming" ELSE "intercept"
           d == [c EXCEPT !.row = i, !.pc = pc]
<1>1. p \in DOMAIN call /\ c \in Call
  BY DEF CreateOutgoing, At, TypeOK
<1>2. UNCHANGED <<ops, events, consumers, wakes, announced, revived, node>>
  BY DEF CreateOutgoing
<1>3. NodeOK' /\ SentStays /\ LogOK' /\ OpsOK' /\ QueuesOK'
  BY <1>2, NodeKept, TypeParts DEF LogOK, OpsOK, QueuesOK
<1>4. CASE AlreadyPaid(c.pay) \/ ~ValidateCanPay(txs, c.app, amount, c.self)
  <2>1. Return(p) /\ UNCHANGED txs
    BY <1>4 DEF CreateOutgoing
  <2>2. TableStep /\ TableOK'
    BY <2>1, StutterTable, TypeParts
  <2>3. CallsOK' /\ LocalsOK'
    BY <1>1, <1>2, <1>3, <2>1, <2>2, ReturnStep
  <2> QED BY <1>3, <2>2, <2>3, TypePartsNext DEF StepOK
<1>5. CASE ~(AlreadyPaid(c.pay) \/ ~ValidateCanPay(txs, c.app, amount, c.self))
  <2>1. /\ IsNextId(txs, i) /\ txs' = Insert(txs, i, r)
        /\ call' = [call EXCEPT ![p].row = i, ![p].pc = pc]
    BY <1>5 DEF CreateOutgoing
  <2>2. r \in Row /\ r.state # "SETTLED"
    BY <1>1, FeeReserveType DEF Row, Types, States, Call
  <2>3. TableStep /\ TableOK' /\ i \in DOMAIN txs' /\ txs'[i] = r
    BY <2>1, <2>2, InsertStep, TypeParts
  <2>4. call' = [call EXCEPT ![p] = d]
    BY <1>1, <2>1
  <2>5. pc \in CallPcs \ {"create", "selfSettle", "settle"} /\ (pc \in SelfPcs => c.self)
        /\ (pc = "keysendIncoming" => c.pay \in Keysends)
    BY DEF CallPcs, SelfPcs
  <2> HIDE DEF pc, amount
  <2>6. d \in Call
    BY <1>1, <2>5 DEF Call
  <2>7. CallsOK' /\ call'[p] = d /\ \A q \in DOMAIN call' \ {p} : q \in DOMAIN call /\ call'[q] = call[q]
    BY <1>1, <2>4, <2>6, TypeParts DEF CallsOK
  <2>8. CallOK(call[p])'
    <3>1. CallOK(c)
      BY <1>1, TypeParts DEF LocalsOK
    <3> QED BY <1>1, <2>3, <2>5, <2>7, <3>1 DEF CallOK, IsRow, Call
  <2>9. LocalsOK'
    BY <1>2, <1>3, <2>3, <2>7, <2>8, LocalsStep, TypeParts
  <2> QED BY <1>3, <2>3, <2>7, <2>9, TypePartsNext DEF StepOK
<1> QED BY <1>4, <1>5

LEMMA SendToNodeOK ==
    ASSUME TypeOK, NEW p \in Payers, SendToNode(p)
    PROVE  StepOK
<1> DEFINE x == call[p].pay
           h == HashOf[x]
<1>1. p \in DOMAIN call /\ call[p].pc = "send" /\ x \in Requests
  BY DEF SendToNode, At, TypeOK, Call
<1>2. UNCHANGED <<txs, ops, events, consumers, wakes, announced, revived, htlc,
                  running, stops, crashes>>
  BY DEF SendToNode, db
<1>3. TableStep /\ TableOK' /\ LogOK' /\ OpsOK' /\ QueuesOK'
  BY <1>2, StutterTable, TypeParts DEF LogOK, OpsOK, QueuesOK
<1>4. PICK pc \in {"waiting", "fail"} : Goto(p, pc)
  BY DEF SendToNode
<1>5. NodeOK' /\ SentStays
  <2>1. CASE UNCHANGED out
    BY <1>2, <2>1, NodeKept DEF node
  <2>2. CASE /\ h \in DOMAIN out => out[h].status = "failed"
             /\ out' = [g \in DOMAIN out \cup {h} |->
                          IF g # h THEN out[g]
                          ELSE [status |-> "inflight", pay |-> x, fee |-> 0]]
    <3>1. h \in Hashes
      BY <1>1 DEF Hashes
    <3>2. [status |-> "inflight", pay |-> x, fee |-> 0] \in OutPayment
      BY <1>1 DEF OutPayment, OutStates
    <3>3. SentStays
      BY <2>2 DEF SentStays
    <3> HIDE DEF h, x
    <3> QED BY <1>2, <2>2, <3>1, <3>2, <3>3, TypeParts DEF NodeOK
  <2> QED BY <2>1, <2>2 DEF SendToNode
<1>6. CallsOK' /\ LocalsOK'
  BY <1>1, <1>2, <1>3, <1>4, <1>5, GotoStep DEF CallPcs, SelfPcs
<1> QED BY <1>3, <1>5, <1>6, TypePartsNext DEF StepOK

LEMMA CreateKeysendIncomingOK ==
    ASSUME TypeOK, NEW p \in Payers, NEW i \in TxId, CreateKeysendIncoming(p, i)
    PROVE  StepOK
<1> DEFINE x == call[p].pay
           r == [type |-> "incoming", state |-> "PENDING", pay |-> x,
                 app |-> Payee[x], fee |-> 0, reserve |-> 0, self |-> TRUE]
<1>1. p \in DOMAIN call /\ call[p].pc = "keysendIncoming" /\ call[p].self /\ x \in Own
  BY TypeParts DEF CreateKeysendIncoming, At, LocalsOK, CallOK, SelfPcs
<1>2. UNCHANGED <<ops, events, consumers, wakes, announced, revived, node>>
  BY DEF CreateKeysendIncoming
<1>3. NodeOK' /\ SentStays /\ LogOK' /\ OpsOK' /\ QueuesOK'
  BY <1>2, NodeKept, TypeParts DEF LogOK, OpsOK, QueuesOK
<1>4. IsNextId(txs, i) /\ txs' = Insert(txs, i, r)
  BY DEF CreateKeysendIncoming
<1>5. r \in Row /\ r.state # "SETTLED"
  BY <1>1 DEF Row, Types, States
<1> HIDE DEF r
<1>6. TableStep /\ TableOK'
  BY <1>4, <1>5, InsertStep, TypeParts
<1>7. CallsOK' /\ LocalsOK'
  BY <1>1, <1>2, <1>3, <1>6, GotoStep DEF CreateKeysendIncoming, CallPcs, SelfPcs
<1> QED BY <1>3, <1>6, <1>7, TypePartsNext DEF StepOK

LEMMA InterceptSelfPaymentOK ==
    ASSUME TypeOK, NEW p \in Payers, InterceptSelfPayment(p)
    PROVE  StepOK
<1> DEFINE found == FindByRequest(txs, "incoming", {"PENDING"}, call[p].pay)
<1>1. /\ p \in DOMAIN call /\ call[p].pc = "intercept" /\ call[p].self
      /\ call[p] \in Call /\ CallOK(call[p])
  BY TypeParts DEF InterceptSelfPayment, At, LocalsOK, CallOK, SelfPcs, CallsOK
<1>2. UNCHANGED <<txs, ops, events, consumers, wakes, announced, revived, node>>
  BY DEF InterceptSelfPayment, db
<1>3. TableStep /\ TableOK' /\ NodeOK' /\ SentStays /\ LogOK' /\ OpsOK' /\ QueuesOK'
  BY <1>2, StutterTable, NodeKept, TypeParts DEF LogOK, OpsOK, QueuesOK
<1>4. CASE Goto(p, "fail") \/ Goto(p, "register")
  <2>1. CallsOK' /\ LocalsOK'
    BY <1>1, <1>2, <1>3, <1>4, GotoStep DEF CallPcs, SelfPcs
  <2> QED BY <1>3, <2>1, TypePartsNext DEF StepOK
<1>5. CASE \E i \in found :
             call' = [call EXCEPT ![p].incoming = i, ![p].pc = "selfSettle"]
  <2>1. PICK i \in found : call' = [call EXCEPT ![p].incoming = i, ![p].pc = "selfSettle"]
    BY <1>5
  <2> DEFINE d == [call[p] EXCEPT !.incoming = i, !.pc = "selfSettle"]
  <2>2. call' = [call EXCEPT ![p] = d]
    BY <1>1, <2>1
  <2>3. i \in TxId /\ IsRow(i, "incoming", call[p].pay)
    BY TypeParts DEF FindByRequest, FindByHash, IsRow, TableOK
  <2>4. d \in Call
    BY <1>1, <2>3 DEF Call, CallPcs
  <2>5. CallsOK' /\ call'[p] = d /\ \A q \in DOMAIN call' \ {p} : q \in DOMAIN call /\ call'[q] = call[q]
    BY <1>1, <2>2, <2>4, TypeParts DEF CallsOK
  <2>6. CallOK(call[p])'
    BY <1>1, <1>2, <2>3, <2>5 DEF CallOK, IsRow, Call
  <2>7. LocalsOK'
    BY <1>2, <1>3, <2>5, <2>6, LocalsStep, TypeParts
  <2> QED BY <1>3, <2>5, <2>7, TypePartsNext DEF StepOK
<1> QED BY <1>4, <1>5 DEF InterceptSelfPayment

LEMMA SettleIncomingSelfPaymentOK ==
    ASSUME TypeOK, NEW p \in Payers, SettleIncomingSelfPayment(p)
    PROVE  StepOK
<1>1. p \in DOMAIN call /\ call[p].pc = "selfSettle" /\ call[p].self
      /\ call[p].incoming \in DOMAIN txs
  BY TypeParts DEF SettleIncomingSelfPayment, At, LocalsOK, CallOK, SelfPcs, IsRow
<1>2. UNCHANGED <<ops, events, consumers, node>>
  BY DEF SettleIncomingSelfPayment
<1>3. NodeOK' /\ SentStays /\ OpsOK' /\ QueuesOK'
  BY <1>2, NodeKept, TypeParts DEF OpsOK, QueuesOK
<1>4. TableStep /\ TableOK' /\ LogOK'
  BY <1>1, MarkSettledStep DEF SettleIncomingSelfPayment
<1>5. CallsOK' /\ LocalsOK'
  BY <1>1, <1>2, <1>3, <1>4, GotoStep DEF SettleIncomingSelfPayment, CallPcs, SelfPcs
<1> QED BY <1>3, <1>4, <1>5, TypePartsNext DEF StepOK

LEMMA RegisterHoldConsumerOK ==
    ASSUME TypeOK, NEW p \in Payers, RegisterHoldConsumer(p)
    PROVE  StepOK
<1>1. p \in DOMAIN call /\ call[p].pc = "register" /\ call[p].self
  BY TypeParts DEF RegisterHoldConsumer, At, LocalsOK, CallOK, SelfPcs
<1>2. UNCHANGED <<txs, ops, events, consumers, wakes, announced, revived, node>>
  BY DEF RegisterHoldConsumer, db
<1>3. TableStep /\ TableOK' /\ NodeOK' /\ SentStays /\ LogOK' /\ OpsOK' /\ QueuesOK'
  BY <1>2, StutterTable, NodeKept, TypeParts DEF LogOK, OpsOK, QueuesOK
<1>4. CallsOK' /\ LocalsOK'
  BY <1>1, <1>2, <1>3, GotoStep DEF RegisterHoldConsumer, CallPcs, SelfPcs
<1> QED BY <1>3, <1>4, TypePartsNext DEF StepOK

LEMMA GetInfoFailsOK ==
    ASSUME TypeOK, NEW p \in Payers, GetInfoFails(p)
    PROVE  StepOK
<1>1. p \in DOMAIN call /\ call[p].pc = "registered" /\ wakes' \subseteq wakes
  BY DEF GetInfoFails, At
<1>2. UNCHANGED <<txs, ops, events, consumers, announced, revived, node>>
  BY DEF GetInfoFails, db
<1>3. TableStep /\ TableOK' /\ NodeOK' /\ SentStays /\ LogOK' /\ OpsOK' /\ QueuesOK'
  BY <1>1, <1>2, StutterTable, NodeKept, TypeParts DEF LogOK, OpsOK, QueuesOK
<1>4. CallsOK' /\ LocalsOK'
  BY <1>1, <1>2, <1>3, GotoStep DEF GetInfoFails, CallPcs, SelfPcs
<1> QED BY <1>3, <1>4, TypePartsNext DEF StepOK

LEMMA AcceptSelfHoldPaymentOK ==
    ASSUME TypeOK, NEW p \in Payers, AcceptSelfHoldPayment(p)
    PROVE  StepOK
<1>1. p \in DOMAIN call /\ call[p].pc = "registered" /\ call[p].self
  BY TypeParts DEF AcceptSelfHoldPayment, At, LocalsOK, CallOK, SelfPcs
<1>2. UNCHANGED <<ops, events, consumers, wakes, announced, revived, node>>
  BY DEF AcceptSelfHoldPayment
<1>3. NodeOK' /\ SentStays /\ LogOK' /\ OpsOK' /\ QueuesOK'
  BY <1>2, NodeKept, TypeParts DEF LogOK, OpsOK, QueuesOK
<1>4. TableStep /\ TableOK'
  BY MarkAcceptedStep DEF AcceptSelfHoldPayment
<1>5. CallsOK' /\ LocalsOK'
  BY <1>1, <1>2, <1>3, <1>4, GotoStep DEF AcceptSelfHoldPayment, CallPcs, SelfPcs
<1> QED BY <1>3, <1>4, <1>5, TypePartsNext DEF StepOK

LEMMA WakeSelfHoldPaymentOK ==
    ASSUME TypeOK, NEW p \in Payers, WakeSelfHoldPayment(p)
    PROVE  StepOK
<1>1. p \in DOMAIN call /\ call[p].pc = "holding" /\ call[p].self /\ wakes' \subseteq wakes
  BY TypeParts DEF WakeSelfHoldPayment, At, LocalsOK, CallOK, SelfPcs
<1>2. UNCHANGED <<txs, ops, events, consumers, announced, revived, node>>
  BY DEF WakeSelfHoldPayment, db
<1>3. TableStep /\ TableOK' /\ NodeOK' /\ SentStays /\ LogOK' /\ OpsOK' /\ QueuesOK'
  BY <1>1, <1>2, StutterTable, NodeKept, TypeParts DEF LogOK, OpsOK, QueuesOK
<1>4. PICK pc \in {"settle", "fail"} : Goto(p, pc)
  BY DEF WakeSelfHoldPayment
<1>5. CallsOK' /\ LocalsOK'
  BY <1>1, <1>2, <1>3, <1>4, GotoStep DEF CallPcs, SelfPcs
<1> QED BY <1>3, <1>5, TypePartsNext DEF StepOK

LEMMA SettleOutgoingOK ==
    ASSUME TypeOK, NEW p \in Payers, SettleOutgoing(p)
    PROVE  StepOK
<1> DEFINE c == call[p]
           fee == IF c.self THEN 0 ELSE out[HashOf[c.pay]].fee
<1>1. p \in DOMAIN call /\ c.pc = "settle" /\ c \in Call /\ CallOK(c)
  BY TypeParts DEF SettleOutgoing, At, LocalsOK, CallsOK
<1>2. c.row \in DOMAIN txs /\ c.self \in BOOLEAN
  BY <1>1 DEF CallOK, IsRow, Call
<1>3. fee \in Nat
  BY <1>1, TypeParts DEF CallOK, NodeOK, OutPayment
<1>4. UNCHANGED <<ops, events, consumers, node>>
  BY DEF SettleOutgoing
<1>5. NodeOK' /\ SentStays /\ OpsOK' /\ QueuesOK'
  BY <1>4, NodeKept, TypeParts DEF OpsOK, QueuesOK
<1>6. MarkTransactionSettled(c.row, fee, c.self) /\ Return(p)
  BY DEF SettleOutgoing
<1> HIDE DEF fee
<1>7. TableStep /\ TableOK' /\ LogOK'
  BY <1>2, <1>3, <1>6, MarkSettledStep
<1>8. CallsOK' /\ LocalsOK'
  BY <1>1, <1>4, <1>5, <1>6, <1>7, ReturnStep
<1> QED BY <1>5, <1>7, <1>8, TypePartsNext DEF StepOK

LEMMA FailOutgoingOK ==
    ASSUME TypeOK, NEW p \in Payers, FailOutgoing(p)
    PROVE  StepOK
<1>1. p \in DOMAIN call /\ call[p].row \in DOMAIN txs
  BY TypeParts DEF FailOutgoing, At, LocalsOK, CallOK, IsRow
<1>2. UNCHANGED <<ops, events, consumers, wakes, announced, revived, node>>
  BY DEF FailOutgoing, MarkPaymentFailed
<1>3. NodeOK' /\ SentStays /\ LogOK' /\ OpsOK' /\ QueuesOK'
  BY <1>2, NodeKept, TypeParts DEF LogOK, OpsOK, QueuesOK
<1>4. TableStep /\ TableOK'
  BY <1>1, MarkFailedStep DEF FailOutgoing
<1>5. CallsOK' /\ LocalsOK'
  BY <1>1, <1>2, <1>3, <1>4, ReturnStep DEF FailOutgoing
<1> QED BY <1>3, <1>4, <1>5, TypePartsNext DEF StepOK

LEMMA PayerStepOK ==
    ASSUME TypeOK, NEW p \in Payers, PayerStep(p)
    PROVE  StepOK
BY CreateOutgoingOK, CreateKeysendIncomingOK, SendToNodeOK, InterceptSelfPaymentOK,
   SettleIncomingSelfPaymentOK, RegisterHoldConsumerOK, GetInfoFailsOK,
   AcceptSelfHoldPaymentOK, WakeSelfHoldPaymentOK, SettleOutgoingOK, FailOutgoingOK
   DEF PayerStep

LEMMA BeginHoldOperationOK ==
    ASSUME TypeOK, NEW o \in Operators, NEW pc \in {"settle", "cancel"},
           BeginHoldOperation(o, pc)
    PROVE  StepOK
<1>1. PICK i \in DOMAIN txs :
        /\ txs[i].type = "incoming"
        /\ ops' = [q \in DOMAIN ops \cup {o} |->
                     IF q # o THEN ops[q]
                     ELSE [pc |-> pc, row |-> i, self |-> txs[i].self]]
  BY DEF BeginHoldOperation
<1>2. UNCHANGED <<txs, call, events, consumers, wakes, announced, revived, node>>
  BY DEF BeginHoldOperation, db
<1>3. TableStep /\ TableOK' /\ NodeOK' /\ SentStays /\ LogOK' /\ CallsOK' /\ QueuesOK'
  BY <1>2, StutterTable, NodeKept, TypeParts DEF LogOK, CallsOK, QueuesOK
<1>4. [pc |-> pc, row |-> i, self |-> txs[i].self] \in Op
  BY TypeParts DEF TableOK, Row, Op, OpPcs
<1>5. OpsOK'
  BY <1>1, <1>4, TypeParts DEF OpsOK
<1>6. LocalsOK'
  BY <1>1, <1>2, <1>3, LocalsStep, TypeParts
<1> QED BY <1>3, <1>5, <1>6, TypePartsNext DEF StepOK

LEMMA EmitType ==
    ASSUME TypeOK, NEW e \in Event, Emit(e)
    PROVE  events' \subseteq Event
BY DEF TypeOK, Emit

LEMMA AskNodeOK ==
    ASSUME TypeOK, NEW o, NEW pc, NEW next \in OpPcs, NEW newHtlc \in HtlcStates,
           AskNode(o, pc, next, newHtlc)
    PROVE  StepOK
<1>1. UNCHANGED <<txs, announced, revived, call, consumers, wakes, out, running, stops, crashes>>
  BY DEF AskNode, db
<1>2. TableStep /\ TableOK' /\ LogOK' /\ CallsOK'
  BY <1>1, StutterTable, TypeParts DEF LogOK, CallsOK
<1>3. o \in DOMAIN ops
  BY DEF AskNode, OpAt
<1>4. /\ OpsOK'
      /\ \A q \in DOMAIN ops' : q \in DOMAIN ops /\ ops'[q].row = ops[q].row
  <2>1. CASE ops' = [ops EXCEPT ![o].pc = next]
    BY <1>3, <2>1, TypeParts DEF OpsOK, Op
  <2>2. CASE OpReturn(o)
    BY <2>2, TypeParts DEF OpsOK, OpReturn
  <2> QED BY <2>1, <2>2 DEF AskNode
<1>5. htlc' \in [Own -> HtlcStates] /\ events' \subseteq Event
  <2>1. CASE UNCHANGED <<htlc, events>>
    BY <2>1 DEF TypeOK
  <2>2. CASE \E x \in Held(ops[o].row) :
               /\ htlc' = [htlc EXCEPT ![x] = newHtlc]
               /\ IF newHtlc = "paid"
                  THEN Emit([kind |-> "payment_received", pay |-> x, fee |-> 0])
                  ELSE UNCHANGED events
    <3>1. PICK x \in Held(ops[o].row) :
               /\ htlc' = [htlc EXCEPT ![x] = newHtlc]
               /\ IF newHtlc = "paid"
                  THEN Emit([kind |-> "payment_received", pay |-> x, fee |-> 0])
                  ELSE UNCHANGED events
      BY <2>2
    <3>2. [kind |-> "payment_received", pay |-> x, fee |-> 0] \in Event
      BY DEF Held, Event, EventKinds
    <3> QED BY <3>1, <3>2, EmitType DEF TypeOK
  <2> QED BY <2>1, <2>2 DEF AskNode
<1>6. NodeOK' /\ SentStays
  BY <1>1, <1>5, TypeParts DEF NodeOK, SentStays
<1>7. QueuesOK'
  BY <1>1, <1>5, TypeParts DEF QueuesOK
<1>8. LocalsOK'
  BY <1>1, <1>2, <1>4, <1>6, LocalsStep, TypeParts
<1> QED BY <1>2, <1>4, <1>6, <1>7, <1>8, TypePartsNext DEF StepOK

(* An operation ends with an update of the table.                          *)
LEMMA OpReturnStep ==
    ASSUME TypeOK, TableStep, TableOK', LogOK', NEW o, OpReturn(o),
           UNCHANGED <<call, events, consumers, node>>
    PROVE  StepOK
<1>1. NodeOK' /\ SentStays /\ CallsOK' /\ QueuesOK'
  BY NodeKept, TypeParts DEF CallsOK, QueuesOK
<1>2. OpsOK' /\ \A q \in DOMAIN ops' : q \in DOMAIN ops /\ ops'[q].row = ops[q].row
  BY TypeParts DEF OpsOK, OpReturn
<1>3. LocalsOK'
  BY <1>1, <1>2, LocalsStep, TypeParts
<1> QED BY <1>1, <1>2, <1>3, TypePartsNext DEF StepOK

LEMMA CommitSettleHoldInvoiceOK ==
    ASSUME TypeOK, NEW o \in Operators, CommitSettleHoldInvoice(o)
    PROVE  StepOK
<1>1. ops[o].row \in DOMAIN txs /\ ops[o].self \in BOOLEAN
  BY TypeParts DEF CommitSettleHoldInvoice, OpAt, OpsOK, Op, LocalsOK
<1>2. TableStep /\ TableOK' /\ LogOK'
  BY <1>1, MarkSettledStep DEF CommitSettleHoldInvoice
<1> QED BY <1>2, OpReturnStep DEF CommitSettleHoldInvoice

LEMMA CommitCancelHoldInvoiceOK ==
    ASSUME TypeOK, NEW o \in Operators, CommitCancelHoldInvoice(o)
    PROVE  StepOK
<1>1. ops[o].row \in DOMAIN txs
  BY TypeParts DEF CommitCancelHoldInvoice, OpAt, LocalsOK
<1>2. MarkPaymentFailed(ops[o].row) /\ UNCHANGED <<announced, revived>>
  BY DEF CommitCancelHoldInvoice, MarkPaymentFailed
<1>3. TableStep /\ TableOK'
  BY <1>1, <1>2, MarkFailedStep
<1>4. wakes' \subseteq Wake
  BY NotifyType DEF CommitCancelHoldInvoice, TypeOK
<1>5. LogOK'
  BY <1>2, <1>4, TypeParts DEF LogOK
<1> QED BY <1>3, <1>5, OpReturnStep DEF CommitCancelHoldInvoice

LEMMA OperatorStepOK ==
    ASSUME TypeOK, NEW o \in Operators, OperatorStep(o)
    PROVE  StepOK
<1>1. CASE SettleHoldInvoice(o) \/ CancelHoldInvoice(o)
  BY <1>1, AskNodeOK DEF SettleHoldInvoice, CancelHoldInvoice, OpPcs, HtlcStates
<1> QED BY <1>1, CommitSettleHoldInvoiceOK, CommitCancelHoldInvoiceOK DEF OperatorStep

(* An event is read: it leaves at most one consumer behind.                *)
LEMMA ConsumeStep ==
    ASSUME TypeOK, NEW e \in Event, NEW row \in TxId \cup {0}, Consume(e, row)
    PROVE  /\ consumers' \subseteq Consumer
           /\ \A c \in consumers' : c \in consumers \/
                /\ c.kind = e.kind /\ c.pay = e.pay /\ c.row = row /\ c.fee = e.fee
BY DEF TypeOK, Consume, Event, Consumer

(* The same for an event whose row was looked for in the table.            *)
LEMMA ConsumeRowStep ==
    ASSUME TypeOK, UNCHANGED txs, NEW e \in Event, NEW row \in TxId \cup {0}, Consume(e, row),
           row = 0 => e.kind # "payment_failed",
           row # 0 => IsRow(row, IF e.kind \in {"payment_sent", "payment_failed"}
                                  THEN "outgoing" ELSE "incoming", e.pay)
    PROVE  /\ consumers' \subseteq Consumer
           /\ \A c \in consumers' : c \in consumers \/ ConsumerHasRow(c)'
<1>1. consumers' \subseteq Consumer
  BY ConsumeStep
<1>2. ASSUME NEW c \in consumers', c \notin consumers
      PROVE  ConsumerHasRow(c)'
  <2>1. c.kind = e.kind /\ c.pay = e.pay /\ c.row = row
    BY <1>2, ConsumeStep
  <2> QED BY <2>1 DEF ConsumerHasRow, IsRow
<1> QED BY <1>1, <1>2

LEMMA FoundRow ==
    ASSUME TypeOK, NEW type, NEW states, NEW x, NEW i \in FindByHash(txs, type, states, x)
    PROVE  i \in TxId /\ i # 0 /\ IsRow(i, type, x)
BY DEF TypeOK, FindByHash, IsRow

LEMMA ConsumeEventOK ==
    ASSUME TypeOK, NEW e \in events, ConsumeEvent(e)
    PROVE  StepOK
<1>1. e \in Event
  BY DEF TypeOK
<1>2. UNCHANGED <<call, ops, wakes, announced, revived, node>> /\ events' = events \ {e}
  BY DEF ConsumeEvent
<1>3. NodeOK' /\ SentStays /\ LogOK' /\ CallsOK' /\ OpsOK' /\ events' \subseteq Event
  BY <1>2, NodeKept, TypeParts DEF LogOK, CallsOK, OpsOK, QueuesOK
<1>4. CASE e.kind = "hold_invoice_accepted"
  <2>1. MarkHoldInvoiceAccepted(e.pay, FALSE) /\ UNCHANGED consumers
    BY <1>4 DEF ConsumeEvent, ConsumePaymentReceived, ConsumeHoldInvoiceAccepted,
                ConsumePaymentSent, ConsumePaymentFailed
  <2>2. TableStep /\ TableOK'
    BY <2>1, MarkAcceptedStep
  <2>3. QueuesOK' /\ LocalsOK'
    BY <1>2, <1>3, <2>1, <2>2, LocalsKept, TypeParts DEF QueuesOK
  <2> QED BY <1>3, <2>2, <2>3, TypePartsNext DEF StepOK
<1>5. CASE e.kind # "hold_invoice_accepted"
  <2> DEFINE type == IF e.kind \in {"payment_sent", "payment_failed"}
                     THEN "outgoing" ELSE "incoming"
  <2>1. UNCHANGED txs
    BY <1>5 DEF ConsumeEvent, ConsumePaymentReceived, ConsumeHoldInvoiceAccepted,
                ConsumePaymentSent, ConsumePaymentFailed
  <2>2. \/ UNCHANGED consumers
        \/ Consume(e, 0) /\ e.kind # "payment_failed"
        \/ \E states : \E i \in FindByHash(txs, type, states, e.pay) : Consume(e, i)
    <3>1. CASE e.kind = "payment_received"
      BY <3>1 DEF ConsumeEvent, ConsumePaymentReceived, ConsumeHoldInvoiceAccepted,
                  ConsumePaymentSent, ConsumePaymentFailed
    <3>2. CASE e.kind = "payment_sent"
      BY <3>2 DEF ConsumeEvent, ConsumePaymentReceived, ConsumeHoldInvoiceAccepted,
                  ConsumePaymentSent, ConsumePaymentFailed
    <3>3. CASE e.kind = "payment_failed"
      BY <3>3 DEF ConsumeEvent, ConsumePaymentReceived, ConsumeHoldInvoiceAccepted,
                  ConsumePaymentSent, ConsumePaymentFailed
    <3> QED BY <1>1, <1>5, <3>1, <3>2, <3>3 DEF Event, EventKinds
  <2>3. consumers' \subseteq Consumer /\ \A c \in consumers' : c \in consumers \/ ConsumerHasRow(c)'
    <3>1. CASE UNCHANGED consumers
      BY <3>1 DEF TypeOK
    <3>2. CASE Consume(e, 0) /\ e.kind # "payment_failed"
      BY <1>1, <2>1, <3>2, ConsumeRowStep
    <3>3. CASE \E states : \E i \in FindByHash(txs, type, states, e.pay) : Consume(e, i)
      <4>1. PICK states : \E i \in FindByHash(txs, type, states, e.pay) : Consume(e, i)
        BY <3>3
      <4>2. PICK i \in FindByHash(txs, type, states, e.pay) : Consume(e, i)
        BY <4>1
      <4>3. i \in TxId /\ i # 0 /\ IsRow(i, type, e.pay)
        BY FoundRow
      <4> QED BY <1>1, <2>1, <4>2, <4>3, ConsumeRowStep
    <3> QED BY <2>2, <3>1, <3>2, <3>3
  <2>4. TableStep /\ TableOK'
    BY <2>1, StutterTable, TypeParts
  <2>5. QueuesOK' /\ LocalsOK'
    BY <1>2, <1>3, <2>3, <2>4, LocalsStep, TypeParts DEF QueuesOK
  <2> QED BY <1>3, <2>4, <2>5, TypePartsNext DEF StepOK
<1> QED BY <1>4, <1>5

LEMMA CommitEventOK ==
    ASSUME TypeOK, NEW c \in consumers, CommitEvent(c)
    PROVE  StepOK
<1>1. c \in Consumer /\ ConsumerHasRow(c)
  BY TypeParts DEF QueuesOK, LocalsOK
<1>2. UNCHANGED <<call, ops, events, node>> /\ consumers' = consumers \ {c}
  BY DEF CommitEvent
<1>3. NodeOK' /\ SentStays /\ CallsOK' /\ OpsOK' /\ QueuesOK'
  BY <1>2, NodeKept, TypeParts DEF CallsOK, OpsOK, QueuesOK
<1>4. TableStep /\ TableOK' /\ LogOK'
  <2>1. CASE c.kind = "payment_failed"
    <3>1. c.row \in DOMAIN txs /\ MarkPaymentFailed(c.row) /\ UNCHANGED wakes
      BY <1>1, <2>1 DEF CommitEvent, ConsumerHasRow, IsRow
    <3>2. UNCHANGED <<announced, revived, wakes>>
      BY <3>1 DEF MarkPaymentFailed
    <3> QED BY <3>1, <3>2, MarkFailedStep, TypeParts DEF LogOK
  <2>2. CASE c.kind # "payment_failed" /\ c.row # 0
    <3>1. c.row \in DOMAIN txs /\ MarkTransactionSettled(c.row, c.fee, FALSE)
      BY <1>1, <2>2 DEF CommitEvent, ConsumerHasRow, IsRow
    <3> QED BY <1>1, <3>1, MarkSettledStep DEF Consumer
  <2>3. CASE c.kind # "payment_failed" /\ c.row = 0
    <3> DEFINE type == IF c.kind = "payment_sent" THEN "outgoing" ELSE "incoming"
    <3>1. PICK i \in TxId : CreateSettledTransactionFromNotification(i, type, c.pay, c.fee)
      BY <2>3 DEF CommitEvent
    <3>2. type \in Types
      BY DEF Types
    <3> QED BY <1>1, <3>1, <3>2, CreateSettledStep DEF Consumer
  <2> QED BY <2>1, <2>2, <2>3
<1>5. LocalsOK'
  BY <1>2, <1>3, <1>4, LocalsStep, TypeParts
<1> QED BY <1>3, <1>4, <1>5, TypePartsNext DEF StepOK

LEMMA CheckUnsettledTransactionOK ==
    ASSUME TypeOK, NEW i \in TxId, CheckUnsettledTransaction(i)
    PROVE  StepOK
<1> DEFINE x == txs[i].pay
           fee == IF HashOf[x] \in DOMAIN out THEN out[HashOf[x]].fee ELSE 0
           e == [kind |-> IF txs[i].type = "incoming" THEN "payment_received" ELSE "payment_sent",
                 pay |-> x, fee |-> fee]
<1>1. i \in DOMAIN txs /\ txs[i] \in Row
  BY DEF CheckUnsettledTransaction, TypeOK
<1>2. UNCHANGED <<txs, announced, revived, call, ops, events, wakes, node>>
  BY DEF CheckUnsettledTransaction, db
<1>3. TableStep /\ TableOK' /\ NodeOK' /\ SentStays /\ LogOK' /\ CallsOK' /\ OpsOK'
  BY <1>2, StutterTable, NodeKept, TypeParts DEF LogOK, CallsOK, OpsOK
<1>4. fee \in Nat
  BY TypeParts DEF NodeOK, OutPayment
<1>5. Consume(e, i)
  BY DEF CheckUnsettledTransaction
<1> HIDE DEF fee
<1>6. e \in Event /\ e.kind # "payment_failed" /\ e.pay = x
      /\ txs[i].type = IF e.kind \in {"payment_sent", "payment_failed"} THEN "outgoing" ELSE "incoming"
  BY <1>1, <1>4 DEF Event, EventKinds, Row, Types
<1> HIDE DEF e
<1>7. consumers' \subseteq Consumer /\ \A c \in consumers' : c \in consumers \/ ConsumerHasRow(c)'
  BY <1>1, <1>2, <1>5, <1>6, ConsumeRowStep DEF IsRow
<1>8. QueuesOK' /\ LocalsOK'
  BY <1>2, <1>3, <1>7, LocalsStep, TypeParts DEF QueuesOK
<1> QED BY <1>3, <1>8, TypePartsNext DEF StepOK

LEMMA ResolvePaymentOK ==
    ASSUME TypeOK, NEW h \in DOMAIN out, NEW status \in {"sent", "failed"}, NEW fee \in Nat,
           ResolvePayment(h, status, fee)
    PROVE  StepOK
<1> DEFINE S == {q \in DOMAIN call : call[q].pc = "waiting" /\ HashOf[call[q].pay] = h}
           e == [kind |-> IF status = "sent" THEN "payment_sent" ELSE "payment_failed",
                 pay |-> out[h].pay, fee |-> fee]
           pc == IF status = "sent" THEN "settle" ELSE "fail"
<1>1. /\ UNCHANGED <<txs, announced, revived, ops, consumers, wakes, htlc, running, stops, crashes>>
      /\ out[h].status = "inflight" /\ out[h] \in OutPayment
      /\ out' = [out EXCEPT ![h].status = status, ![h].fee = fee]
  BY TypeParts DEF ResolvePayment, db, NodeOK
<1>2. out' = [out EXCEPT ![h] = [out[h] EXCEPT !.status = status, !.fee = fee]]
  BY <1>1, TypeParts DEF NodeOK
<1>3. NodeOK' /\ SentStays /\ h \in DOMAIN out' /\ out'[h].status = status
  BY <1>1, <1>2, TypeParts DEF NodeOK, SentStays, OutPayment, OutStates
<1>4. call' = [q \in DOMAIN call |-> IF q \in S THEN [call[q] EXCEPT !.pc = pc] ELSE call[q]]
  BY DEF ResolvePayment
<1>5. CallsOK' /\ LocalsOK' /\ TableStep
  <2>1. \A q \in DOMAIN call : q \in S => call[q].pc = "waiting" /\ HashOf[call[q].pay] = h
    OBVIOUS
  <2>2. pc \in {"settle", "fail"} /\ (pc = "settle" => status = "sent")
    OBVIOUS
  <2> HIDE DEF S, pc
  <2> QED BY <1>1, <1>3, <1>4, <2>1, <2>2, AnswerStep
<1>6. e \in Event /\ Emit(e)
  BY <1>1 DEF ResolvePayment, Event, EventKinds, OutPayment
<1> HIDE DEF e
<1>7. QueuesOK'
  BY <1>1, <1>6, EmitType, TypeParts DEF QueuesOK
<1>8. TableOK' /\ LogOK' /\ OpsOK'
  BY <1>1, StutterTable, TypeParts DEF LogOK, OpsOK
<1> QED BY <1>3, <1>5, <1>7, <1>8, TypePartsNext DEF StepOK

LEMMA NodeResolvesOK ==
    ASSUME TypeOK, NEW h \in DOMAIN out, NodeResolves(h)
    PROVE  StepOK
<1>1. AmountOf[out[h].pay] \in Nat
  BY TypeParts DEF NodeOK, OutPayment
<1>2. CalculateFeeReserveMsat(AmountOf[out[h].pay]) \in Nat
  BY <1>1, FeeReserveType
<1> QED BY <1>2, ResolvePaymentOK DEF NodeResolves

(* The node publishes an event and changes nothing of the hub.             *)
LEMMA NodeEventStep ==
    ASSUME TypeOK, NodeOK', SentStays, events' \subseteq Event,
           UNCHANGED <<db, call, ops, consumers, wakes>>
    PROVE  StepOK
<1>1. TableStep /\ TableOK' /\ LogOK' /\ CallsOK' /\ OpsOK' /\ QueuesOK'
  BY StutterTable, TypeParts DEF db, LogOK, CallsOK, OpsOK, QueuesOK
<1> QED BY <1>1, LocalsKept, TypePartsNext DEF StepOK

LEMMA NodeReceivesOK ==
    ASSUME TypeOK, NEW x \in Reachable, NodeReceives(x)
    PROVE  StepOK
<1> DEFINE e == [kind |-> IF x \in Hold THEN "hold_invoice_accepted" ELSE "payment_received",
                 pay |-> x, fee |-> 0]
<1>1. e \in Event /\ Emit(e)
  BY DEF NodeReceives, Event, EventKinds
<1> HIDE DEF e
<1>2. NodeOK' /\ SentStays
  BY TypeParts DEF NodeReceives, NodeOK, SentStays, HtlcStates
<1> QED BY <1>1, <1>2, EmitType, NodeEventStep DEF NodeReceives

LEMMA HoldExpiresOK ==
    ASSUME TypeOK, NEW x, HoldExpires(x)
    PROVE  StepOK
<1>1. NodeOK' /\ SentStays
  BY TypeParts DEF HoldExpires, NodeOK, SentStays, HtlcStates
<1> QED BY <1>1, NodeEventStep, TypeParts DEF HoldExpires, QueuesOK

LEMMA PaidOutsideOK ==
    ASSUME TypeOK, NEW x \in Outside, PaidOutside(x)
    PROVE  StepOK
<1> DEFINE h == HashOf[x]
           r == [status |-> "sent", pay |-> x, fee |-> 0]
           e == [kind |-> "payment_sent", pay |-> x, fee |-> 0]
<1>1. e \in Event /\ Emit(e) /\ r \in OutPayment /\ h \in Hashes
  BY DEF PaidOutside, Event, EventKinds, OutPayment, OutStates, Hashes
<1>2. h \notin DOMAIN out /\ out' = [g \in DOMAIN out \cup {h} |-> IF g # h THEN out[g] ELSE r]
  BY DEF PaidOutside
<1> HIDE DEF e, r, h
<1>3. NodeOK' /\ SentStays
  BY <1>1, <1>2, TypeParts DEF PaidOutside, NodeOK, SentStays
<1> QED BY <1>1, <1>3, EmitType, NodeEventStep DEF PaidOutside

LEMMA StopNodeOK ==
    ASSUME TypeOK, StopNode
    PROVE  StepOK
<1> DEFINE S == {q \in DOMAIN call : call[q].pc = "waiting"}
<1>1. /\ UNCHANGED <<txs, announced, revived, ops, events, consumers, wakes, crashes, out, htlc>>
      /\ running' = FALSE /\ stops' = stops + 1
  BY DEF StopNode, db
<1>2. NodeOK' /\ SentStays
  <2>1. running' \in BOOLEAN
    BY <1>1
  <2>2. stops' \in Nat /\ crashes' \in Nat
    BY <1>1, TypeParts DEF NodeOK
  <2>3. SentStays
    BY <1>1 DEF SentStays
  <2> QED BY <1>1, <2>1, <2>2, <2>3, TypeParts DEF NodeOK
<1>3. call' = [q \in DOMAIN call |-> IF q \in S THEN [call[q] EXCEPT !.pc = "fail"] ELSE call[q]]
  BY DEF StopNode
<1>4. CallsOK' /\ LocalsOK' /\ TableStep
  <2>1. \A q \in DOMAIN call : q \in S => call[q].pc = "waiting"
    OBVIOUS
  <2> HIDE DEF S
  <2> QED BY <1>1, <1>2, <1>3, <2>1, AnswerStep
<1>5. TableOK' /\ LogOK' /\ OpsOK' /\ QueuesOK'
  BY <1>1, StutterTable, TypeParts DEF LogOK, OpsOK, QueuesOK
<1> QED BY <1>2, <1>4, <1>5, TypePartsNext DEF StepOK

LEMMA StartNodeOK ==
    ASSUME TypeOK, StartNode
    PROVE  StepOK
<1>1. NodeOK' /\ SentStays
  BY TypeParts DEF StartNode, NodeOK, SentStays
<1> QED BY <1>1, NodeEventStep, TypeParts DEF StartNode, QueuesOK

LEMMA CrashOK ==
    ASSUME TypeOK, Crash
    PROVE  StepOK
<1>1. /\ UNCHANGED <<txs, announced, revived, stops, out, htlc>>
      /\ crashes' = crashes + 1 /\ running' = TRUE
      /\ call' = [p \in {} |-> 0] /\ ops' = [o \in {} |-> 0]
      /\ consumers' = {} /\ wakes' = {} /\ events' \subseteq events
  BY DEF Crash, db
<1>2. TableStep /\ TableOK'
  BY <1>1, StutterTable, TypeParts
<1>3. LogOK' /\ CallsOK' /\ OpsOK' /\ QueuesOK'
  BY <1>1, TypeParts DEF LogOK, CallsOK, OpsOK, QueuesOK
<1>4. NodeOK' /\ SentStays
  BY <1>1, TypeParts DEF NodeOK, SentStays
<1>5. LocalsOK'
  BY <1>1, <1>2, <1>4, LocalsStep, TypeParts
<1> QED BY <1>2, <1>3, <1>4, <1>5, TypePartsNext DEF StepOK

-----------------------------------------------------------------------------
(* What holds of every step.                                               *)

LEMMA NextOK == TypeOK /\ [Next]_vars => StepOK
<1> SUFFICES ASSUME TypeOK, [Next]_vars
             PROVE  StepOK
  OBVIOUS
<1>1. CASE Next
  BY <1>1, MakeInvoiceOK, BeginPaymentOK, PayerStepOK, BeginHoldOperationOK, OperatorStepOK,
     ConsumeEventOK, CommitEventOK, CheckUnsettledTransactionOK, NodeResolvesOK,
     NodeReceivesOK, HoldExpiresOK, PaidOutsideOK, StopNodeOK, StartNodeOK, CrashOK
     DEF Next
<1>2. CASE UNCHANGED vars
  <2>1. UNCHANGED <<db, call, ops, events, consumers, wakes>> /\ UNCHANGED node
    BY <1>2 DEF vars, db, node
  <2> QED BY <2>1, NodeKept, NodeEventStep, TypeParts DEF QueuesOK
<1> QED BY <1>1, <1>2

LEMMA InitOK == Init => TypeOK
<1> SUFFICES ASSUME Init PROVE TypeOK
  OBVIOUS
<1>1. LogOK
  BY DEF Init, LogOK
<1>2. TableOK /\ CallsOK /\ OpsOK /\ NodeOK /\ QueuesOK /\ LocalsOK
  BY DEF Init, TableOK, CallsOK, OpsOK, NodeOK, QueuesOK, LocalsOK, HtlcStates
<1> QED BY <1>1, <1>2, TypeParts

(* Type correctness: every variable has its type, and every row that a     *)
(* payment, a hold invoice operation or an event consumer remembers        *)
(* between two database transactions still exists, has the type and the    *)
(* hash its next update takes it for (MarkTransactionSettled and           *)
(* markPaymentFailed update the row they are given by its primary key).    *)
THEOREM TypeCorrect == Spec => []TypeOK
<1>1. TypeOK /\ [Next]_vars => TypeOK'
  BY NextOK DEF StepOK
<1> QED BY <1>1, InitOK, PTL DEF Spec

(* A settled row is final: no retry, late answer of the node, event or     *)
(* cancellation changes it again (markPaymentFailed refuses settled rows,  *)
(* markTransactionSettled finds them first).                               *)
THEOREM SettledRowsAreFinal == Spec => SettledIsFinal
<1>1. TypeOK /\ [Next]_vars =>
        [\A i \in DOMAIN txs : Settled(i) => i \in DOMAIN txs' /\ txs'[i] = txs[i]]_vars
  BY NextOK DEF StepOK, TableStep, KeepsRows
<1> QED BY <1>1, TypeCorrect, PTL DEF Spec, SettledIsFinal

(* The lookup that guards every settlement sees all rows of the payment.   *)
LEMMA LookupSeesPayment ==
    ASSUME NEW x \in Requests, NEW y \in Requests, SamePayment(x, y)
    PROVE  SameRequest(x, y)
BY DEF SamePayment, SameRequest

LEMMA OnceStep ==
    ASSUME TypeOK, TypeOK', SettledOncePerPayment, TableStep
    PROVE  SettledOncePerPayment'
<1> SUFFICES ASSUME NEW i \in DOMAIN txs', NEW j \in DOMAIN txs',
                    txs'[i].state = "SETTLED", txs'[j].state = "SETTLED",
                    txs'[i].type = txs'[j].type, SamePayment(txs'[i].pay, txs'[j].pay),
                    i # j
             PROVE  FALSE
  BY DEF SettledOncePerPayment, Settled, SamePayment
<1>1. txs'[i] \in Row /\ txs'[j] \in Row /\ \A k \in DOMAIN txs : txs[k] \in Row
  BY DEF TypeOK
<1>2. ASSUME NEW k \in DOMAIN txs', NEW l \in DOMAIN txs',
             txs'[k].state = "SETTLED", txs'[l].state = "SETTLED", k # l,
             txs'[k].type = txs'[l].type, SamePayment(txs'[k].pay, txs'[l].pay),
             txs'[k] \in Row, txs'[l] \in Row
      PROVE  ~NewlySettled(k)
  <2> SUFFICES ASSUME NewlySettled(k) PROVE FALSE
    OBVIOUS
  <2>1. FindSettled(txs, txs'[k].type, txs'[k].pay) = {} /\ ~NewlySettled(l)
    BY <1>2 DEF TableStep, SettlesOnce
  <2>2. l \in DOMAIN txs /\ Settled(l) /\ txs'[l] = txs[l]
    BY <1>2, <2>1 DEF NewlySettled, TableStep, KeepsRows
  <2>3. SameRequest(txs'[k].pay, txs[l].pay)
    BY <1>2, <2>2, LookupSeesPayment DEF Row
  <2>4. l \in FindSettled(txs, txs'[k].type, txs'[k].pay)
    BY <1>2, <2>2, <2>3 DEF FindSettled, FindByRequest, FindByHash, SameRequest, Settled
  <2> QED BY <2>1, <2>4
<1>3. SamePayment(txs'[j].pay, txs'[i].pay)
  BY DEF SamePayment
<1>4. ~NewlySettled(i) /\ ~NewlySettled(j)
  BY <1>1, <1>2, <1>3
<1>5. /\ i \in DOMAIN txs /\ Settled(i) /\ txs'[i] = txs[i]
      /\ j \in DOMAIN txs /\ Settled(j) /\ txs'[j] = txs[j]
  BY <1>4 DEF NewlySettled, TableStep, KeepsRows
<1> QED BY <1>5 DEF SettledOncePerPayment

(* At most one row of a payment is ever settled, whichever of the payer,   *)
(* the events in any order, the polling and the retries get there first    *)
(* (findSettledTransaction inside the transaction that settles).           *)
THEOREM SettledAtMostOnce == Spec => []SettledOncePerPayment
<1>1. Init => SettledOncePerPayment
  BY DEF Init, SettledOncePerPayment
<1>2. TypeOK /\ SettledOncePerPayment /\ [Next]_vars => SettledOncePerPayment'
  BY NextOK, OnceStep DEF StepOK
<1> QED BY <1>1, <1>2, TypeCorrect, PTL DEF Spec

-----------------------------------------------------------------------------
(* SettledMeansPaid: the table never calls a sent payment settled that      *)
(* nobody paid.  The property is not inductive: what settles a row is a     *)
(* message received earlier, so the invariant says of every message on its  *)
(* way that it is true (SuccessIsTrue).                                     *)

(* The node files its payments under their hash.                           *)
OutByHash == \A h \in DOMAIN out : HashOf[out[h].pay] = h

(* The inductive invariant.                                                *)
PaidInv == SettledMeansPaid /\ SuccessIsTrue /\ OutByHash

-----------------------------------------------------------------------------
(* What was paid stays paid.                                               *)

LEMMA SentKept ==
    ASSUME SentStays, NEW x, Sent(x)
    PROVE  Sent(x)'
BY DEF SentStays, Sent

LEMMA ReceivedKept ==
    ASSUME KeepsRows, NEW x, ReceivedHere(x)
    PROVE  ReceivedHere(x)'
<1>1. PICK i \in DOMAIN txs : /\ txs[i].type = "incoming" /\ txs[i].state = "SETTLED"
                              /\ HashOf[txs[i].pay] = HashOf[x]
  BY DEF ReceivedHere, FindByHash
<1>2. i \in DOMAIN txs' /\ txs'[i] = txs[i]
  BY <1>1 DEF KeepsRows, Settled
<1> QED BY <1>1, <1>2 DEF ReceivedHere, FindByHash

LEMMA PaidKept ==
    ASSUME StepOK, NEW x, Paid(x)
    PROVE  Paid(x)'
BY SentKept, ReceivedKept DEF StepOK, TableStep, Paid

(* Paying for a row with the hash of x is paying for x.                    *)
LEMMA PaidByHash ==
    ASSUME NEW x, NEW y, HashOf[x] = HashOf[y], Paid(x)
    PROVE  Paid(y)
BY DEF Paid, Sent, ReceivedHere, FindByHash

LEMMA PaidByHashNext ==
    ASSUME NEW x, NEW y, HashOf[x] = HashOf[y], Paid(x)'
    PROVE  Paid(y)'
BY DEF Paid, Sent, ReceivedHere, FindByHash

-----------------------------------------------------------------------------
(* What is new in the next state is true; what is not was true before.     *)

TableIsPaid ==
    \A i, x : NewlySettled(i) /\ txs'[i].type = "outgoing" /\ txs'[i].pay = x => Paid(x)'

LEMMA TableStepPaid ==
    ASSUME TypeOK, StepOK, SettledMeansPaid, TableIsPaid
    PROVE  SettledMeansPaid'
<1>1. ASSUME NEW i \in DOMAIN txs', NEW x, txs'[i].state = "SETTLED",
             txs'[i].type = "outgoing", txs'[i].pay = x
      PROVE  Paid(x)'
  <2>1. CASE NewlySettled(i)
    BY <1>1, <2>1 DEF TableIsPaid
  <2>2. CASE ~NewlySettled(i)
    <3>1. i \in DOMAIN txs /\ Settled(i) /\ txs'[i] = txs[i]
      BY <1>1, <2>2 DEF NewlySettled, StepOK, TableStep, KeepsRows
    <3>2. Paid(x)
      BY <1>1, <3>1 DEF SettledMeansPaid
    <3> QED BY <3>2, PaidKept
  <2> QED BY <2>1, <2>2
<1> QED BY <1>1 DEF SettledMeansPaid, Settled, Paid, Sent, ReceivedHere, FindByHash

(* The reports of the next state, each either an old one or a true one.    *)
CallsAreTrue ==
    \A p \in DOMAIN call' : \A x : call'[p].pc = "settle" /\ call'[p].pay = x =>
        \/ p \in DOMAIN call /\ call[p].pc = "settle" /\ call[p].pay = x
        \/ Paid(x)'

(* A goroutine that is woken is still waiting for the same invoice.        *)
WakesAreTrue ==
    \A w \in wakes' :
        /\ w.to \in DOMAIN call /\ w.to \in DOMAIN call'
        /\ call'[w.to].pc \in {"registered", "holding"}
        /\ call'[w.to].pay = call[w.to].pay
        /\ w \in wakes \/ \A x : w.kind = "settled" /\ call[w.to].pay = x => ReceivedHere(x)'

QueuesAreTrue ==
    /\ \A e \in events' : e.kind = "payment_sent" => e \in events \/ Sent(e.pay)'
    /\ \A c \in consumers' : c.kind = "payment_sent" => c \in consumers \/ Sent(c.pay)'

LEMMA ReportsStep ==
    ASSUME TypeOK, StepOK, SuccessIsTrue, CallsAreTrue, WakesAreTrue, QueuesAreTrue
    PROVE  SuccessIsTrue'
<1>1. ASSUME NEW p \in DOMAIN call', NEW x, call'[p].pc = "settle", call'[p].pay = x
      PROVE  Paid(x)'
  <2>1. CASE p \in DOMAIN call /\ call[p].pc = "settle" /\ call[p].pay = x
    <3>1. Paid(x)
      BY <2>1 DEF SuccessIsTrue
    <3> QED BY <3>1, PaidKept
  <2> QED BY <1>1, <2>1 DEF CallsAreTrue
<1>2. ASSUME NEW w \in wakes', NEW x, w.kind = "settled", call'[w.to].pay = x
      PROVE  ReceivedHere(x)'
  <2>1. call[w.to].pay = x
    BY <1>2 DEF WakesAreTrue
  <2>2. CASE w \in wakes
    <3>1. ReceivedHere(x)
      BY <1>2, <2>1, <2>2 DEF SuccessIsTrue, WakeIsTrue
    <3> QED BY <3>1, ReceivedKept DEF StepOK, TableStep
  <2> QED BY <1>2, <2>1, <2>2 DEF WakesAreTrue
<1>3. \A e \in events' : e.kind = "payment_sent" => Sent(e.pay)'
  BY SentKept DEF QueuesAreTrue, SuccessIsTrue, StepOK
<1>4. \A c \in consumers' : c.kind = "payment_sent" => Sent(c.pay)'
  BY SentKept DEF QueuesAreTrue, SuccessIsTrue, StepOK
<1>5. \A p \in DOMAIN call' : call'[p].pc = "settle" => Paid(call[p].pay)'
  BY <1>1 DEF Paid, Sent, ReceivedHere, FindByHash
<1>6. \A w \in wakes' : WakeIsTrue(w)'
  BY <1>2 DEF WakesAreTrue, WakeIsTrue, ReceivedHere, FindByHash
<1> QED BY <1>3, <1>4, <1>5, <1>6 DEF SuccessIsTrue

StepPaid == TableIsPaid /\ CallsAreTrue /\ WakesAreTrue /\ QueuesAreTrue

(* Steps that settle no row.                                               *)
NoneNew == \A i : ~NewlySettled(i)

LEMMA NoneNewUnchanged == ASSUME UNCHANGED txs PROVE NoneNew
BY DEF NoneNew, NewlySettled, Settled

LEMMA NoneNewInsert ==
    ASSUME NEW i, IsNextId(txs, i), NEW r, r.state # "SETTLED", txs' = Insert(txs, i, r)
    PROVE  NoneNew
<1>1. /\ DOMAIN txs' = DOMAIN txs \cup {i} /\ txs'[i] = r
      /\ \A j \in DOMAIN txs \ {i} : txs'[j] = txs[j]
  BY DEF Insert
<1> QED BY <1>1 DEF NoneNew, NewlySettled, Settled

LEMMA NoneNewFailed ==
    ASSUME TypeOK, NEW i \in DOMAIN txs, MarkPaymentFailed(i)
    PROVE  NoneNew
BY DEF TypeOK, MarkPaymentFailed, NoneNew, NewlySettled, Settled, Row

LEMMA NoneNewAccepted ==
    ASSUME TypeOK, NEW x, NEW self, MarkHoldInvoiceAccepted(x, self)
    PROVE  NoneNew
<1> DEFINE found == FindByRequest(txs, "incoming", {"PENDING"}, x)
<1>1. CASE found = {}
  BY <1>1, NoneNewUnchanged DEF MarkHoldInvoiceAccepted
<1>2. CASE found # {}
  <2>1. PICK i \in found : txs' = [txs EXCEPT ![i].state = "ACCEPTED", ![i].self = self]
    BY <1>2 DEF MarkHoldInvoiceAccepted
  <2>2. i \in DOMAIN txs
    BY DEF FindByRequest, FindByHash
  <2> DEFINE r == [txs[i] EXCEPT !.state = "ACCEPTED", !.self = self]
  <2>3. txs' = [txs EXCEPT ![i] = r] /\ r.state = "ACCEPTED"
    <3>1. txs \in [DOMAIN txs -> Row]
      BY DEF TypeOK
    <3>2. txs' = [txs EXCEPT ![i] = r]
      BY <2>1, <2>2, <3>1
    <3>3. r.state = "ACCEPTED"
      BY <2>2, <3>1 DEF Row
    <3> QED BY <3>2, <3>3
  <2> HIDE DEF r, found
  <2> QED BY <2>2, <2>3 DEF NoneNew, NewlySettled, Settled, TypeOK
<1> QED BY <1>1, <1>2

(* What settling a row does to the table and to the waiting goroutines.    *)
SettleEffect(type, x) ==
    /\ \A i : NewlySettled(i) => txs'[i].type = type /\ txs'[i].pay = x
    /\ \E i \in DOMAIN txs' : /\ txs'[i].state = "SETTLED" /\ txs'[i].type = type
                              /\ HashOf[txs'[i].pay] = HashOf[x]
    /\ \A w \in wakes' : w \in wakes \/ (type = "incoming" /\ w.to \in Waiters(x))

LEMMA AlreadySettledEffect ==
    ASSUME NEW type, NEW x, FindSettled(txs, type, x) # {}, UNCHANGED <<txs, wakes>>
    PROVE  SettleEffect(type, x)
<1>1. PICK i \in DOMAIN txs : /\ txs[i].state = "SETTLED" /\ txs[i].type = type
                              /\ HashOf[txs[i].pay] = HashOf[x]
  BY DEF FindSettled, FindByRequest, FindByHash
<1>2. NoneNew
  BY NoneNewUnchanged
<1> QED BY <1>1, <1>2 DEF SettleEffect, NoneNew

LEMMA AnnounceEffect ==
    ASSUME NEW type, NEW x, Announce(type, x)
    PROVE  \A w \in wakes' : w \in wakes \/ (type = "incoming" /\ w.to \in Waiters(x))
BY DEF Announce, Notify

LEMMA MarkSettledEffect ==
    ASSUME TypeOK, NEW i \in DOMAIN txs, NEW fee \in Nat, NEW self \in BOOLEAN,
           MarkTransactionSettled(i, fee, self)
    PROVE  SettleEffect(txs[i].type, txs[i].pay)
<1> DEFINE type == txs[i].type
           x == txs[i].pay
           r == [txs[i] EXCEPT !.state = "SETTLED", !.fee = fee, !.reserve = 0, !.self = self]
<1>1. CASE FindSettled(txs, type, x) # {}
  BY <1>1, AlreadySettledEffect DEF MarkTransactionSettled
<1>2. CASE FindSettled(txs, type, x) = {}
  <2>1. SetSettled(i, fee, self)
    BY <1>2 DEF MarkTransactionSettled
  <2>2. txs' = [txs EXCEPT ![i] = r] /\ r.state = "SETTLED" /\ r.type = type /\ r.pay = x
    <3>1. txs \in [DOMAIN txs -> Row]
      BY DEF TypeOK
    <3>2. txs' = [txs EXCEPT ![i] = r]
      BY <2>1, <3>1 DEF SetSettled
    <3>3. r.state = "SETTLED" /\ r.type = txs[i].type /\ r.pay = txs[i].pay
      BY <3>1 DEF Row
    <3> QED BY <3>2, <3>3
  <2> HIDE DEF r
  <2>3. /\ i \in DOMAIN txs' /\ txs'[i] = r
        /\ \A j : NewlySettled(j) => j = i
    BY <2>2 DEF NewlySettled, Settled, TypeOK
  <2>4. \A w \in wakes' : w \in wakes \/ (type = "incoming" /\ w.to \in Waiters(x))
    BY <2>1, AnnounceEffect DEF SetSettled
  <2> QED BY <2>2, <2>3, <2>4 DEF SettleEffect
<1> QED BY <1>1, <1>2

LEMMA CreateSettledEffect ==
    ASSUME TypeOK, NEW i, NEW type \in Types, NEW x \in Requests, NEW fee \in Nat,
           CreateSettledTransactionFromNotification(i, type, x, fee)
    PROVE  SettleEffect(type, x)
<1> DEFINE r == [type |-> type, state |-> "SETTLED", pay |-> x,
                 app |-> IF type = "incoming" /\ x \in Keysends \cap Own
                         THEN Payee[x] ELSE NoApp,
                 fee |-> fee, reserve |-> 0, self |-> FALSE]
<1>1. CASE FindSettled(txs, type, x) # {}
  BY <1>1, AlreadySettledEffect DEF CreateSettledTransactionFromNotification
<1>2. CASE FindSettled(txs, type, x) = {}
  <2>1. IsNextId(txs, i) /\ txs' = Insert(txs, i, r) /\ Announce(type, x)
    BY <1>2 DEF CreateSettledTransactionFromNotification
  <2>2. r.state = "SETTLED" /\ r.type = type /\ r.pay = x
    OBVIOUS
  <2> HIDE DEF r
  <2>3. /\ i \in DOMAIN txs' /\ txs'[i] = r
        /\ \A j : NewlySettled(j) => j = i
    BY <2>1 DEF Insert, NewlySettled, Settled
  <2> QED BY <2>1, <2>2, <2>3, AnnounceEffect DEF SettleEffect
<1> QED BY <1>1, <1>2

-----------------------------------------------------------------------------
(* A step of payer p that settles no row.                                  *)

OthersSame(p) ==
    /\ DOMAIN call' \subseteq DOMAIN call \cup {p}
    /\ \A q \in DOMAIN call \ {p} : q \in DOMAIN call' /\ call'[q] = call[q]

NotWaiting(p) == p \in DOMAIN call => call[p].pc \notin {"registered", "holding"}

ReportsTruth(p) ==
    \A x : p \in DOMAIN call' /\ call'[p].pc = "settle" /\ call'[p].pay = x => Paid(x)'

LEMMA OwnStep ==
    ASSUME TypeOK, SuccessIsTrue, NEW p, OthersSame(p), ReportsTruth(p),
           UNCHANGED <<events, consumers>>, wakes' \subseteq wakes,
           \A w \in wakes' : w.to = p =>
               /\ p \in DOMAIN call' /\ call'[p].pc \in {"registered", "holding"}
               /\ call'[p].pay = call[p].pay
    PROVE  CallsAreTrue /\ WakesAreTrue /\ QueuesAreTrue
<1>1. CallsAreTrue
  BY DEF CallsAreTrue, OthersSame, ReportsTruth
<1>2. WakesAreTrue
  BY DEF WakesAreTrue, OthersSame, SuccessIsTrue, WakeIsTrue
<1> QED BY <1>1, <1>2 DEF QueuesAreTrue

LEMMA OwnStepNoWake ==
    ASSUME TypeOK, SuccessIsTrue, NEW p, OthersSame(p), ReportsTruth(p), NotWaiting(p),
           UNCHANGED <<events, consumers, wakes>>
    PROVE  CallsAreTrue /\ WakesAreTrue /\ QueuesAreTrue
<1>1. \A w \in wakes' : w.to # p
  BY DEF SuccessIsTrue, WakeIsTrue, NotWaiting
<1> QED BY <1>1, OwnStep

LEMMA GotoSame ==
    ASSUME TypeOK, NEW p \in DOMAIN call, NEW pc, Goto(p, pc)
    PROVE  /\ OthersSame(p) /\ DOMAIN call' = DOMAIN call
           /\ call'[p].pc = pc /\ call'[p].pay = call[p].pay
BY DEF TypeOK, Goto, OthersSame, Call

LEMMA NoneNewPaid == ASSUME NoneNew PROVE TableIsPaid
BY DEF NoneNew, TableIsPaid

(* Where a payer goes without settling anything or reporting success.      *)
LEMMA GotoPaid ==
    ASSUME TypeOK, SuccessIsTrue, NoneNew, NEW p \in DOMAIN call, NEW pc, pc # "settle",
           Goto(p, pc), NotWaiting(p), UNCHANGED <<events, consumers, wakes>>
    PROVE  StepPaid
<1>1. ReportsTruth(p) /\ OthersSame(p)
  BY GotoSame DEF ReportsTruth
<1> QED BY <1>1, OwnStepNoWake, NoneNewPaid DEF StepPaid

LEMMA ReturnPaid ==
    ASSUME TypeOK, SuccessIsTrue, TableIsPaid, NEW p \in DOMAIN call, Return(p),
           NotWaiting(p), UNCHANGED <<events, consumers, wakes>>
    PROVE  StepPaid
<1>1. ReportsTruth(p) /\ OthersSame(p)
  BY DEF ReportsTruth, OthersSame, Return
<1> QED BY <1>1, OwnStepNoWake DEF StepPaid

LEMMA BeginPaymentPaid ==
    ASSUME TypeOK, SuccessIsTrue, NEW p, NEW x, NEW a, BeginPayment(p, x, a)
    PROVE  StepPaid
<1>1. UNCHANGED <<txs, events, consumers, wakes>> /\ NotWaiting(p)
  BY DEF BeginPayment, NotWaiting
<1>2. OthersSame(p) /\ ReportsTruth(p)
  BY DEF BeginPayment, OthersSame, ReportsTruth
<1> QED BY <1>1, <1>2, OwnStepNoWake, NoneNewUnchanged, NoneNewPaid DEF StepPaid

LEMMA CreateOutgoingPaid ==
    ASSUME TypeOK, SuccessIsTrue, NEW p, NEW i, CreateOutgoing(p, i)
    PROVE  StepPaid
<1> DEFINE c == call[p]
           amount == AmountOf[c.pay]
           pc == IF ~c.self THEN "send"
                 ELSE IF c.pay \in Keysends THEN "keysendIncoming" ELSE "intercept"
           r == [type |-> "outgoing", state |-> "PENDING", pay |-> c.pay, app |-> c.app,
                 fee |-> 0, reserve |-> CalculateFeeReserveMsat(amount), self |-> c.self]
<1>1. UNCHANGED <<events, consumers, wakes>> /\ p \in DOMAIN call /\ NotWaiting(p)
  BY DEF CreateOutgoing, NotWaiting, At
<1>2. CASE AlreadyPaid(c.pay) \/ ~ValidateCanPay(txs, c.app, amount, c.self)
  <2>1. Return(p) /\ UNCHANGED txs
    BY <1>2 DEF CreateOutgoing
  <2> QED BY <1>1, <2>1, ReturnPaid, NoneNewUnchanged, NoneNewPaid
<1>3. CASE ~(AlreadyPaid(c.pay) \/ ~ValidateCanPay(txs, c.app, amount, c.self))
  <2>1. /\ IsNextId(txs, i) /\ txs' = Insert(txs, i, r)
        /\ call' = [call EXCEPT ![p].row = i, ![p].pc = pc]
    BY <1>3 DEF CreateOutgoing
  <2>2. r.state # "SETTLED"
    OBVIOUS
  <2>3. pc # "settle"
    OBVIOUS
  <2> HIDE DEF r, pc
  <2>4. NoneNew
    BY <2>1, <2>2, NoneNewInsert
  <2>5. call' = [call EXCEPT ![p] = [call[p] EXCEPT !.row = i, !.pc = pc]]
    BY <1>1, <2>1
  <2>6. OthersSame(p) /\ call'[p].pc = pc
    BY <1>1, <2>5, TypeParts DEF CallsOK, OthersSame, Call
  <2>7. ReportsTruth(p)
    BY <2>3, <2>6 DEF ReportsTruth
  <2> QED BY <1>1, <2>4, <2>6, <2>7, OwnStepNoWake, NoneNewPaid DEF StepPaid
<1> QED BY <1>2, <1>3

LEMMA SendToNodePaid ==
    ASSUME TypeOK, SuccessIsTrue, NEW p, SendToNode(p)
    PROVE  StepPaid
<1>1. UNCHANGED <<txs, events, consumers, wakes>> /\ p \in DOMAIN call /\ NotWaiting(p)
  BY DEF SendToNode, NotWaiting, At, db
<1>2. PICK pc \in {"waiting", "fail"} : Goto(p, pc)
  BY DEF SendToNode
<1> QED BY <1>1, <1>2, GotoPaid, NoneNewUnchanged

LEMMA CreateKeysendIncomingPaid ==
    ASSUME TypeOK, SuccessIsTrue, NEW p, NEW i, CreateKeysendIncoming(p, i)
    PROVE  StepPaid
<1> DEFINE r == [type |-> "incoming", state |-> "PENDING", pay |-> call[p].pay,
                 app |-> Payee[call[p].pay], fee |-> 0, reserve |-> 0, self |-> TRUE]
<1>1. UNCHANGED <<events, consumers, wakes>> /\ p \in DOMAIN call /\ NotWaiting(p)
  BY DEF CreateKeysendIncoming, NotWaiting, At
<1>2. IsNextId(txs, i) /\ txs' = Insert(txs, i, r) /\ r.state # "SETTLED" /\ Goto(p, "intercept")
  BY DEF CreateKeysendIncoming
<1> HIDE DEF r
<1> QED BY <1>1, <1>2, NoneNewInsert, GotoPaid

LEMMA InterceptSelfPaymentPaid ==
    ASSUME TypeOK, SuccessIsTrue, NEW p, InterceptSelfPayment(p)
    PROVE  StepPaid
<1>1. UNCHANGED <<txs, events, consumers, wakes>> /\ p \in DOMAIN call /\ NotWaiting(p)
  BY DEF InterceptSelfPayment, NotWaiting, At, db
<1>2. CASE Goto(p, "fail") \/ Goto(p, "register")
  BY <1>1, <1>2, GotoPaid, NoneNewUnchanged
<1>3. CASE \E i : call' = [call EXCEPT ![p].incoming = i, ![p].pc = "selfSettle"]
  <2>1. PICK i : call' = [call EXCEPT ![p].incoming = i, ![p].pc = "selfSettle"]
    BY <1>3
  <2>2. call' = [call EXCEPT ![p] = [call[p] EXCEPT !.incoming = i, !.pc = "selfSettle"]]
    BY <1>1, <2>1
  <2>3. OthersSame(p) /\ call'[p].pc = "selfSettle"
    BY <1>1, <2>2, TypeParts DEF CallsOK, OthersSame, Call
  <2>4. ReportsTruth(p)
    BY <2>3 DEF ReportsTruth
  <2> QED BY <1>1, <2>3, <2>4, OwnStepNoWake, NoneNewUnchanged, NoneNewPaid DEF StepPaid
<1> QED BY <1>2, <1>3 DEF InterceptSelfPayment

LEMMA RegisterHoldConsumerPaid ==
    ASSUME TypeOK, SuccessIsTrue, NEW p, RegisterHoldConsumer(p)
    PROVE  StepPaid
<1>1. UNCHANGED <<txs, events, consumers, wakes>> /\ p \in DOMAIN call /\ NotWaiting(p)
  BY DEF RegisterHoldConsumer, NotWaiting, At, db
<1> QED BY <1>1, GotoPaid, NoneNewUnchanged DEF RegisterHoldConsumer

LEMMA GetInfoFailsPaid ==
    ASSUME TypeOK, SuccessIsTrue, NEW p, GetInfoFails(p)
    PROVE  StepPaid
<1>1. /\ UNCHANGED <<txs, events, consumers>> /\ p \in DOMAIN call /\ Goto(p, "fail")
      /\ wakes' = {w \in wakes : w.to # p}
  BY DEF GetInfoFails, At, db
<1>2. OthersSame(p) /\ ReportsTruth(p)
  BY <1>1, GotoSame DEF ReportsTruth
<1> QED BY <1>1, <1>2, OwnStep, NoneNewUnchanged, NoneNewPaid DEF StepPaid

LEMMA AcceptSelfHoldPaymentPaid ==
    ASSUME TypeOK, SuccessIsTrue, NEW p, AcceptSelfHoldPayment(p)
    PROVE  StepPaid
<1>1. /\ UNCHANGED <<events, consumers, wakes>> /\ p \in DOMAIN call /\ Goto(p, "holding")
      /\ MarkHoldInvoiceAccepted(call[p].pay, TRUE)
  BY DEF AcceptSelfHoldPayment, At
<1>2. /\ OthersSame(p) /\ ReportsTruth(p) /\ DOMAIN call' = DOMAIN call
      /\ call'[p].pc = "holding" /\ call'[p].pay = call[p].pay
  BY <1>1, GotoSame DEF ReportsTruth
<1> QED BY <1>1, <1>2, OwnStep, NoneNewAccepted, NoneNewPaid DEF StepPaid

(* The wake tells the truth, and goes on telling it.                       *)
LEMMA WakeSelfHoldPaymentPaid ==
    ASSUME TypeOK, StepOK, SuccessIsTrue, NEW p, WakeSelfHoldPayment(p)
    PROVE  StepPaid
<1>1. /\ UNCHANGED <<txs, events, consumers>> /\ p \in DOMAIN call
      /\ wakes' = {w \in wakes : w.to # p}
  BY DEF WakeSelfHoldPayment, At, db
<1>2. PICK w \in wakes : w.to = p /\ Goto(p, IF w.kind = "settled" THEN "settle" ELSE "fail")
  BY DEF WakeSelfHoldPayment
<1>3. OthersSame(p) /\ call'[p].pay = call[p].pay
      /\ call'[p].pc = IF w.kind = "settled" THEN "settle" ELSE "fail"
  BY <1>1, <1>2, GotoSame
<1>4. ASSUME NEW x, call'[p].pc = "settle", call'[p].pay = x
      PROVE  Paid(x)'
  <2>1. Paid(x)
    BY <1>2, <1>3, <1>4 DEF SuccessIsTrue, WakeIsTrue, Paid
  <2> QED BY <2>1, PaidKept
<1>5. ReportsTruth(p)
  BY <1>4 DEF ReportsTruth
<1> QED BY <1>1, <1>3, <1>5, OwnStep, NoneNewUnchanged, NoneNewPaid DEF StepPaid

LEMMA FailOutgoingPaid ==
    ASSUME TypeOK, SuccessIsTrue, NEW p, FailOutgoing(p)
    PROVE  StepPaid
<1>1. UNCHANGED <<events, consumers, wakes>> /\ p \in DOMAIN call /\ NotWaiting(p) /\ Return(p)
  BY DEF FailOutgoing, NotWaiting, At
<1>2. call[p].row \in DOMAIN txs /\ MarkPaymentFailed(call[p].row)
  BY TypeParts DEF FailOutgoing, At, LocalsOK, CallOK, IsRow
<1> QED BY <1>1, <1>2, ReturnPaid, NoneNewFailed, NoneNewPaid

-----------------------------------------------------------------------------
(* Steps that settle a row.                                                *)

NewWakesAreTrue ==
    \A w \in wakes' : w \in wakes \/
        /\ w.to \in DOMAIN call /\ call[w.to].pc \in {"registered", "holding"}
        /\ \A x : w.kind = "settled" /\ call[w.to].pay = x => ReceivedHere(x)'

LEMMA SettlePaid ==
    ASSUME NEW type, NEW x, SettleEffect(type, x), type = "outgoing" => Paid(x)'
    PROVE  TableIsPaid /\ NewWakesAreTrue /\ (type = "incoming" => ReceivedHere(x)')
<1>1. TableIsPaid
  BY DEF SettleEffect, TableIsPaid
<1>2. type = "incoming" => ReceivedHere(x)'
  BY DEF SettleEffect, ReceivedHere, FindByHash
<1>3. NewWakesAreTrue
  BY <1>2 DEF SettleEffect, NewWakesAreTrue, Waiters
<1> QED BY <1>1, <1>2, <1>3

(* No call changes.                                                        *)
LEMMA SameCalls ==
    ASSUME SuccessIsTrue, NewWakesAreTrue, UNCHANGED call
    PROVE  CallsAreTrue /\ WakesAreTrue
BY DEF CallsAreTrue, WakesAreTrue, NewWakesAreTrue, SuccessIsTrue, WakeIsTrue

LEMMA NoNewWakes == ASSUME UNCHANGED wakes PROVE NewWakesAreTrue
BY DEF NewWakesAreTrue

LEMMA SettleIncomingSelfPaymentPaid ==
    ASSUME TypeOK, SuccessIsTrue, NEW p, SettleIncomingSelfPayment(p)
    PROVE  StepPaid
<1> DEFINE i == call[p].incoming
<1> SUFFICES ASSUME NEW x, x = txs[i].pay
             PROVE  StepPaid
  OBVIOUS
<1>1. /\ p \in DOMAIN call /\ call[p].pc = "selfSettle" /\ Goto(p, "settle")
      /\ UNCHANGED <<events, consumers>> /\ MarkTransactionSettled(i, 0, TRUE)
  BY DEF SettleIncomingSelfPayment, At
<1>2. i \in DOMAIN txs /\ txs[i].type = "incoming" /\ HashOf[x] = HashOf[call[p].pay]
  BY <1>1, TypeParts DEF LocalsOK, CallOK, IsRow
<1>3. SettleEffect("incoming", x)
  BY <1>1, <1>2, MarkSettledEffect
<1>4. TableIsPaid /\ NewWakesAreTrue /\ ReceivedHere(x)'
  BY <1>3, SettlePaid
<1>5. OthersSame(p) /\ DOMAIN call' = DOMAIN call /\ call'[p].pay = call[p].pay
  BY <1>1, GotoSame
<1>6. ASSUME NEW y, call'[p].pay = y PROVE Paid(y)'
  <2>1. HashOf[x] = HashOf[y]
    BY <1>2, <1>5, <1>6
  <2> QED BY <1>4, <2>1, PaidByHashNext DEF Paid
<1>7. CallsAreTrue
  BY <1>5, <1>6 DEF CallsAreTrue, OthersSame
<1>8. WakesAreTrue
  BY <1>1, <1>4, <1>5 DEF WakesAreTrue, NewWakesAreTrue, OthersSame, SuccessIsTrue, WakeIsTrue
<1> QED BY <1>1, <1>4, <1>7, <1>8 DEF StepPaid, QueuesAreTrue

LEMMA SettleOutgoingPaid ==
    ASSUME TypeOK, StepOK, SuccessIsTrue, NEW p, SettleOutgoing(p)
    PROVE  StepPaid
<1> DEFINE c == call[p]
           fee == IF c.self THEN 0 ELSE out[HashOf[c.pay]].fee
           x == txs[c.row].pay
<1>1. /\ p \in DOMAIN call /\ c.pc = "settle" /\ c \in Call /\ CallOK(c)
      /\ UNCHANGED <<events, consumers>> /\ Return(p)
  BY TypeParts DEF SettleOutgoing, At, LocalsOK, CallsOK
<1>2. /\ c.row \in DOMAIN txs /\ c.self \in BOOLEAN
      /\ txs[c.row].type = "outgoing" /\ x = c.pay
  BY <1>1 DEF CallOK, IsRow, Call
<1>3. fee \in Nat
  BY <1>1, TypeParts DEF CallOK, NodeOK, OutPayment
<1>4. MarkTransactionSettled(c.row, fee, c.self)
  BY DEF SettleOutgoing
<1> HIDE DEF fee
<1>5. SettleEffect("outgoing", x)
  BY <1>2, <1>3, <1>4, MarkSettledEffect
<1>6. Paid(c.pay)
  BY <1>1 DEF SuccessIsTrue
<1>7. \A y : y = c.pay => Paid(y)'
  BY <1>6, PaidKept
<1>8. TableIsPaid /\ NewWakesAreTrue
  <2>1. ASSUME NEW y, y = x PROVE TableIsPaid /\ NewWakesAreTrue
    BY <1>2, <1>5, <1>7, <2>1, SettlePaid
  <2> QED BY <2>1
<1>9. OthersSame(p) /\ p \notin DOMAIN call'
  BY <1>1 DEF Return, OthersSame
<1>10. CallsAreTrue /\ WakesAreTrue
  BY <1>1, <1>8, <1>9
     DEF CallsAreTrue, WakesAreTrue, NewWakesAreTrue, OthersSame, SuccessIsTrue, WakeIsTrue
<1> QED BY <1>1, <1>8, <1>10 DEF StepPaid, QueuesAreTrue

LEMMA PayerStepPaid ==
    ASSUME TypeOK, StepOK, SuccessIsTrue, NEW p, PayerStep(p)
    PROVE  StepPaid
BY CreateOutgoingPaid, CreateKeysendIncomingPaid, SendToNodePaid, InterceptSelfPaymentPaid,
   SettleIncomingSelfPaymentPaid, RegisterHoldConsumerPaid, GetInfoFailsPaid,
   AcceptSelfHoldPaymentPaid, WakeSelfHoldPaymentPaid, SettleOutgoingPaid, FailOutgoingPaid
   DEF PayerStep

-----------------------------------------------------------------------------
(* The other steps.                                                        *)

NoNewSent == \A e \in events' : e \in events \/ e.kind # "payment_sent"

LEMMA EmitOther ==
    ASSUME NEW e, e.kind # "payment_sent", Emit(e)
    PROVE  NoNewSent
BY DEF Emit, NoNewSent

LEMMA QuietPaid ==
    ASSUME SuccessIsTrue, NoneNew, NoNewSent, UNCHANGED <<call, consumers, wakes>>
    PROVE  StepPaid
BY SameCalls, NoNewWakes, NoneNewPaid DEF StepPaid, QueuesAreTrue, NoNewSent

LEMMA MakeInvoicePaid ==
    ASSUME SuccessIsTrue, NEW x, NEW i, MakeInvoice(x, i)
    PROVE  StepPaid
<1> DEFINE r == [type |-> "incoming", state |-> "PENDING", pay |-> x,
                 app |-> Payee[x], fee |-> 0, reserve |-> 0, self |-> FALSE]
<1>1. IsNextId(txs, i) /\ txs' = Insert(txs, i, r) /\ r.state # "SETTLED"
      /\ UNCHANGED <<events, call, consumers, wakes>>
  BY DEF MakeInvoice
<1> HIDE DEF r
<1> QED BY <1>1, NoneNewInsert, QuietPaid DEF NoNewSent

LEMMA BeginHoldOperationPaid ==
    ASSUME SuccessIsTrue, NEW o, NEW pc, BeginHoldOperation(o, pc)
    PROVE  StepPaid
<1>1. UNCHANGED <<txs, events, call, consumers, wakes>>
  BY DEF BeginHoldOperation, db
<1> QED BY <1>1, NoneNewUnchanged, QuietPaid DEF NoNewSent

LEMMA AskNodePaid ==
    ASSUME SuccessIsTrue, NEW o, NEW pc, NEW next, NEW newHtlc, AskNode(o, pc, next, newHtlc)
    PROVE  StepPaid
<1>1. UNCHANGED <<txs, call, consumers, wakes>>
  BY DEF AskNode, db
<1>2. NoNewSent
  <2>1. CASE \E x : Emit([kind |-> "payment_received", pay |-> x, fee |-> 0])
    <3>1. PICK x : Emit([kind |-> "payment_received", pay |-> x, fee |-> 0])
      BY <2>1
    <3>2. [kind |-> "payment_received", pay |-> x, fee |-> 0].kind # "payment_sent"
      OBVIOUS
    <3> QED BY <3>1, <3>2, EmitOther
  <2>2. CASE UNCHANGED events
    BY <2>2 DEF NoNewSent
  <2> QED BY <2>1, <2>2 DEF AskNode
<1> QED BY <1>1, <1>2, NoneNewUnchanged, QuietPaid

LEMMA CommitSettleHoldInvoicePaid ==
    ASSUME TypeOK, SuccessIsTrue, NEW o, CommitSettleHoldInvoice(o)
    PROVE  StepPaid
<1> DEFINE i == ops[o].row
           x == txs[i].pay
<1>1. i \in DOMAIN txs /\ txs[i].type = "incoming" /\ ops[o].self \in BOOLEAN
  BY TypeParts DEF CommitSettleHoldInvoice, OpAt, OpsOK, Op, LocalsOK
<1>2. SettleEffect("incoming", x)
  BY <1>1, MarkSettledEffect DEF CommitSettleHoldInvoice
<1> HIDE DEF x
<1>3. TableIsPaid /\ NewWakesAreTrue
  BY <1>2, SettlePaid
<1> QED BY <1>3, SameCalls DEF CommitSettleHoldInvoice, StepPaid, QueuesAreTrue

LEMMA CommitCancelHoldInvoicePaid ==
    ASSUME TypeOK, SuccessIsTrue, NEW o, CommitCancelHoldInvoice(o)
    PROVE  StepPaid
<1>1. ops[o].row \in DOMAIN txs
  BY TypeParts DEF CommitCancelHoldInvoice, OpAt, LocalsOK
<1>2. TableIsPaid
  BY <1>1, NoneNewFailed, NoneNewPaid DEF CommitCancelHoldInvoice
<1>3. NewWakesAreTrue
  BY DEF CommitCancelHoldInvoice, Notify, Waiters, NewWakesAreTrue
<1> QED BY <1>2, <1>3, SameCalls DEF CommitCancelHoldInvoice, StepPaid, QueuesAreTrue

LEMMA OperatorStepPaid ==
    ASSUME TypeOK, SuccessIsTrue, NEW o, OperatorStep(o)
    PROVE  StepPaid
BY AskNodePaid, CommitSettleHoldInvoicePaid, CommitCancelHoldInvoicePaid
   DEF OperatorStep, SettleHoldInvoice, CancelHoldInvoice

(* An event keeps its payment on the way to the table.                     *)
LEMMA ConsumeEventPaid ==
    ASSUME TypeOK, StepOK, SuccessIsTrue, NEW e \in events, ConsumeEvent(e)
    PROVE  StepPaid
<1>1. UNCHANGED <<call, wakes>> /\ events' = events \ {e}
  BY DEF ConsumeEvent
<1>2. NoneNew
  <2>1. CASE MarkHoldInvoiceAccepted(e.pay, FALSE)
    BY <2>1, NoneNewAccepted
  <2>2. CASE UNCHANGED txs
    BY <2>2, NoneNewUnchanged
  <2> QED BY <2>1, <2>2 DEF ConsumeEvent, ConsumePaymentReceived, ConsumeHoldInvoiceAccepted,
                            ConsumePaymentSent, ConsumePaymentFailed
<1>3. \A c \in consumers' : c \in consumers \/ (c.kind = e.kind /\ c.pay = e.pay)
  <2>1. UNCHANGED consumers \/ \E row : Consume(e, row)
    BY DEF ConsumeEvent, ConsumePaymentReceived, ConsumeHoldInvoiceAccepted,
           ConsumePaymentSent, ConsumePaymentFailed
  <2> QED BY <2>1 DEF Consume
<1>4. ASSUME e.kind = "payment_sent", NEW x, x = e.pay PROVE Sent(x)'
  <2>1. Sent(x)
    BY <1>4 DEF SuccessIsTrue
  <2> QED BY <2>1, SentKept DEF StepOK
<1>5. QueuesAreTrue
  BY <1>1, <1>3, <1>4 DEF QueuesAreTrue
<1> QED BY <1>1, <1>2, <1>5, SameCalls, NoNewWakes, NoneNewPaid DEF StepPaid

LEMMA CommitEventPaid ==
    ASSUME TypeOK, StepOK, SuccessIsTrue, NEW c \in consumers, CommitEvent(c)
    PROVE  StepPaid
<1>1. c \in Consumer /\ ConsumerHasRow(c)
  BY TypeParts DEF QueuesOK, LocalsOK
<1>2. UNCHANGED <<call, events>> /\ consumers' \subseteq consumers
  BY DEF CommitEvent
<1>3. ASSUME c.kind = "payment_sent", NEW x, HashOf[x] = HashOf[c.pay] PROVE Paid(x)'
  <2>1. Sent(c.pay)
    BY <1>3 DEF SuccessIsTrue
  <2>2. Paid(x)
    BY <1>3, <2>1 DEF Paid, Sent
  <2> QED BY <2>2, PaidKept
<1>4. TableIsPaid /\ NewWakesAreTrue
  <2>1. CASE c.kind = "payment_failed"
    <3>1. c.row \in DOMAIN txs /\ MarkPaymentFailed(c.row) /\ UNCHANGED wakes
      BY <1>1, <2>1 DEF CommitEvent, ConsumerHasRow, IsRow
    <3> QED BY <3>1, NoneNewFailed, NoneNewPaid, NoNewWakes
  <2>2. CASE c.kind # "payment_failed" /\ c.row # 0
    <3> DEFINE x == txs[c.row].pay
               type == txs[c.row].type
    <3>1. /\ c.row \in DOMAIN txs /\ MarkTransactionSettled(c.row, c.fee, FALSE)
          /\ HashOf[x] = HashOf[c.pay] /\ (type = "outgoing" => c.kind = "payment_sent")
      BY <1>1, <2>2 DEF CommitEvent, ConsumerHasRow, IsRow
    <3>2. SettleEffect(type, x)
      BY <1>1, <3>1, MarkSettledEffect DEF Consumer
    <3>3. ASSUME NEW y, y = x PROVE TableIsPaid /\ NewWakesAreTrue
      <4>1. type = "outgoing" => Paid(y)'
        BY <1>3, <3>1, <3>3
      <4>2. ASSUME NEW t, t = type PROVE TableIsPaid /\ NewWakesAreTrue
        BY <3>2, <3>3, <4>1, <4>2, SettlePaid
      <4> QED BY <4>2
    <3> QED BY <3>3
  <2>3. CASE c.kind # "payment_failed" /\ c.row = 0
    <3> DEFINE type == IF c.kind = "payment_sent" THEN "outgoing" ELSE "incoming"
    <3>1. PICK i \in TxId : CreateSettledTransactionFromNotification(i, type, c.pay, c.fee)
      BY <2>3 DEF CommitEvent
    <3>2. type \in Types /\ (type = "outgoing" => c.kind = "payment_sent")
      BY DEF Types
    <3>3. SettleEffect(type, c.pay)
      BY <1>1, <3>1, <3>2, CreateSettledEffect DEF Consumer
    <3> QED BY <1>3, <3>2, <3>3, SettlePaid
  <2> QED BY <2>1, <2>2, <2>3
<1> QED BY <1>2, <1>4, SameCalls DEF StepPaid, QueuesAreTrue

LEMMA ResolvePaymentPaid ==
    ASSUME TypeOK, SuccessIsTrue, OutByHash, NEW h \in DOMAIN out, NEW status \in {"sent", "failed"},
           NEW fee \in Nat, ResolvePayment(h, status, fee)
    PROVE  StepPaid
<1>1. UNCHANGED <<txs, consumers, wakes>>
  BY DEF ResolvePayment, db
<1>2. out' = [out EXCEPT ![h] = [out[h] EXCEPT !.status = status, !.fee = fee]]
      /\ out[h] \in OutPayment
  BY TypeParts DEF ResolvePayment, NodeOK
<1>3. h \in DOMAIN out' /\ out'[h].status = status /\ DOMAIN out' = DOMAIN out
  BY <1>2, TypeParts DEF NodeOK, OutPayment
<1>4. /\ DOMAIN call' = DOMAIN call
      /\ \A q \in DOMAIN call :
           \/ call'[q] = call[q]
           \/ /\ call[q].pc = "waiting" /\ HashOf[call[q].pay] = h
              /\ call'[q].pay = call[q].pay
              /\ call'[q].pc = "settle" => status = "sent"
  BY TypeParts DEF ResolvePayment, CallsOK, Call
<1>5. ASSUME NEW x, HashOf[x] = h, status = "sent" PROVE Sent(x)'
  BY <1>3, <1>5 DEF Sent
<1>6. CallsAreTrue
  BY <1>4, <1>5 DEF CallsAreTrue, Paid
<1>7. WakesAreTrue
  BY <1>1, <1>4 DEF WakesAreTrue, SuccessIsTrue, WakeIsTrue
<1>8. QueuesAreTrue
  <2>1. \A e \in events' : e \in events \/
          (e.pay = out[h].pay /\ (e.kind = "payment_sent" => status = "sent"))
    BY DEF ResolvePayment, Emit
  <2>2. HashOf[out[h].pay] = h
    BY DEF OutByHash
  <2> QED BY <1>1, <1>5, <2>1, <2>2 DEF QueuesAreTrue
<1> QED BY <1>1, <1>6, <1>7, <1>8, NoneNewUnchanged, NoneNewPaid DEF StepPaid

LEMMA NodeResolvesPaid ==
    ASSUME TypeOK, SuccessIsTrue, OutByHash, NEW h \in DOMAIN out, NodeResolves(h)
    PROVE  StepPaid
<1>1. AmountOf[out[h].pay] \in Nat
  BY TypeParts, RequestAssumption DEF NodeOK, OutPayment
<1>2. CalculateFeeReserveMsat(AmountOf[out[h].pay]) \in Nat
  BY <1>1, FeeReserveType
<1> QED BY <1>2, ResolvePaymentPaid DEF NodeResolves

LEMMA NodeReceivesPaid ==
    ASSUME SuccessIsTrue, NEW x, NodeReceives(x) \/ HoldExpires(x)
    PROVE  StepPaid
<1>1. UNCHANGED <<txs, call, consumers, wakes>>
  BY DEF NodeReceives, HoldExpires, db
<1>2. NoNewSent
  BY DEF NodeReceives, HoldExpires, Emit, NoNewSent
<1> QED BY <1>1, <1>2, NoneNewUnchanged, QuietPaid

LEMMA PaidOutsidePaid ==
    ASSUME SuccessIsTrue, NEW x, PaidOutside(x)
    PROVE  StepPaid
<1>1. UNCHANGED <<txs, call, consumers, wakes>>
  BY DEF PaidOutside, db
<1>2. Sent(x)'
  BY DEF PaidOutside, Sent
<1>3. \A e \in events' : e \in events \/ e.pay = x
  BY DEF PaidOutside, Emit
<1>4. QueuesAreTrue
  BY <1>1, <1>2, <1>3 DEF QueuesAreTrue
<1> QED BY <1>1, <1>4, NoneNewUnchanged, NoneNewPaid, SameCalls, NoNewWakes DEF StepPaid

LEMMA StopNodePaid ==
    ASSUME TypeOK, SuccessIsTrue, StopNode
    PROVE  StepPaid
<1>1. UNCHANGED <<txs, events, consumers, wakes>>
  BY DEF StopNode, db
<1>2. /\ DOMAIN call' = DOMAIN call
      /\ \A q \in DOMAIN call :
           \/ call'[q] = call[q]
           \/ call[q].pc = "waiting" /\ call'[q].pc = "fail"
  BY TypeParts DEF StopNode, CallsOK, Call
<1>3. CallsAreTrue /\ WakesAreTrue
  BY <1>1, <1>2 DEF CallsAreTrue, WakesAreTrue, SuccessIsTrue, WakeIsTrue
<1> QED BY <1>1, <1>3, NoneNewUnchanged, NoneNewPaid DEF StepPaid, QueuesAreTrue

LEMMA StartOrCrashPaid ==
    ASSUME SuccessIsTrue, StartNode \/ Crash
    PROVE  StepPaid
<1>1. CASE StartNode
  <2>1. UNCHANGED <<txs, events, call, consumers, wakes>>
    BY <1>1 DEF StartNode, db
  <2> QED BY <2>1, NoneNewUnchanged, QuietPaid DEF NoNewSent
<1>2. CASE Crash
  <2>1. /\ UNCHANGED txs /\ wakes' = {} /\ consumers' = {} /\ events' \subseteq events
        /\ call' = [p \in {} |-> 0]
    BY <1>2 DEF Crash, db
  <2>2. CallsAreTrue /\ WakesAreTrue /\ QueuesAreTrue
    BY <2>1 DEF CallsAreTrue, WakesAreTrue, QueuesAreTrue
  <2> QED BY <2>1, <2>2, NoneNewUnchanged, NoneNewPaid DEF StepPaid
<1> QED BY <1>1, <1>2

LEMMA OutByHashStep ==
    ASSUME TypeOK, OutByHash, [Next]_vars
    PROVE  OutByHash'
<1>1. CASE UNCHANGED out
  BY <1>1 DEF OutByHash
<1>2. CASE \E p \in Payers : SendToNode(p)
  BY <1>2 DEF SendToNode, OutByHash
<1>3. CASE \E h \in DOMAIN out : NodeResolves(h)
  <2>1. PICK h \in DOMAIN out : \E status, fee : ResolvePayment(h, status, fee)
    BY <1>3 DEF NodeResolves
  <2>2. PICK status, fee : ResolvePayment(h, status, fee)
    BY <2>1
  <2>3. out' = [out EXCEPT ![h].status = status, ![h].fee = fee]
    BY <2>2 DEF ResolvePayment
  <2>4. DOMAIN out' = DOMAIN out /\ \A g \in DOMAIN out : out'[g].pay = out[g].pay
    BY <2>3, TypeParts DEF NodeOK, OutPayment
  <2> QED BY <2>4 DEF OutByHash
<1>4. CASE \E x \in Outside : PaidOutside(x)
  BY <1>4 DEF PaidOutside, OutByHash
<1>5. CASE Next
  <2>1. CASE \E p \in Payers : PayerStep(p)
    BY <1>1, <1>2, <2>1
       DEF PayerStep, node, CreateOutgoing, CreateKeysendIncoming, InterceptSelfPayment,
           SettleIncomingSelfPayment, RegisterHoldConsumer, GetInfoFails,
           AcceptSelfHoldPayment, WakeSelfHoldPayment, SettleOutgoing, FailOutgoing
  <2>2. CASE \E o \in Operators : OperatorStep(o)
    BY <1>1, <2>2
       DEF OperatorStep, SettleHoldInvoice, CancelHoldInvoice, AskNode,
           CommitSettleHoldInvoice, CommitCancelHoldInvoice, node
  <2>3. CASE \/ \E x \in Own, i \in TxId : MakeInvoice(x, i)
             \/ \E p \in Payers, x \in Payable, a \in Apps \cup {NoApp} : BeginPayment(p, x, a)
             \/ \E o \in Operators, pc \in {"settle", "cancel"} : BeginHoldOperation(o, pc)
    BY <1>1, <2>3 DEF MakeInvoice, BeginPayment, BeginHoldOperation, node
  <2>4. CASE \/ \E e \in events : ConsumeEvent(e)
             \/ \E c \in consumers : CommitEvent(c)
             \/ \E i \in TxId : CheckUnsettledTransaction(i)
    BY <1>1, <2>4 DEF ConsumeEvent, CommitEvent, CheckUnsettledTransaction, node
  <2>5. CASE \/ \E x \in Reachable : NodeReceives(x) \/ HoldExpires(x)
             \/ StopNode \/ StartNode \/ Crash
    BY <1>1, <2>5 DEF NodeReceives, HoldExpires, StopNode, StartNode, Crash
  <2> QED BY <1>3, <1>4, <1>5, <2>1, <2>2, <2>3, <2>4, <2>5 DEF Next
<1> QED BY <1>1, <1>5 DEF vars

LEMMA PaidInvStep ==
    ASSUME TypeOK, PaidInv, [Next]_vars, "payment_received" \in Emits
    PROVE  PaidInv'
<1>1. StepOK
  BY NextOK
<1>2. SuccessIsTrue /\ OutByHash
  BY DEF PaidInv
<1>3. StepPaid
  <2>1. CASE UNCHANGED vars
    BY <1>2, <2>1, NoneNewUnchanged, QuietPaid DEF vars, NoNewSent
  <2>2. CASE Next
    <3>1. \A i : ~CheckUnsettledTransaction(i)
      BY DEF CheckUnsettledTransaction
    <3> QED BY <1>1, <1>2, <2>2, <3>1, MakeInvoicePaid, BeginPaymentPaid, PayerStepPaid,
               BeginHoldOperationPaid, OperatorStepPaid, ConsumeEventPaid, CommitEventPaid,
               NodeResolvesPaid, NodeReceivesPaid, PaidOutsidePaid, StopNodePaid,
               StartOrCrashPaid DEF Next
  <2> QED BY <2>1, <2>2
<1>4. SettledMeansPaid'
  BY <1>1, <1>3, TableStepPaid DEF StepPaid, PaidInv
<1>5. SuccessIsTrue'
  BY <1>1, <1>2, <1>3, ReportsStep DEF StepPaid
<1> QED BY <1>2, <1>4, <1>5, OutByHashStep DEF PaidInv

(* For a node that publishes events: an outgoing row is settled only if    *)
(* the node sent a payment with its hash or an incoming row with its hash  *)
(* is settled, whatever calls, events, wakes and crashes interleave        *)
(* (markTransactionSettled is told of the success and does not ask).       *)
THEOREM SettledIsPaid ==
    ASSUME "payment_received" \in Emits
    PROVE  Spec => []SettledMeansPaid
<1>1. Init => PaidInv
  BY DEF Init, PaidInv, SettledMeansPaid, SuccessIsTrue, OutByHash
<1>2. TypeOK /\ PaidInv /\ [Next]_vars => PaidInv'
  BY PaidInvStep
<1>3. PaidInv => SettledMeansPaid
  BY DEF PaidInv
<1> QED BY <1>1, <1>2, <1>3, TypeCorrect, PTL DEF Spec

(* And no success is reported that is none: to a payer by the node, to the *)
(* waiting payer of a hold invoice, or by a sent event (interceptSelfHold- *)
(* Payment believes whatever arrives on its channel).                      *)
THEOREM ReportedSuccessIsTrue ==
    ASSUME "payment_received" \in Emits
    PROVE  Spec => []SuccessIsTrue
<1>1. Init => PaidInv
  BY DEF Init, PaidInv, SettledMeansPaid, SuccessIsTrue, OutByHash
<1>2. TypeOK /\ PaidInv /\ [Next]_vars => PaidInv'
  BY PaidInvStep
<1>3. PaidInv => SuccessIsTrue
  BY DEF PaidInv
<1> QED BY <1>1, <1>2, <1>3, TypeCorrect, PTL DEF Spec
-----------------------------------------------------------------------------
(* What is published.  Every step leaves the table alone or changes it by   *)
(* one of the five operations on a row, and only two of them publish.       *)

Inserted == \E i, r : /\ IsNextId(txs, i) /\ r.state # "SETTLED"
                      /\ txs' = Insert(txs, i, r) /\ UNCHANGED announced
Failed == \E i \in DOMAIN txs : MarkPaymentFailed(i)
Accepted == \E x, self : MarkHoldInvoiceAccepted(x, self) /\ UNCHANGED announced
MarkedSettled ==
    \E i \in DOMAIN txs, fee \in Nat, self \in BOOLEAN : MarkTransactionSettled(i, fee, self)
CreatedSettled ==
    \E i \in TxId, type \in Types, x \in Requests, fee \in Nat :
        CreateSettledTransactionFromNotification(i, type, x, fee)

TableOperation ==
    UNCHANGED <<txs, announced>> \/ Inserted \/ Failed \/ Accepted
    \/ MarkedSettled \/ CreatedSettled

LEMMA PayerOperation ==
    ASSUME TypeOK, NEW p \in Payers, PayerStep(p)
    PROVE  TableOperation
<1>1. ASSUME NEW i \in TxId, CreateOutgoing(p, i)
      PROVE  TableOperation
  <2> DEFINE c == call[p]
             r == [type |-> "outgoing", state |-> "PENDING", pay |-> c.pay, app |-> c.app,
                   fee |-> 0, reserve |-> CalculateFeeReserveMsat(AmountOf[c.pay]),
                   self |-> c.self]
  <2>1. r.state # "SETTLED"
    OBVIOUS
  <2>2. UNCHANGED announced /\ (UNCHANGED txs \/ (IsNextId(txs, i) /\ txs' = Insert(txs, i, r)))
    BY <1>1 DEF CreateOutgoing
  <2> HIDE DEF r
  <2> QED BY <2>1, <2>2 DEF TableOperation, Inserted
<1>2. ASSUME NEW i \in TxId, CreateKeysendIncoming(p, i)
      PROVE  TableOperation
  <2> DEFINE r == [type |-> "incoming", state |-> "PENDING", pay |-> call[p].pay,
                   app |-> Payee[call[p].pay], fee |-> 0, reserve |-> 0, self |-> TRUE]
  <2>1. r.state # "SETTLED" /\ IsNextId(txs, i) /\ txs' = Insert(txs, i, r) /\ UNCHANGED announced
    BY <1>2 DEF CreateKeysendIncoming
  <2> HIDE DEF r
  <2> QED BY <2>1 DEF TableOperation, Inserted
<1>3. CASE SettleIncomingSelfPayment(p)
  <2>1. call[p].incoming \in DOMAIN txs /\ MarkTransactionSettled(call[p].incoming, 0, TRUE)
    BY <1>3, TypeParts DEF SettleIncomingSelfPayment, At, LocalsOK, CallOK, IsRow
  <2> QED BY <2>1 DEF TableOperation, MarkedSettled
<1>4. CASE SettleOutgoing(p)
  <2> DEFINE c == call[p]
             fee == IF c.self THEN 0 ELSE out[HashOf[c.pay]].fee
  <2>1. /\ c.row \in DOMAIN txs /\ c.self \in BOOLEAN
        /\ ~c.self => HashOf[c.pay] \in DOMAIN out
    BY <1>4, TypeParts, CallsTyped DEF SettleOutgoing, At, LocalsOK, CallOK, IsRow, Call
  <2>2. fee \in Nat
    BY <2>1, TypeParts DEF NodeOK, OutPayment
  <2>3. MarkTransactionSettled(c.row, fee, c.self)
    BY <1>4 DEF SettleOutgoing
  <2> QED BY <2>1, <2>2, <2>3 DEF TableOperation, MarkedSettled
<1>5. CASE FailOutgoing(p)
  <2>1. call[p].row \in DOMAIN txs /\ MarkPaymentFailed(call[p].row)
    BY <1>5, TypeParts DEF FailOutgoing, At, LocalsOK, CallOK, IsRow
  <2> QED BY <2>1 DEF TableOperation, Failed
<1>6. CASE AcceptSelfHoldPayment(p)
  BY <1>6 DEF AcceptSelfHoldPayment, TableOperation, Accepted
<1>7. CASE \/ SendToNode(p) \/ InterceptSelfPayment(p) \/ RegisterHoldConsumer(p)
           \/ GetInfoFails(p) \/ WakeSelfHoldPayment(p)
  BY <1>7 DEF SendToNode, InterceptSelfPayment, RegisterHoldConsumer, GetInfoFails,
              WakeSelfHoldPayment, db, TableOperation
<1> QED BY <1>1, <1>2, <1>3, <1>4, <1>5, <1>6, <1>7 DEF PayerStep

LEMMA OperatorOperation ==
    ASSUME TypeOK, NEW o \in Operators, OperatorStep(o)
    PROVE  TableOperation
<1>1. CASE SettleHoldInvoice(o) \/ CancelHoldInvoice(o)
  BY <1>1 DEF SettleHoldInvoice, CancelHoldInvoice, AskNode, db, TableOperation
<1>2. CASE CommitSettleHoldInvoice(o)
  <2>1. /\ ops[o].row \in DOMAIN txs /\ ops[o].self \in BOOLEAN
        /\ MarkTransactionSettled(ops[o].row, 0, ops[o].self)
    BY <1>2, TypeParts DEF CommitSettleHoldInvoice, OpAt, LocalsOK, OpsOK, Op
  <2> QED BY <2>1 DEF TableOperation, MarkedSettled
<1>3. CASE CommitCancelHoldInvoice(o)
  <2>1. ops[o].row \in DOMAIN txs /\ MarkPaymentFailed(ops[o].row)
    BY <1>3, TypeParts DEF CommitCancelHoldInvoice, OpAt, LocalsOK
  <2> QED BY <2>1 DEF TableOperation, Failed
<1> QED BY <1>1, <1>2, <1>3 DEF OperatorStep

LEMMA CommitOperation ==
    ASSUME TypeOK, NEW c \in consumers, CommitEvent(c)
    PROVE  TableOperation
<1>1. /\ c \in Consumer
      /\ c.row # 0 => c.row \in DOMAIN txs
      /\ c.kind = "payment_failed" => c.row # 0
  BY TypeParts DEF QueuesOK, LocalsOK, ConsumerHasRow, IsRow
<1>2. c.fee \in Nat /\ c.pay \in Requests
  BY <1>1 DEF Consumer
<1>3. CASE c.kind = "payment_failed" /\ MarkPaymentFailed(c.row)
  BY <1>1, <1>3 DEF TableOperation, Failed
<1>4. CASE c.row # 0 /\ MarkTransactionSettled(c.row, c.fee, FALSE)
  BY <1>1, <1>2, <1>4 DEF TableOperation, MarkedSettled
<1>5. CASE \E i \in TxId : CreateSettledTransactionFromNotification(i,
              IF c.kind = "payment_sent" THEN "outgoing" ELSE "incoming", c.pay, c.fee)
  <2>1. (IF c.kind = "payment_sent" THEN "outgoing" ELSE "incoming") \in Types
    BY DEF Types
  <2> QED BY <1>2, <1>5, <2>1 DEF TableOperation, CreatedSettled
<1> QED BY <1>3, <1>4, <1>5 DEF CommitEvent

LEMMA EveryOperation ==
    ASSUME TypeOK, [Next]_vars
    PROVE  TableOperation
<1>1. CASE \E x \in Own, i \in TxId : MakeInvoice(x, i)
  <2>1. PICK x \in Own, i \in TxId : MakeInvoice(x, i)
    BY <1>1
  <2> DEFINE r == [type |-> "incoming", state |-> "PENDING", pay |-> x,
                   app |-> Payee[x], fee |-> 0, reserve |-> 0, self |-> FALSE]
  <2>2. r.state # "SETTLED" /\ IsNextId(txs, i) /\ txs' = Insert(txs, i, r) /\ UNCHANGED announced
    BY <2>1 DEF MakeInvoice
  <2> HIDE DEF r
  <2> QED BY <2>2 DEF TableOperation, Inserted
<1>2. CASE \E e \in events : ConsumeEvent(e)
  BY <1>2 DEF ConsumeEvent, ConsumePaymentReceived, ConsumeHoldInvoiceAccepted,
              ConsumePaymentSent, ConsumePaymentFailed, TableOperation, Accepted
<1>3. CASE \/ \E p \in Payers, x \in Payable, a \in Apps \cup {NoApp} : BeginPayment(p, x, a)
           \/ \E o \in Operators, pc \in {"settle", "cancel"} : BeginHoldOperation(o, pc)
           \/ \E i \in TxId : CheckUnsettledTransaction(i)
  BY <1>3 DEF BeginPayment, BeginHoldOperation, CheckUnsettledTransaction, db, TableOperation
<1>4. CASE \/ \E h \in DOMAIN out : NodeResolves(h)
           \/ \E x \in Reachable : NodeReceives(x) \/ HoldExpires(x)
           \/ \E x \in Outside : PaidOutside(x)
           \/ StopNode \/ StartNode \/ Crash
  <2>1. ASSUME NEW h, NodeResolves(h)
        PROVE  UNCHANGED db
    BY <2>1 DEF NodeResolves, ResolvePayment
  <2>2. UNCHANGED db
    BY <1>4, <2>1 DEF NodeReceives, HoldExpires, PaidOutside, StopNode, StartNode, Crash
  <2> QED BY <2>2 DEF db, TableOperation
<1>5. CASE UNCHANGED vars
  BY <1>5 DEF vars, TableOperation
<1> QED BY <1>1, <1>2, <1>3, <1>4, <1>5, PayerOperation, OperatorOperation, CommitOperation
        DEF Next

(* What an operation does to the settled rows and to the count.            *)
Grows == \E i : DOMAIN txs' \subseteq DOMAIN txs \cup {i}

Published(i) ==
    /\ NewlySettled(i)
    /\ announced' = [announced EXCEPT ![<<txs'[i].type, txs'[i].pay>>] = @ + 1]

StepPublishes == Grows /\ ((NoneNew /\ UNCHANGED announced) \/ \E i : Published(i))

LEMMA SameTablePublishes ==
    ASSUME UNCHANGED <<txs, announced>>
    PROVE  StepPublishes
BY NoneNewUnchanged DEF StepPublishes, Grows

LEMMA MarkedPublishes ==
    ASSUME TypeOK, NEW i \in DOMAIN txs, NEW fee \in Nat, NEW self \in BOOLEAN,
           MarkTransactionSettled(i, fee, self)
    PROVE  StepPublishes
<1> DEFINE r == [txs[i] EXCEPT !.state = "SETTLED", !.fee = fee, !.reserve = 0, !.self = self]
<1>1. CASE FindSettled(txs, txs[i].type, txs[i].pay) # {}
  BY <1>1, SameTablePublishes DEF MarkTransactionSettled
<1>2. CASE FindSettled(txs, txs[i].type, txs[i].pay) = {}
  <2>1. SetSettled(i, fee, self) /\ ~Settled(i)
    BY <1>2, SettledIsFound DEF MarkTransactionSettled
  <2>2. /\ txs' = [txs EXCEPT ![i] = r]
        /\ r.state = "SETTLED" /\ r.type = txs[i].type /\ r.pay = txs[i].pay
    <3>1. txs \in [DOMAIN txs -> Row]
      BY DEF TypeOK
    <3>2. txs' = [txs EXCEPT ![i] = r]
      BY <2>1, <3>1 DEF SetSettled
    <3>3. r.state = "SETTLED" /\ r.type = txs[i].type /\ r.pay = txs[i].pay
      BY <3>1 DEF Row
    <3> QED BY <3>2, <3>3
  <2>3. announced' = [announced EXCEPT ![<<txs[i].type, txs[i].pay>>] = @ + 1]
    BY <2>1 DEF SetSettled, Announce
  <2> HIDE DEF r
  <2>4. DOMAIN txs' = DOMAIN txs /\ txs'[i] = r
    BY <2>2 DEF TypeOK
  <2> QED BY <2>1, <2>2, <2>3, <2>4 DEF StepPublishes, Grows, Published, NewlySettled
<1> QED BY <1>1, <1>2

LEMMA CreatedPublishes ==
    ASSUME TypeOK, NEW i, NEW type \in Types, NEW x \in Requests, NEW fee \in Nat,
           CreateSettledTransactionFromNotification(i, type, x, fee)
    PROVE  StepPublishes
<1> DEFINE r == [type |-> type, state |-> "SETTLED", pay |-> x,
                 app |-> IF type = "incoming" /\ x \in Keysends \cap Own
                         THEN Payee[x] ELSE NoApp,
                 fee |-> fee, reserve |-> 0, self |-> FALSE]
<1>1. CASE FindSettled(txs, type, x) # {}
  BY <1>1, SameTablePublishes DEF CreateSettledTransactionFromNotification
<1>2. CASE FindSettled(txs, type, x) = {}
  <2>1. IsNextId(txs, i) /\ txs' = Insert(txs, i, r) /\ Announce(type, x)
    BY <1>2 DEF CreateSettledTransactionFromNotification
  <2>2. r.state = "SETTLED" /\ r.type = type /\ r.pay = x
    OBVIOUS
  <2> HIDE DEF r
  <2>3. /\ DOMAIN txs' = DOMAIN txs \cup {i} /\ txs'[i] = r /\ i \notin DOMAIN txs
        /\ announced' = [announced EXCEPT ![<<type, x>>] = @ + 1]
    BY <2>1 DEF Insert, IsNextId, Announce
  <2> QED BY <2>2, <2>3 DEF StepPublishes, Grows, Published, NewlySettled
<1> QED BY <1>1, <1>2

LEMMA OperationPublishes ==
    ASSUME TypeOK, TableOperation
    PROVE  StepPublishes
<1>1. CASE UNCHANGED <<txs, announced>>
  BY <1>1, SameTablePublishes
<1>2. CASE Inserted
  <2>1. PICK i, r : /\ IsNextId(txs, i) /\ r.state # "SETTLED"
                    /\ txs' = Insert(txs, i, r) /\ UNCHANGED announced
    BY <1>2 DEF Inserted
  <2>2. DOMAIN txs' = DOMAIN txs \cup {i}
    BY <2>1 DEF Insert
  <2> QED BY <2>1, <2>2, NoneNewInsert DEF StepPublishes, Grows
<1>3. CASE Failed
  <2>1. PICK i \in DOMAIN txs : MarkPaymentFailed(i)
    BY <1>3 DEF Failed
  <2>2. DOMAIN txs' = DOMAIN txs /\ UNCHANGED announced
    BY <2>1 DEF MarkPaymentFailed
  <2> QED BY <2>1, <2>2, NoneNewFailed DEF StepPublishes, Grows
<1>4. CASE Accepted
  <2>1. PICK x, self : MarkHoldInvoiceAccepted(x, self) /\ UNCHANGED announced
    BY <1>4 DEF Accepted
  <2>2. DOMAIN txs' = DOMAIN txs
    BY <2>1 DEF MarkHoldInvoiceAccepted
  <2> QED BY <2>1, <2>2, NoneNewAccepted DEF StepPublishes, Grows
<1>5. CASE MarkedSettled
  BY <1>5, MarkedPublishes DEF MarkedSettled
<1>6. CASE CreatedSettled
  BY <1>6, CreatedPublishes DEF CreatedSettled
<1> QED BY <1>1, <1>2, <1>3, <1>4, <1>5, <1>6 DEF TableOperation

-----------------------------------------------------------------------------
(* The settled rows of a payment, which the count is compared with.        *)
SettledRows(t, k) ==
    {i \in DOMAIN t : t[i].state = "SETTLED" /\ t[i].type = k[1] /\ t[i].pay = k[2]}

(* The inductive invariant: the table is finite, and has as many settled   *)
(* rows of a payment as were published.                                    *)
PublishedInv ==
    /\ IsFiniteSet(DOMAIN txs)
    /\ \A k \in Types \X Requests : announced[k] = Cardinality(SettledRows(txs, k))

LEMMA PublishedMeans == PublishedInv => AnnouncedOnce
BY DEF PublishedInv, AnnouncedOnce, SettledRows, Settled

LEMMA PublishedStep ==
    ASSUME TypeOK, PublishedInv, StepOK, StepPublishes
    PROVE  PublishedInv'
<1>1. IsFiniteSet(DOMAIN txs')
  <2>1. PICK i : DOMAIN txs' \subseteq DOMAIN txs \cup {i}
    BY DEF StepPublishes, Grows
  <2>2. IsFiniteSet(DOMAIN txs \cup {i})
    BY FS_AddElement DEF PublishedInv
  <2> QED BY <2>1, <2>2, FS_Subset
<1>2. ASSUME NEW k \in Types \X Requests
      PROVE  announced'[k] = Cardinality(SettledRows(txs', k))
  <2> DEFINE old == SettledRows(txs, k)
             new == SettledRows(txs', k)
  <2>1. IsFiniteSet(old) /\ announced[k] = Cardinality(old)
    BY FS_Subset DEF PublishedInv, SettledRows
  <2>2. old \subseteq new
    BY DEF SettledRows, StepOK, TableStep, KeepsRows, Settled
  <2>3. \A j \in new \ old : NewlySettled(j) /\ txs'[j].type = k[1] /\ txs'[j].pay = k[2]
    BY DEF SettledRows, NewlySettled, StepOK, TableStep, KeepsRows, Settled
  <2>4. CASE NoneNew /\ UNCHANGED announced
    <3>1. new = old
      BY <2>2, <2>3, <2>4 DEF NoneNew
    <3> QED BY <2>1, <2>4, <3>1
  <2>5. ASSUME NEW i, Published(i)
        PROVE  announced'[k] = Cardinality(new)
    <3> DEFINE at == <<txs'[i].type, txs'[i].pay>>
    <3>1. /\ announced' = [announced EXCEPT ![at] = @ + 1]
          /\ \A j : NewlySettled(j) => j = i
          /\ i \notin old /\ i \in DOMAIN txs' /\ txs'[i].state = "SETTLED"
      BY <2>5 DEF Published, NewlySettled, StepOK, TableStep, SettlesOnce, SettledRows, Settled
    <3>2. CASE k = at
      <4>1. k[1] = txs'[i].type /\ k[2] = txs'[i].pay
        BY <3>2
      <4>2. i \in new
        BY <3>1, <4>1 DEF SettledRows
      <4>3. new = old \cup {i}
        BY <2>2, <2>3, <3>1, <4>2
      <4>4. announced'[k] = announced[k] + 1
        BY <3>1, <3>2 DEF TypeOK
      <4>5. Cardinality(new) = Cardinality(old) + 1
        BY <2>1, <3>1, <4>3, FS_AddElement
      <4> QED BY <2>1, <4>4, <4>5
    <3>3. CASE k # at
      <4>1. new = old
        <5>1. ASSUME NEW j \in new \ old
              PROVE  FALSE
          <6>1. j = i /\ txs'[i].type = k[1] /\ txs'[i].pay = k[2]
            BY <2>3, <3>1
          <6>2. k = <<k[1], k[2]>>
            OBVIOUS
          <6> QED BY <3>3, <6>1, <6>2
        <5> QED BY <2>2, <5>1
      <4>2. announced'[k] = announced[k]
        BY <3>1, <3>3 DEF TypeOK
      <4> QED BY <2>1, <4>1, <4>2
    <3> QED BY <3>2, <3>3
  <2> QED BY <2>4, <2>5 DEF StepPublishes
<1> QED BY <1>1, <1>2 DEF PublishedInv, SettledRows

LEMMA PublishedInit == Init => PublishedInv
<1> SUFFICES ASSUME Init PROVE PublishedInv
  OBVIOUS
<1>1. DOMAIN txs = {}
  BY DEF Init
<1>2. \A k \in Types \X Requests : SettledRows(txs, k) = {} /\ announced[k] = 0
  BY <1>1 DEF SettledRows, Init
<1> QED BY <1>1, <1>2, FS_EmptySet DEF PublishedInv

(* Every settlement is published exactly once and nothing else is, for any *)
(* number of payments, retries, events, polls, stops and crashes: an app   *)
(* is told of a payment as often as the table settles it                   *)
(* (markTransactionSettled publishes after its commit, and only if the row *)
(* was not settled before).                                                *)
THEOREM PublishedOnce == Spec => []AnnouncedOnce
<1>1. Init => PublishedInv
  BY PublishedInit
<1>2. TypeOK /\ PublishedInv /\ [Next]_vars => PublishedInv'
  BY NextOK, EveryOperation, OperationPublishes, PublishedStep
<1>3. PublishedInv => AnnouncedOnce
  BY PublishedMeans
<1> QED BY <1>1, <1>2, <1>3, TypeCorrect, PTL DEF Spec
=============================================================================
