----------------------------- MODULE SwapsProofs -----------------------------
(***************************************************************************)
(* Theorems about Swaps, for every value of its constants: the variables   *)
(* have their types, and what a row or a status page says of a swap has    *)
(* happened (SwapTellsTruth).                                              *)
(*                                                                         *)
(* The inductive invariant says of an update under way that Boltz has been *)
(* at the status it brings (MessagesSaid); of a swap in and of a swap out  *)
(* where Boltz, the chain, the listener and the row may stand together     *)
(* (InTells, OutTells); of the status page that what it last polled stays  *)
(* true (TabTells); and, as long as nothing was lost, that a swap out is   *)
(* announced as created once and so paid for by one goroutine only         *)
(* (PaidForOnce): a refused second payment would mark a swap FAILED whose  *)
(* funds are claimed.                                                      *)
(***************************************************************************)
EXTENDS Swaps, FiniteSetTheorems, TLAPS

USE SwapsAssumption

-----------------------------------------------------------------------------
(* Types.                                                                  *)

SwapRow == [state : States, lockup : BOOLEAN, claim : BOOLEAN, auto : BOOLEAN]
OnChain == [deposits : 0..MaxDeposits, refund : BOOLEAN, claim : {"none", "mempool", "confirmed"}]
PayersOf == [looking : Nat, sending : Nat, waiting : BOOLEAN, error : BOOLEAN]
Message == Swaps \X Statuses
SwapTab == [page : SwapPages, of : {Nothing} \cup Swaps, internal : BOOLEAN,
            redeemed : BOOLEAN, seen : Seen]
Payment == {"none", "pending", "failed", "settled"}
Listening == {"none", "on", "refunding", "refunded", "claiming", "claimed"}

RowsTyped ==
    /\ swap \in [Swaps -> SwapRow]
    /\ boltz \in [Swaps -> Statuses]
    /\ chain \in [Swaps -> OnChain]
    /\ lightning \in [Swaps -> Payment]

ServiceTyped ==
    /\ listener \in [Swaps -> Listening]
    /\ payers \in [Outs -> PayersOf]
    /\ asking \in [Ins -> {"never", "refunding", "refunded", "done"}]
    /\ autoLoop \in {"off", "idle"} \cup Outs

QueuesTyped ==
    /\ updates \in Seq(Message)
    /\ hand \in {<<>>} \cup {<<m>> : m \in Message}
    /\ updateCh \in [Swaps -> {<<>>} \cup {<<status>> : status \in Statuses}]

CountsTyped ==
    /\ plan \in Plans /\ restarts \in Nat /\ reconnects \in Nat
    /\ restarts + reconnects <= plan.faults

Typed == RowsTyped /\ ServiceTyped /\ QueuesTyped /\ CountsTyped /\ swapTab \in SwapTab

-----------------------------------------------------------------------------
(* The inductive invariant.                                                *)

Gone == {"failed", "expired"}
InPaid == {"paid", "claimpending", "claimed"}
Locked == {"mempool", "confirmed", "settled"}

(* Where Boltz may be, now, if it has pushed a status.                     *)
Said(now, status) ==
    /\ status = "paid" => now \in InPaid
    /\ status \in Gone => now \in Gone
    /\ status \in {"mempool", "confirmed"} => now \notin {"none", "created"}

MessagesSaid ==
    /\ \A i \in DOMAIN updates : Said(boltz[updates[i][1]], updates[i][2])
    /\ hand # <<>> => Said(boltz[hand[1][1]], hand[1][2])
    /\ \A s \in Swaps : updateCh[s] # <<>> => Said(boltz[s], updateCh[s][1])

InTells(s) ==
    /\ swap[s].state = "NONE" => boltz[s] = "none" /\ listener[s] = "none"
    /\ boltz[s] \in InPaid => lightning[s] = "settled"
    /\ chain[s].refund => boltz[s] \in Gone
    /\ swap[s].state = "SUCCESS" => boltz[s] \in InPaid
    /\ swap[s].state = "REFUNDED" \/ swap[s].claim => chain[s].refund
    /\ listener[s] = "refunding" => boltz[s] \in Gone
    /\ listener[s] = "refunded" \/ asking[s] = "refunded" => chain[s].refund
    /\ listener[s] # "none" => swap[s].state = "PENDING" \/ asking[s] # "never"
    /\ chain[s].refund => \/ listener[s] = "refunded" \/ swap[s].state = "REFUNDED"
                          \/ asking[s] # "never" \/ restarts > 0
    /\ swap[s].state = "FAILED" /\ chain[s].refund => asking[s] # "never" \/ restarts > 0

OutTells(s) ==
    /\ swap[s].state = "NONE" => boltz[s] = "none" /\ listener[s] = "none"
    /\ swap[s].state # "REFUNDED"
    /\ boltz[s] \in {"none", "created", "expired"} \cup Locked
    /\ chain[s].claim # "none" => boltz[s] \in Locked
    /\ listener[s] \in {"none", "on", "claiming", "claimed"}
    /\ listener[s] = "claiming" => boltz[s] \notin {"none", "created"} /\ ~swap[s].claim
    /\ swap[s].claim \/ listener[s] = "claimed" => chain[s].claim # "none"
    /\ swap[s].state = "SUCCESS" => chain[s].claim = "confirmed"
    /\ listener[s] # "none" => swap[s].state = "PENDING"

(* Nothing was lost so far.                                                *)
Quiet == restarts + reconnects = 0

(* The news that a swap out was created, and what it set off.              *)
News(s, queue) == \E i \in DOMAIN queue : queue[i] = <<s, "created">>
NewsOnce(s, queue) ==
    \A i, j \in DOMAIN queue : queue[i] = <<s, "created">> /\ queue[j] = <<s, "created">> => i = j
InHand(s) == hand = <<<<s, "created">>>>
InChannel(s) == updateCh[s] = <<"created">>
AtPayers(s) == payers[s].looking + payers[s].sending

PaidForOnce(s) ==
    /\ NewsOnce(s, updates)
    /\ News(s, updates) => ~InHand(s) /\ ~InChannel(s) /\ AtPayers(s) = 0
    /\ InHand(s) => ~InChannel(s) /\ AtPayers(s) = 0
    /\ InChannel(s) => AtPayers(s) = 0
    /\ AtPayers(s) <= 1
    /\ News(s, updates) \/ InHand(s) \/ InChannel(s) \/ AtPayers(s) > 0 =>
            lightning[s] = "none" /\ swap[s].state # "NONE"
    /\ swap[s].state = "NONE" => lightning[s] = "none"

QuietOut(s) ==
    /\ PaidForOnce(s)
    /\ boltz[s] \in Locked => lightning[s] \in {"pending", "settled"}
    /\ payers[s].error => lightning[s] = "failed"
    /\ chain[s].claim # "none" => listener[s] = "claimed" \/ swap[s].claim
    /\ swap[s].state = "FAILED" => chain[s].claim = "none"

TabTells ==
    /\ swapTab.page = "in" => swapTab.of \in Ins
    /\ swapTab.page = "out" => swapTab.of \in Outs
    /\ swapTab.of # Nothing => swap[swapTab.of].state # "NONE"
    /\ swapTab.seen # Unseen => swapTab.seen.state # "NONE"
    /\ swapTab.seen # Unseen /\ swapTab.page = "in" =>
        /\ swapTab.seen.state = "SUCCESS" => lightning[swapTab.of] = "settled"
        /\ swapTab.seen.state = "REFUNDED" => chain[swapTab.of].refund
    /\ swapTab.seen # Unseen /\ swapTab.page = "out" =>
        /\ swapTab.seen.state # "REFUNDED"
        /\ swapTab.seen.state = "SUCCESS" => chain[swapTab.of].claim = "confirmed"
        /\ swapTab.seen.claim => chain[swapTab.of].claim # "none"

SwapsInv ==
    /\ Typed /\ MessagesSaid /\ TabTells
    /\ \A s \in Ins : InTells(s)
    /\ \A s \in Outs : OutTells(s) /\ (Quiet => QuietOut(s))

-----------------------------------------------------------------------------
(* Values the types are about.                                             *)

(* A field of a record takes any value of its own.                         *)
LEMMA SwapFields ==
    ASSUME NEW r \in SwapRow
    PROVE  /\ \A st \in States : [r EXCEPT !.state = st] \in SwapRow
           /\ \A b \in BOOLEAN : /\ [r EXCEPT !.lockup = b] \in SwapRow
                               /\ [r EXCEPT !.claim = b] \in SwapRow
                               /\ [r EXCEPT !.auto = b] \in SwapRow
<1>1. ASSUME NEW st \in States PROVE [r EXCEPT !.state = st] \in SwapRow
  BY DEF SwapRow
<1>2. ASSUME NEW b \in BOOLEAN PROVE [r EXCEPT !.lockup = b] \in SwapRow
  BY DEF SwapRow
<1>3. ASSUME NEW b \in BOOLEAN PROVE [r EXCEPT !.claim = b] \in SwapRow
  BY DEF SwapRow
<1>4. ASSUME NEW b \in BOOLEAN PROVE [r EXCEPT !.auto = b] \in SwapRow
  BY DEF SwapRow
<1> QED
  BY <1>1, <1>2, <1>3, <1>4

LEMMA ChainFields ==
    ASSUME NEW r \in OnChain
    PROVE  /\ \A n \in 0..MaxDeposits : [r EXCEPT !.deposits = n] \in OnChain
           /\ \A b \in BOOLEAN : [r EXCEPT !.refund = b] \in OnChain
           /\ \A c \in {"mempool", "confirmed"} : [r EXCEPT !.claim = c] \in OnChain
<1>1. ASSUME NEW n \in 0..MaxDeposits PROVE [r EXCEPT !.deposits = n] \in OnChain
  BY DEF OnChain
<1>2. ASSUME NEW b \in BOOLEAN PROVE [r EXCEPT !.refund = b] \in OnChain
  BY DEF OnChain
<1>3. ASSUME NEW c \in {"mempool", "confirmed"} PROVE [r EXCEPT !.claim = c] \in OnChain
  BY DEF OnChain
<1> QED
  BY <1>1, <1>2, <1>3

LEMMA RowUpdates ==
    ASSUME RowsTyped, NEW s \in Swaps
    PROVE  /\ \A st \in States : [swap EXCEPT ![s].state = st] \in [Swaps -> SwapRow]
           /\ \A st \in States : [swap EXCEPT ![s].claim = TRUE, ![s].state = st] \in [Swaps -> SwapRow]
           /\ \A st \in States, b \in BOOLEAN :
                [swap EXCEPT ![s].state = st, ![s].auto = b] \in [Swaps -> SwapRow]
           /\ [swap EXCEPT ![s].lockup = TRUE] \in [Swaps -> SwapRow]
           /\ [swap EXCEPT ![s].claim = TRUE] \in [Swaps -> SwapRow]
<1> DEFINE r == swap[s]
<1>0. swap \in [Swaps -> SwapRow] /\ r \in SwapRow
  BY DEF RowsTyped
<1>a. \A x \in SwapRow : [swap EXCEPT ![s] = x] \in [Swaps -> SwapRow]
  BY <1>0
<1>1. ASSUME NEW st \in States PROVE [swap EXCEPT ![s].state = st] \in [Swaps -> SwapRow]
  BY <1>0, <1>a, SwapFields
<1>2. ASSUME NEW st \in States PROVE [swap EXCEPT ![s].claim = TRUE, ![s].state = st] \in [Swaps -> SwapRow]
  <2> DEFINE x == [r EXCEPT !.claim = TRUE]
             y == [x EXCEPT !.state = st]
  <2>1. [swap EXCEPT ![s].claim = TRUE, ![s].state = st] = [swap EXCEPT ![s] = y]
    BY <1>0
  <2>2. x \in SwapRow
    BY <1>0, SwapFields
  <2> HIDE DEF x
  <2>3. y \in SwapRow
    BY <2>2, SwapFields
  <2> HIDE DEF y
  <2> QED
    BY <1>a, <2>1, <2>3
<1>3. ASSUME NEW st \in States, NEW b \in BOOLEAN
      PROVE  [swap EXCEPT ![s].state = st, ![s].auto = b] \in [Swaps -> SwapRow]
  <2> DEFINE x == [r EXCEPT !.state = st]
             y == [x EXCEPT !.auto = b]
  <2>1. [swap EXCEPT ![s].state = st, ![s].auto = b] = [swap EXCEPT ![s] = y]
    BY <1>0
  <2>2. x \in SwapRow
    BY <1>0, SwapFields
  <2> HIDE DEF x
  <2>3. y \in SwapRow
    BY <2>2, SwapFields
  <2> HIDE DEF y
  <2> QED
    BY <1>a, <2>1, <2>3
<1>4. [swap EXCEPT ![s].lockup = TRUE] \in [Swaps -> SwapRow]
  BY <1>0, <1>a, SwapFields
<1>5. [swap EXCEPT ![s].claim = TRUE] \in [Swaps -> SwapRow]
  BY <1>0, <1>a, SwapFields
<1> QED
  BY <1>1, <1>2, <1>3, <1>4, <1>5

LEMMA ChainUpdates ==
    ASSUME RowsTyped, NEW s \in Swaps
    PROVE  /\ \A n \in 0..MaxDeposits : [chain EXCEPT ![s].deposits = n] \in [Swaps -> OnChain]
           /\ [chain EXCEPT ![s].refund = TRUE] \in [Swaps -> OnChain]
           /\ [chain EXCEPT ![s].claim = "mempool"] \in [Swaps -> OnChain]
           /\ [chain EXCEPT ![s].claim = "confirmed"] \in [Swaps -> OnChain]
<1>0. chain \in [Swaps -> OnChain] /\ chain[s] \in OnChain
  BY DEF RowsTyped
<1>a. \A x \in OnChain : [chain EXCEPT ![s] = x] \in [Swaps -> OnChain]
  BY <1>0
<1>1. ASSUME NEW n \in 0..MaxDeposits PROVE [chain EXCEPT ![s].deposits = n] \in [Swaps -> OnChain]
  BY <1>0, <1>a, ChainFields
<1>2. [chain EXCEPT ![s].refund = TRUE] \in [Swaps -> OnChain]
  BY <1>0, <1>a, ChainFields
<1>3. [chain EXCEPT ![s].claim = "mempool"] \in [Swaps -> OnChain]
  BY <1>0, <1>a, ChainFields
<1>4. [chain EXCEPT ![s].claim = "confirmed"] \in [Swaps -> OnChain]
  BY <1>0, <1>a, ChainFields
<1> QED
  BY <1>1, <1>2, <1>3, <1>4

LEMMA PayerUpdates ==
    ASSUME ServiceTyped, NEW s \in Outs
    PROVE  /\ [payers EXCEPT ![s].looking = @ + 1] \in [Outs -> PayersOf]
           /\ \A n \in Nat : payers[s].looking > 0 =>
                [payers EXCEPT ![s].looking = @ - 1, ![s].sending = n] \in [Outs -> PayersOf]
           /\ payers[s].sending > 0 =>
                /\ [payers EXCEPT ![s].sending = @ - 1, ![s].waiting = TRUE] \in [Outs -> PayersOf]
                /\ [payers EXCEPT ![s].sending = @ - 1, ![s].error = TRUE] \in [Outs -> PayersOf]
           /\ \A b \in BOOLEAN : [payers EXCEPT ![s].waiting = FALSE, ![s].error = b] \in [Outs -> PayersOf]
           /\ [payers EXCEPT ![s].error = FALSE] \in [Outs -> PayersOf]
<1> DEFINE p == payers[s]
<1>1. /\ p \in PayersOf /\ payers \in [Outs -> PayersOf]
      /\ p.looking \in Nat /\ p.looking + 1 \in Nat /\ (p.looking > 0 => p.looking - 1 \in Nat)
      /\ p.sending \in Nat /\ (p.sending > 0 => p.sending - 1 \in Nat)
  BY DEF ServiceTyped, PayersOf
<1>2. [p EXCEPT !.looking = @ + 1] \in PayersOf
  BY <1>1 DEF PayersOf
<1>3. \A n \in Nat : p.looking > 0 => [p EXCEPT !.looking = @ - 1, !.sending = n] \in PayersOf
  BY <1>1 DEF PayersOf
<1>4. p.sending > 0 => /\ [p EXCEPT !.sending = @ - 1, !.waiting = TRUE] \in PayersOf
                       /\ [p EXCEPT !.sending = @ - 1, !.error = TRUE] \in PayersOf
  BY <1>1 DEF PayersOf
<1>5. \A b \in BOOLEAN : [p EXCEPT !.waiting = FALSE, !.error = b] \in PayersOf
  BY <1>1 DEF PayersOf
<1>6. [p EXCEPT !.error = FALSE] \in PayersOf
  BY <1>1 DEF PayersOf
<1>7. \A r \in PayersOf : [payers EXCEPT ![s] = r] \in [Outs -> PayersOf]
  BY <1>1
<1> HIDE DEF p
<1>8. /\ [payers EXCEPT ![s].looking = @ + 1] = [payers EXCEPT ![s] = [p EXCEPT !.looking = @ + 1]]
      /\ \A n \in Nat : [payers EXCEPT ![s].looking = @ - 1, ![s].sending = n]
                       = [payers EXCEPT ![s] = [p EXCEPT !.looking = @ - 1, !.sending = n]]
      /\ [payers EXCEPT ![s].sending = @ - 1, ![s].waiting = TRUE]
            = [payers EXCEPT ![s] = [p EXCEPT !.sending = @ - 1, !.waiting = TRUE]]
      /\ [payers EXCEPT ![s].sending = @ - 1, ![s].error = TRUE]
            = [payers EXCEPT ![s] = [p EXCEPT !.sending = @ - 1, !.error = TRUE]]
      /\ \A b \in BOOLEAN : [payers EXCEPT ![s].waiting = FALSE, ![s].error = b]
                           = [payers EXCEPT ![s] = [p EXCEPT !.waiting = FALSE, !.error = b]]
      /\ [payers EXCEPT ![s].error = FALSE] = [payers EXCEPT ![s] = [p EXCEPT !.error = FALSE]]
  BY <1>1 DEF p
<1> QED
  BY <1>2, <1>3, <1>4, <1>5, <1>6, <1>7, <1>8 DEF p

(* A set of messages put in some order.                                    *)
LEMMA OrderedMessages ==
    ASSUME NEW M \in SUBSET Message, IsFiniteSet(M)
    PROVE  SetToSeq(M) \in Seq(Message) /\ \A i \in DOMAIN SetToSeq(M) : SetToSeq(M)[i] \in M
<1>1. \E f \in [1..Cardinality(M) -> M] : IsInjective(f)
  BY FS_CardinalityType DEF ExistsBijection, Bijection, Injection
<1>2. SetToSeq(M) \in [1..Cardinality(M) -> M]
  BY <1>1 DEF SetToSeq
<1>3. Cardinality(M) \in Nat
  BY FS_CardinalityType
<1> QED
  BY <1>2, <1>3

(* The present status of some swaps, in some order.                        *)
Present(T) == SetToSeq({<<s, boltz[s]>> : s \in T})

LEMMA PresentStatuses ==
    ASSUME RowsTyped, NEW T \in SUBSET Swaps
    PROVE  /\ Present(T) \in Seq(Message)
           /\ \A i \in DOMAIN Present(T) :
                Present(T)[i][1] \in T /\ Present(T)[i][2] = boltz[Present(T)[i][1]]
<1> DEFINE M == {<<s, boltz[s]>> : s \in T}
<1>1. IsFiniteSet(T)
  BY FS_Subset
<1>2. IsFiniteSet(M)
  <2> DEFINE f == [s \in T |-> <<s, boltz[s]>>]
  <2>1. f \in Surjection(T, M)
    BY DEF Surjection
  <2> QED
    BY <1>1, <2>1, FS_Surjection DEF ExistsSurjection
<1>3. M \in SUBSET Message
  BY DEF RowsTyped, Message
<1>4. Present(T) \in Seq(Message) /\ \A i \in DOMAIN Present(T) : Present(T)[i] \in M
  BY <1>2, <1>3, OrderedMessages DEF Present
<1> QED
  BY <1>4

LEMMA TypedIsTypeOK == Typed => SwapTypeOK
<1> SUFFICES ASSUME Typed PROVE SwapTypeOK
  OBVIOUS
<1>1. \A s \in Swaps : Len(updateCh[s]) <= 1 /\ ToSet(updateCh[s]) \subseteq Statuses
  <2> SUFFICES ASSUME NEW s \in Swaps
               PROVE  Len(updateCh[s]) <= 1 /\ ToSet(updateCh[s]) \subseteq Statuses
    OBVIOUS
  <2>1. updateCh[s] = <<>> \/ \E status \in Statuses : updateCh[s] = <<status>>
    BY DEF Typed, QueuesTyped
  <2>2. CASE updateCh[s] = <<>>
    BY <2>2 DEF ToSet
  <2>3. CASE \E status \in Statuses : updateCh[s] = <<status>>
    <3>1. PICK status \in Statuses : updateCh[s] = <<status>>
      BY <2>3
    <3> QED
      BY <3>1 DEF ToSet
  <2> QED
    BY <2>1, <2>2, <2>3
<1>2. Len(hand) <= 1 /\ ToSet(hand) \subseteq Swaps \X Statuses
  <2>1. hand = <<>> \/ \E m \in Message : hand = <<m>>
    BY DEF Typed, QueuesTyped
  <2>2. CASE hand = <<>>
    BY <2>2 DEF ToSet
  <2>3. CASE \E m \in Message : hand = <<m>>
    <3>1. PICK m \in Message : hand = <<m>>
      BY <2>3
    <3> QED
      BY <3>1 DEF ToSet, Message
  <2> QED
    BY <2>1, <2>2, <2>3
<1>3. \A i \in DOMAIN updates : updates[i] \in Swaps \X Statuses
  BY DEF Typed, QueuesTyped, Message
<1> QED
  BY <1>1, <1>2, <1>3 DEF Typed, RowsTyped, ServiceTyped, CountsTyped, SwapTypeOK, SwapTab, SwapRow,
     OnChain, PayersOf, Payment, Listening

LEMMA TypedInit == SwapInit => Typed
BY DEF SwapInit, Typed, RowsTyped, ServiceTyped, QueuesTyped, CountsTyped, SwapTab, SwapRow,
       OnChain, PayersOf, Payment, Listening, Message, NoPayers, Unseen, Seen, States, Statuses, SwapPages

-----------------------------------------------------------------------------
(* Every step keeps the types.                                             *)

LEMMA ServiceOfListener ==
    ASSUME ServiceTyped, NEW s \in Swaps
    PROVE  /\ \A at \in Listening : [listener EXCEPT ![s] = at] \in [Swaps -> Listening]
           /\ (IF autoLoop = s THEN "idle" ELSE autoLoop) \in {"off", "idle"} \cup Outs
BY DEF ServiceTyped

LEMMA TypedListenerEnds ==
    ASSUME ServiceTyped, NEW s \in Swaps, ListenerEnds(s)
    PROVE  listener' \in [Swaps -> Listening] /\ autoLoop' \in {"off", "idle"} \cup Outs
BY ServiceOfListener DEF ListenerEnds, Listening

LEMMA TypedListenerFails ==
    ASSUME RowsTyped, ServiceTyped, NEW s \in Swaps, ListenerFails(s)
    PROVE  /\ swap' \in [Swaps -> SwapRow]
           /\ listener' \in [Swaps -> Listening] /\ autoLoop' \in {"off", "idle"} \cup Outs
BY RowUpdates, TypedListenerEnds DEF ListenerFails, MarkSwapState, States

LEMMA TypedReceived ==
    ASSUME Typed, NEW s \in Swaps, NEW T, Received(s, T)
    PROVE  /\ QueuesTyped' /\ CountsTyped' /\ swapTab' \in SwapTab
           /\ boltz' \in [Swaps -> Statuses] /\ chain' \in [Swaps -> OnChain]
           /\ lightning' \in [Swaps -> Payment]
           /\ asking' \in [Ins -> {"never", "refunding", "refunded", "done"}]
BY DEF Typed, RowsTyped, ServiceTyped, QueuesTyped, CountsTyped, Received, boltzVars, counts

LEMMA TypedPush ==
    ASSUME QueuesTyped, NEW s \in Swaps, NEW status \in Statuses
    PROVE  Append(updates, <<s, status>>) \in Seq(Message)
BY DEF QueuesTyped, Message

LEMMA TypedProgress ==
    ASSUME Typed, NEW s \in Swaps, NEW status \in Statuses, Progress(s, status)
    PROVE  /\ boltz' \in [Swaps -> Statuses] /\ QueuesTyped' /\ ServiceTyped' /\ CountsTyped'
           /\ swap' \in [Swaps -> SwapRow] /\ swapTab' \in SwapTab
<1>1. updates' \in Seq(Message)
  BY TypedPush DEF Typed, QueuesTyped, Progress, Push
<1>2. boltz' \in [Swaps -> Statuses]
  BY DEF Typed, RowsTyped, Progress
<1> QED
  BY <1>1, <1>2 DEF Typed, RowsTyped, ServiceTyped, QueuesTyped, CountsTyped, Progress, service, counts

LEMMA TypedBoltz == ASSUME Typed, NEW s \in Swaps, Boltz(s) PROVE Typed'
<1>1. CASE s \in Ins /\ BoltzIn(s)
  <2>1. PICK status \in Statuses :
            /\ Progress(s, status)
            /\ lightning' = [lightning EXCEPT ![s] = IF status = "paid" THEN "settled" ELSE @]
    BY <1>1 DEF BoltzIn
  <2>2. lightning' \in [Swaps -> Payment]
    BY <2>1 DEF Typed, RowsTyped, Payment
  <2>3. chain' \in [Swaps -> OnChain]
    BY <1>1 DEF Typed, RowsTyped, BoltzIn
  <2> QED
    BY <2>1, <2>2, <2>3, TypedProgress DEF Typed, RowsTyped
<1>2. CASE s \in Outs /\ BoltzOut(s)
  <2>1. PICK status \in Statuses :
            /\ Progress(s, status)
            /\ lightning' = [lightning EXCEPT
                    ![s] = CASE status = "settled" -> "settled"
                             [] status = "expired" /\ @ = "pending" -> "failed"
                             [] OTHER -> @]
    BY <1>2 DEF BoltzOut
  <2>2. lightning' \in [Swaps -> Payment]
    BY <2>1 DEF Typed, RowsTyped, Payment
  <2>3. chain' \in [Swaps -> OnChain]
    BY <1>2 DEF Typed, RowsTyped, BoltzOut
  <2> QED
    BY <2>1, <2>2, <2>3, TypedProgress DEF Typed, RowsTyped
<1>3. CASE s \in Outs /\ ClaimConfirms(s)
  <2>1. chain' \in [Swaps -> OnChain]
    BY <1>3, ChainUpdates DEF Typed, ClaimConfirms
  <2> QED
    BY <1>3, <2>1 DEF Typed, RowsTyped, ServiceTyped, QueuesTyped, CountsTyped, ClaimConfirms, service, counts
<1> QED
  BY <1>1, <1>2, <1>3 DEF Boltz

LEMMA TypedListenerStep == ASSUME Typed, NEW s \in Swaps, ListenerStep(s) PROVE Typed'
<1> USE DEF Typed
<1>1. CASE Ignored(s)
  BY <1>1, TypedReceived DEF Ignored, RowsTyped, ServiceTyped
<1>2. CASE LockupInMempool(s)
  BY <1>2, TypedReceived, RowUpdates DEF LockupInMempool, RowsTyped, ServiceTyped
<1>3. CASE InvoicePaid(s)
  <2>1. swap' \in [Swaps -> SwapRow]
    BY <1>3, RowUpdates DEF InvoicePaid, MarkSwapState, States
  <2> QED
    BY <1>3, <2>1, TypedReceived, TypedListenerEnds DEF InvoicePaid, RowsTyped, ServiceTyped
<1>4. CASE s \in Ins /\ RefundBroadcast(s)
  <2>1. CASE ListenerFails(s) /\ UNCHANGED chain
    BY <1>4, <2>1, TypedListenerFails
       DEF RefundBroadcast, RowsTyped, ServiceTyped, QueuesTyped, CountsTyped, counts
  <2>2. CASE /\ chain' = [chain EXCEPT ![s].refund = TRUE]
             /\ listener' = [listener EXCEPT ![s] = "refunded"]
             /\ UNCHANGED <<swap, autoLoop>>
    <3>1. chain' \in [Swaps -> OnChain]
      BY <2>2, ChainUpdates
    <3>2. listener' \in [Swaps -> Listening]
      BY <2>2, ServiceOfListener DEF Listening
    <3> QED
      BY <1>4, <2>2, <3>1, <3>2
         DEF RefundBroadcast, RowsTyped, ServiceTyped, QueuesTyped, CountsTyped, counts
  <2> QED
    BY <1>4, <2>1, <2>2 DEF RefundBroadcast
<1>5. CASE s \in Ins /\ RefundSaved(s)
  <2>1. swap' \in [Swaps -> SwapRow]
    BY <1>5, RowUpdates DEF RefundSaved, RefundRecorded, States
  <2> QED
    BY <1>5, <2>1, TypedListenerEnds
       DEF RefundSaved, RowsTyped, ServiceTyped, QueuesTyped, CountsTyped, boltzVars, counts
<1>6. CASE SwapInFailed(s)
  <2>1. /\ swap' \in [Swaps -> SwapRow]
        /\ listener' \in [Swaps -> Listening] /\ autoLoop' \in {"off", "idle"} \cup Outs
    <3>1. CASE RefundPossible(s)
      <4>0. swap' = [swap EXCEPT ![s].lockup = TRUE]
        BY <1>6, <3>1 DEF SwapInFailed
      <4>1. swap' \in [Swaps -> SwapRow]
        BY <4>0, RowUpdates
      <4>2. listener' \in [Swaps -> Listening] /\ autoLoop' = autoLoop
        BY <1>6, <3>1, ServiceOfListener DEF SwapInFailed, Listening
      <4> QED
        BY <4>1, <4>2 DEF ServiceTyped
    <3>2. CASE ~RefundPossible(s)
      BY <1>6, <3>2, TypedListenerFails DEF SwapInFailed
    <3> QED
      BY <3>1, <3>2
  <2> QED
    BY <1>6, <2>1, TypedReceived DEF SwapInFailed, RowsTyped, ServiceTyped
<1>7. CASE SwapCreated(s)
  <2>1. payers' \in [Outs -> PayersOf]
    BY <1>7, PayerUpdates DEF SwapCreated
  <2> QED
    BY <1>7, <2>1, TypedReceived DEF SwapCreated, RowsTyped, ServiceTyped
<1>8. CASE LockupFound(s)
  <2>1. swap' \in [Swaps -> SwapRow]
    BY <1>8, RowUpdates DEF LockupFound
  <2>2. listener' \in [Swaps -> Listening]
    BY <1>8, ServiceOfListener DEF LockupFound, Listening
  <2> QED
    BY <1>8, <2>1, <2>2, TypedReceived DEF LockupFound, RowsTyped, ServiceTyped
<1>9. CASE SwapOutFailed(s)
  BY <1>9, TypedReceived, TypedListenerFails DEF SwapOutFailed, RowsTyped, ServiceTyped
<1>10. CASE s \in Outs /\ PaymentError(s)
  <2>1. payers' \in [Outs -> PayersOf]
    BY <1>10, PayerUpdates DEF PaymentError
  <2> QED
    BY <1>10, <2>1, TypedListenerFails
       DEF PaymentError, RowsTyped, ServiceTyped, QueuesTyped, CountsTyped, boltzVars, counts
<1>11. CASE s \in Outs /\ ClaimBroadcast(s)
  <2>1. CASE ListenerFails(s) /\ UNCHANGED chain
    BY <1>11, <2>1, TypedListenerFails
       DEF ClaimBroadcast, RowsTyped, ServiceTyped, QueuesTyped, CountsTyped, counts
  <2>2. CASE /\ chain' = [chain EXCEPT ![s].claim = "mempool"]
             /\ listener' = [listener EXCEPT ![s] = "claimed"]
             /\ UNCHANGED <<swap, autoLoop>>
    <3>1. chain' \in [Swaps -> OnChain]
      BY <2>2, ChainUpdates
    <3>2. listener' \in [Swaps -> Listening]
      BY <2>2, ServiceOfListener DEF Listening
    <3> QED
      BY <1>11, <2>2, <3>1, <3>2
         DEF ClaimBroadcast, RowsTyped, ServiceTyped, QueuesTyped, CountsTyped, counts
  <2> QED
    BY <1>11, <2>1, <2>2 DEF ClaimBroadcast
<1>12. CASE s \in Outs /\ ClaimSaved(s)
  <2>1. swap' \in [Swaps -> SwapRow]
    BY <1>12, RowUpdates DEF ClaimSaved
  <2>2. listener' \in [Swaps -> Listening]
    BY <1>12, ServiceOfListener DEF ClaimSaved, Listening
  <2> QED
    BY <1>12, <2>1, <2>2
       DEF ClaimSaved, RowsTyped, ServiceTyped, QueuesTyped, CountsTyped, boltzVars, counts
<1>13. CASE s \in Outs /\ ClaimTicker(s)
  <2>1. swap' \in [Swaps -> SwapRow]
    BY <1>13, RowUpdates DEF ClaimTicker, MarkSwapState, States
  <2> QED
    BY <1>13, <2>1, TypedListenerEnds
       DEF ClaimTicker, RowsTyped, ServiceTyped, QueuesTyped, CountsTyped, boltzVars, counts
<1> QED
  BY <1>1, <1>2, <1>3, <1>4, <1>5, <1>6, <1>7, <1>8, <1>9, <1>10, <1>11, <1>12, <1>13 DEF ListenerStep

USE DEF Swaps

LEMMA TypedPayerStep == ASSUME Typed, NEW s \in Outs, PayerStep(s) PROVE Typed'
<1> USE DEF Typed
<1>1. CASE LookupPayment(s)
  <2> DEFINE n == IF lightning[s] = "none" THEN payers[s].sending + 1 ELSE payers[s].sending
  <2>1. n \in Nat
    BY DEF ServiceTyped, PayersOf
  <2>2. /\ payers' = [payers EXCEPT ![s].looking = @ - 1, ![s].sending = n]
        /\ payers[s].looking > 0
    BY <1>1 DEF LookupPayment
  <2> HIDE DEF n
  <2>3. payers' \in [Outs -> PayersOf]
    BY <2>1, <2>2, PayerUpdates
  <2> QED
    BY <1>1, <2>3 DEF LookupPayment, RowsTyped, ServiceTyped, QueuesTyped, CountsTyped, boltzVars, counts
<1>2. CASE SendPaymentSync(s)
  <2> DEFINE sent == [payers EXCEPT ![s].sending = @ - 1, ![s].waiting = TRUE]
             refused == [payers EXCEPT ![s].sending = @ - 1, ![s].error = TRUE]
  <2>a. payers[s].sending > 0 /\ (payers' = sent \/ payers' = refused)
    BY <1>2 DEF SendPaymentSync
  <2>b. sent \in [Outs -> PayersOf] /\ refused \in [Outs -> PayersOf]
    BY <2>a, PayerUpdates
  <2> HIDE DEF sent, refused
  <2>1. payers' \in [Outs -> PayersOf]
    BY <2>a, <2>b
  <2>2. lightning' \in [Swaps -> Payment]
    BY <1>2 DEF SendPaymentSync, RowsTyped, Payment
  <2> QED
    BY <1>2, <2>1, <2>2 DEF SendPaymentSync, RowsTyped, ServiceTyped, QueuesTyped, CountsTyped, counts
<1>3. CASE PaymentReturns(s)
  <2>1. PICK b \in BOOLEAN : payers' = [payers EXCEPT ![s].waiting = FALSE, ![s].error = b]
    BY <1>3 DEF PaymentReturns, ServiceTyped, PayersOf
  <2>2. payers' \in [Outs -> PayersOf]
    BY <2>1, PayerUpdates
  <2> QED
    BY <1>3, <2>2 DEF PaymentReturns, RowsTyped, ServiceTyped, QueuesTyped, CountsTyped, boltzVars, counts
<1> QED
  BY <1>1, <1>2, <1>3 DEF PayerStep

LEMMA TypedAskedRefund ==
    ASSUME Typed, NEW s \in Ins, AskRefund(s) \/ AskedRefundBroadcast(s) \/ AskedRefundSaved(s)
    PROVE  Typed'
<1> USE DEF Typed
<1>1. asking' \in [Ins -> {"never", "refunding", "refunded", "done"}]
  BY DEF AskRefund, AskedRefundBroadcast, AskedRefundSaved, ServiceTyped
<1>2. CASE AskRefund(s)
  <2>1. swap' \in [Swaps -> SwapRow]
    BY <1>2, RowUpdates DEF AskRefund
  <2> QED
    BY <1>1, <1>2, <2>1 DEF AskRefund, boltzVars, counts, RowsTyped, ServiceTyped, QueuesTyped, CountsTyped
<1>3. CASE AskedRefundBroadcast(s)
  <2>1. chain' \in [Swaps -> OnChain]
    <3>1. CASE chain' = [chain EXCEPT ![s].refund = TRUE]
      BY <3>1, ChainUpdates
    <3>2. CASE UNCHANGED chain
      BY <3>2 DEF RowsTyped
    <3> QED
      BY <1>3, <3>1, <3>2 DEF AskedRefundBroadcast
  <2> QED
    BY <1>1, <1>3, <2>1 DEF AskedRefundBroadcast, counts, RowsTyped, ServiceTyped, QueuesTyped, CountsTyped
<1>4. CASE AskedRefundSaved(s)
  <2>1. swap' \in [Swaps -> SwapRow]
    BY <1>4, RowUpdates DEF AskedRefundSaved, RefundRecorded, States
  <2> QED
    BY <1>1, <1>4, <2>1 DEF AskedRefundSaved, boltzVars, counts, RowsTyped, ServiceTyped, QueuesTyped, CountsTyped
<1> QED
  BY <1>2, <1>3, <1>4

LEMMA HandOrChannel ==
    ASSUME QueuesTyped
    PROVE  /\ updates # <<>> => /\ Head(updates) \in Message /\ Tail(updates) \in Seq(Message)
                                /\ Head(updates)[1] \in Swaps
           /\ hand # <<>> => /\ hand[1] \in Message /\ hand[1][1] \in Swaps
                             /\ hand[1][2] \in Statuses /\ hand = <<<<hand[1][1], hand[1][2]>>>>
BY DEF QueuesTyped, Message

LEMMA TypedDispatch == ASSUME Typed, TakeUpdate \/ SendUpdate PROVE Typed'
<1> USE DEF Typed
<1>1. CASE TakeUpdate
  <2>1. updates' \in Seq(Message) /\ hand' \in {<<>>} \cup {<<m>> : m \in Message}
    BY <1>1, HandOrChannel DEF TakeUpdate
  <2> QED
    BY <1>1, <2>1 DEF TakeUpdate, RowsTyped, ServiceTyped, QueuesTyped, CountsTyped, counts
<1>2. CASE SendUpdate
  <2>1. updateCh' \in [Swaps -> {<<>>} \cup {<<status>> : status \in Statuses}]
    BY <1>2, HandOrChannel DEF SendUpdate, QueuesTyped
  <2> QED
    BY <1>2, <2>1 DEF SendUpdate, RowsTyped, ServiceTyped, QueuesTyped, CountsTyped, boltzVars, counts
<1> QED
  BY <1>1, <1>2

LEMMA PlansFaults == ASSUME CountsTyped PROVE plan.faults \in Nat /\ plan.swaps \subseteq Swaps
BY DEF CountsTyped

LEMMA TypedLost == ASSUME Typed, Reconnect \/ Restart PROVE Typed'
<1> USE DEF Typed
<1>1. CASE Reconnect
  <2>0. updates' = Present(Subscribed)
    BY <1>1 DEF Reconnect, Present
  <2>1. updates' \in Seq(Message)
    BY <2>0, PresentStatuses DEF Subscribed
  <2> QED
    BY <1>1, <2>1, PlansFaults DEF Reconnect, RowsTyped, ServiceTyped, QueuesTyped, CountsTyped, service
<1>2. CASE Restart
  <2>1. updates' \in Seq(Message)
    <3> DEFINE pending == {s \in Swaps : swap[s].state = "PENDING"}
    <3>1. updates' = Present(pending)
      BY <1>2 DEF Restart, SubscribePendingSwaps, Present
    <3> HIDE DEF pending
    <3>2. pending \in SUBSET Swaps
      BY DEF pending
    <3> QED
      BY <3>1, <3>2, PresentStatuses
  <2>2. listener' \in [Swaps -> Listening]
    BY <1>2 DEF Restart, SubscribePendingSwaps, Listening
  <2>3. payers' \in [Outs -> PayersOf]
    BY <1>2 DEF Restart, PayersOf, NoPayers
  <2>4. asking' \in [Ins -> {"never", "refunding", "refunded", "done"}]
    BY <1>2 DEF Restart
  <2>5. autoLoop' \in {"off", "idle"} \cup Outs
    BY <1>2 DEF Restart
  <2> QED
    BY <1>2, <2>1, <2>2, <2>3, <2>4, <2>5, PlansFaults
       DEF Restart, RowsTyped, ServiceTyped, QueuesTyped, CountsTyped
<1> QED
  BY <1>1, <1>2

(* Starting a swap.                                                        *)
LEMMA TypedStarts ==
    ASSUME Typed, NEW s \in Swaps, NEW status \in Statuses, ListenerStarts(s, status), hand' = hand
    PROVE  QueuesTyped' /\ listener' \in [Swaps -> Listening]
<1>1. updates' \in Seq(Message)
  BY TypedPush DEF Typed, ListenerStarts
<1>2. listener' \in [Swaps -> Listening]
  BY ServiceOfListener DEF Typed, ListenerStarts, Listening
<1> QED
  BY <1>1, <1>2 DEF Typed, QueuesTyped, ListenerStarts

LEMMA TypedSwapIn ==
    ASSUME Typed, NEW s \in Ins, NEW marked \in BOOLEAN, SwapIn(s, marked), swapTab' \in SwapTab
    PROVE  Typed'
<1> USE DEF Typed
<1>1. swap' \in [Swaps -> SwapRow]
  <2>1. PICK st \in States : swap' = [swap EXCEPT ![s].state = st]
    BY DEF SwapIn, States
  <2> QED
    BY <2>1, RowUpdates
<1>2. boltz' \in [Swaps -> Statuses] /\ lightning' \in [Swaps -> Payment]
  BY DEF SwapIn, RowsTyped, Statuses, Payment
<1>3. QueuesTyped' /\ listener' \in [Swaps -> Listening]
  <2>1. CASE marked
    BY <2>1, TypedStarts DEF SwapIn, Statuses
  <2>2. CASE ~marked
    BY <2>2 DEF SwapIn, QueuesTyped, ServiceTyped
  <2> QED
    BY <2>1, <2>2
<1> QED
  BY <1>1, <1>2, <1>3 DEF SwapIn, RowsTyped, ServiceTyped, CountsTyped, counts

LEMMA TypedSwapOut ==
    ASSUME Typed, NEW s \in Outs, NEW auto \in BOOLEAN, SwapOut(s, auto), swapTab' \in SwapTab,
           autoLoop' \in {"off", "idle"} \cup Outs
    PROVE  Typed'
<1> USE DEF Typed
<1>1. swap' \in [Swaps -> SwapRow]
  BY RowUpdates DEF SwapOut, States
<1>2. boltz' \in [Swaps -> Statuses]
  BY DEF SwapOut, RowsTyped, Statuses
<1>3. QueuesTyped' /\ listener' \in [Swaps -> Listening]
  BY TypedStarts DEF SwapOut, Statuses
<1> QED
  BY <1>1, <1>2, <1>3 DEF SwapOut, RowsTyped, ServiceTyped, CountsTyped, counts

LEMMA UnseenIsSeen == Unseen \in Seen
BY DEF Unseen, Seen, States

LEMMA TypedStatusPage ==
    ASSUME NEW s \in Swaps, NEW internal \in BOOLEAN, StatusPage(s, internal)
    PROVE  swapTab' \in SwapTab
BY UnseenIsSeen DEF StatusPage, SwapTab, SwapPages

LEMMA TypedScreens == ASSUME Typed, SwapScreensNext PROVE Typed'
<1> USE DEF Typed
<1>1. ASSUME NEW p \in SwapPages, OpenSwapPage(p) PROVE Typed'
  <2>1. swapTab' \in SwapTab
    BY <1>1, UnseenIsSeen DEF OpenSwapPage, SwapTab
  <2> QED
    BY <1>1, <2>1 DEF OpenSwapPage, onlyTab, RowsTyped, ServiceTyped, QueuesTyped, CountsTyped,
       boltzVars, service, counts
<1>2. ASSUME NEW s \in Ins, NEW from \in {"internal", "external"}, NEW a \in Amounts, SubmitSwapIn(s, from, a)
      PROVE  Typed'
  <2>1. CASE SwapIn(s, TRUE) /\ StatusPage(s, from = "internal")
    BY <2>1, TypedSwapIn, TypedStatusPage
  <2>2. CASE SwapIn(s, FALSE) /\ UNCHANGED swapTab
    BY <2>2, TypedSwapIn
  <2> QED
    BY <1>2, <2>1, <2>2 DEF SubmitSwapIn
<1>3. ASSUME NEW s \in Ins, NEW a \in Amounts, SubmitReceiveOnchain(s, a)
      PROVE  Typed'
  <2>1. CASE SwapIn(s, TRUE) /\ StatusPage(s, FALSE)
    BY <2>1, TypedSwapIn, TypedStatusPage
  <2>2. CASE SwapIn(s, FALSE) /\ UNCHANGED swapTab
    BY <2>2, TypedSwapIn
  <2> QED
    BY <1>3, <2>1, <2>2 DEF SubmitReceiveOnchain
<1>4. ASSUME NEW s \in Outs, NEW a \in Amounts, SubmitSwapOut(s, a) \/ SubmitSendSwap(s, a)
      PROVE  Typed'
  <2>1. SwapOut(s, FALSE) /\ StatusPage(s, FALSE) /\ autoLoop' = autoLoop
    BY <1>4 DEF SubmitSwapOut, SubmitSendSwap
  <2> QED
    BY <2>1, TypedSwapOut, TypedStatusPage DEF ServiceTyped
<1>5. CASE PollSwap
  <2> DEFINE row == swap[swapTab.of]
  <2>1. row \in SwapRow
    BY <1>5 DEF PollSwap, RowsTyped, SwapTab
  <2>2. [state |-> row.state, lockup |-> row.lockup, claim |-> row.claim] \in Seen
    BY <2>1 DEF SwapRow, Seen
  <2> HIDE DEF row
  <2>3. swapTab' \in SwapTab
    BY <1>5, <2>2 DEF PollSwap, SwapTab, row
  <2> QED
    BY <1>5, <2>3 DEF PollSwap, onlyTab, RowsTyped, ServiceTyped, QueuesTyped, CountsTyped,
       boltzVars, service, counts
<1>6. CASE ReloadStatus
  <2>1. swapTab' \in SwapTab
    BY <1>6, TypedStatusPage DEF ReloadStatus, SwapTab
  <2> QED
    BY <1>6, <2>1 DEF ReloadStatus, onlyTab, RowsTyped, ServiceTyped, QueuesTyped, CountsTyped,
       boltzVars, service, counts
<1>7. CASE PayWithAlbyHub
  <2>1. swapTab' \in SwapTab
    BY <1>7 DEF PayWithAlbyHub, SwapTab
  <2>2. chain' \in [Swaps -> OnChain]
    <3>1. CASE /\ chain[swapTab.of].deposits < MaxDeposits
               /\ chain' = [chain EXCEPT ![swapTab.of].deposits = @ + 1]
      <4>1. CASE swapTab.of \in Swaps
        <5>1. chain[swapTab.of].deposits + 1 \in 0..MaxDeposits
          BY <3>1, <4>1 DEF RowsTyped, OnChain
        <5>2. chain' = [chain EXCEPT ![swapTab.of].deposits = chain[swapTab.of].deposits + 1]
          BY <3>1
        <5> QED
          BY <4>1, <5>1, <5>2, ChainUpdates
      <4>2. CASE swapTab.of \notin Swaps
        BY <3>1, <4>2 DEF RowsTyped
      <4> QED
        BY <4>1, <4>2
    <3>2. CASE UNCHANGED chain
      BY <3>2 DEF RowsTyped
    <3> QED
      BY <1>7, <3>1, <3>2 DEF PayWithAlbyHub
  <2> QED
    BY <1>7, <2>1, <2>2 DEF PayWithAlbyHub, RowsTyped, ServiceTyped, QueuesTyped, CountsTyped, service, counts
<1>8. CASE PayQRCode
  <2>1. chain' \in [Swaps -> OnChain]
    <3>1. CASE swapTab.of \in Swaps
      <4>1. 1 \in 0..MaxDeposits
        OBVIOUS
      <4> QED
        BY <1>8, <3>1, <4>1, ChainUpdates DEF PayQRCode
    <3>2. CASE swapTab.of \notin Swaps
      BY <1>8, <3>2 DEF PayQRCode, RowsTyped
    <3> QED
      BY <3>1, <3>2
  <2> QED
    BY <1>8, <2>1 DEF PayQRCode, RowsTyped, ServiceTyped, QueuesTyped, CountsTyped, service, counts
<1>9. CASE DeactivateAutoSwap \/ \E t, a \in Amounts : SubmitAutoSwap(t, a)
  BY <1>9 DEF DeactivateAutoSwap, SubmitAutoSwap, EnableAutoSwapOut, StopAutoSwapOut,
     RowsTyped, ServiceTyped, QueuesTyped, CountsTyped, boltzVars, counts
<1> QED
  BY <1>1, <1>2, <1>3, <1>4, <1>5, <1>6, <1>7, <1>8, <1>9, TypedAskedRefund DEF SwapScreensNext

LEMMA TypedNext == ASSUME Typed, SwapsNext PROVE Typed'
<1>1. ASSUME NEW s \in Outs, AutoSwapOut(s) PROVE Typed'
  <2>1. SwapOut(s, TRUE) /\ autoLoop' = s /\ swapTab' = swapTab
    BY <1>1 DEF AutoSwapOut
  <2> QED
    BY <2>1, TypedSwapOut DEF Typed
<1> QED
  BY <1>1, TypedScreens, TypedBoltz, TypedListenerStep, TypedPayerStep, TypedAskedRefund, TypedDispatch,
     TypedLost DEF SwapsNext

-----------------------------------------------------------------------------
(* What is so for good: Boltz does not go back, nor does the chain, and a  *)
(* row is never as if there were no swap again.                            *)
Onward(s) ==
    /\ boltz[s] \in InPaid => boltz'[s] \in InPaid
    /\ boltz[s] \in Gone => boltz'[s] \in Gone
    /\ boltz[s] \notin {"none", "created"} => boltz'[s] \notin {"none", "created"}
    /\ swap[s].state # "NONE" => swap'[s].state # "NONE"
    /\ chain[s].refund => chain'[s].refund
    /\ chain[s].claim # "none" => chain'[s].claim # "none"
    /\ chain[s].claim = "confirmed" => chain'[s].claim = "confirmed"
    /\ s \in Ins /\ swap[s].state # "NONE" /\ lightning[s] = "settled" => lightning'[s] = "settled"

LEMMA OnwardIfSame ==
    ASSUME NEW s, UNCHANGED <<swap, boltz, chain, lightning>>
    PROVE  Onward(s)
BY DEF Onward

LEMMA OnwardByBoltz ==
    ASSUME SwapsInv, NEW t \in Swaps, Boltz(t), NEW s \in Swaps
    PROVE  Onward(s)
<1> USE DEF SwapsInv, Typed, RowsTyped, Onward, InPaid, Gone
<1>1. CASE t \in Ins /\ BoltzIn(t)
  <2>1. PICK status \in Statuses :
            /\ CASE boltz[t] = "created" -> status \in (IF chain[t].deposits > 0
                                                        THEN {"mempool", "failed"} ELSE {"expired"})
                 [] boltz[t] = "mempool" -> status \in {"confirmed", "failed"}
                 [] boltz[t] = "confirmed" -> status \in {"paid", "failed"}
                 [] boltz[t] = "paid" -> status = "claimpending"
                 [] boltz[t] = "claimpending" -> status = "claimed"
                 [] boltz[t] = "failed" -> status = "expired"
                 [] OTHER -> FALSE
            /\ Progress(t, status)
            /\ lightning' = [lightning EXCEPT ![t] = IF status = "paid" THEN "settled" ELSE @]
    BY <1>1 DEF BoltzIn
  <2>2. chain' = chain /\ swap' = swap /\ boltz' = [boltz EXCEPT ![t] = status]
    BY <1>1, <2>1 DEF BoltzIn, Progress
  <2> QED
    BY <2>1, <2>2
<1>2. CASE t \in Outs /\ BoltzOut(t)
  <2>1. PICK status \in Statuses :
            /\ CASE boltz[t] = "created" -> status \in (IF lightning[t] = "pending"
                                                        THEN {"mempool", "expired"} ELSE {"expired"})
                 [] boltz[t] = "mempool" /\ chain[t].claim = "none" -> status \in {"confirmed", "expired"}
                 [] boltz[t] = "confirmed" /\ chain[t].claim = "none" -> status = "expired"
                 [] boltz[t] \in {"mempool", "confirmed"} /\ chain[t].claim # "none" ->
                        status = "settled"
                 [] OTHER -> FALSE
            /\ Progress(t, status)
            /\ \A u \in Ins : lightning'[u] = lightning[u]
    BY <1>2 DEF BoltzOut
  <2>2. chain' = chain /\ swap' = swap /\ boltz' = [boltz EXCEPT ![t] = status]
    BY <1>2, <2>1 DEF BoltzOut, Progress
  <2> QED
    BY <2>1, <2>2
<1>3. CASE t \in Outs /\ ClaimConfirms(t)
  BY <1>3 DEF ClaimConfirms, OnChain
<1> QED
  BY <1>1, <1>2, <1>3 DEF Boltz

LEMMA OnwardByListener ==
    ASSUME SwapsInv, NEW t \in Swaps, ListenerStep(t), NEW s \in Swaps
    PROVE  Onward(s)
<1>0. swap \in [Swaps -> SwapRow] /\ chain \in [Swaps -> OnChain]
  BY DEF SwapsInv, Typed, RowsTyped
<1>1. UNCHANGED <<boltz, lightning>>
  BY DEF ListenerStep, Ignored, LockupInMempool, InvoicePaid, RefundBroadcast, RefundSaved, SwapInFailed,
     SwapCreated, LockupFound, SwapOutFailed, PaymentError, ClaimBroadcast, ClaimSaved, ClaimTicker,
     Received, boltzVars
<1>2. swap[s].state # "NONE" => swap'[s].state # "NONE"
  <2>1. CASE Ignored(t) \/ LockupInMempool(t) \/ InvoicePaid(t) \/ RefundBroadcast(t) \/ RefundSaved(t)
             \/ SwapInFailed(t)
    BY <1>0, <2>1 DEF Ignored, LockupInMempool, InvoicePaid, RefundBroadcast, RefundSaved, SwapInFailed,
       ListenerFails, MarkSwapState, RefundRecorded, SwapRow
  <2>2. CASE SwapCreated(t) \/ LockupFound(t) \/ SwapOutFailed(t) \/ PaymentError(t) \/ ClaimBroadcast(t)
             \/ ClaimSaved(t) \/ ClaimTicker(t)
    BY <1>0, <2>2 DEF SwapCreated, LockupFound, SwapOutFailed, PaymentError, ClaimBroadcast, ClaimSaved,
       ClaimTicker, ListenerFails, MarkSwapState, SwapRow
  <2> QED
    BY <2>1, <2>2 DEF ListenerStep
<1>3. /\ chain[s].refund => chain'[s].refund
      /\ chain[s].claim # "none" => chain'[s].claim # "none"
      /\ chain[s].claim = "confirmed" => chain'[s].claim = "confirmed"
  <2>1. CASE RefundBroadcast(t)
    BY <1>0, <2>1 DEF RefundBroadcast, OnChain
  <2>2. CASE ClaimBroadcast(t)
    BY <1>0, <2>2 DEF ClaimBroadcast, OnChain
  <2>3. CASE ~RefundBroadcast(t) /\ ~ClaimBroadcast(t)
    BY <2>3 DEF ListenerStep, Ignored, LockupInMempool, InvoicePaid, RefundSaved, SwapInFailed,
       SwapCreated, LockupFound, SwapOutFailed, PaymentError, ClaimSaved, ClaimTicker, Received, boltzVars
  <2> QED
    BY <2>1, <2>2, <2>3
<1> QED
  BY <1>1, <1>2, <1>3 DEF Onward

LEMMA OnwardByPayer ==
    ASSUME SwapsInv, NEW t \in Outs, PayerStep(t), NEW s \in Swaps
    PROVE  Onward(s)
<1>1. UNCHANGED <<swap, boltz, chain>>
  BY DEF PayerStep, LookupPayment, SendPaymentSync, PaymentReturns, boltzVars
<1>2. s \in Ins => lightning'[s] = lightning[s]
  BY DEF PayerStep, LookupPayment, SendPaymentSync, PaymentReturns, boltzVars, SwapsInv, Typed, RowsTyped
<1> QED
  BY <1>1, <1>2 DEF Onward

LEMMA OnwardBySwapIn ==
    ASSUME SwapsInv, NEW t \in Ins, NEW marked, SwapIn(t, marked), NEW s \in Swaps
    PROVE  Onward(s)
<1>1. boltz[t] = "none" /\ swap[t].state = "NONE"
  BY DEF SwapIn, SwapsInv, InTells
<1>2. UNCHANGED chain /\ swap'[t].state # "NONE"
      /\ (s # t => swap'[s] = swap[s] /\ boltz'[s] = boltz[s] /\ lightning'[s] = lightning[s])
  BY DEF SwapIn, SwapsInv, Typed, RowsTyped, SwapRow
<1> QED
  BY <1>1, <1>2 DEF Onward, InPaid, Gone

LEMMA OnwardBySwapOut ==
    ASSUME SwapsInv, NEW t \in Outs, NEW auto, SwapOut(t, auto), NEW s \in Swaps
    PROVE  Onward(s)
<1>1. boltz[t] = "none" /\ swap[t].state = "NONE"
  BY DEF SwapOut, SwapsInv, OutTells
<1>2. UNCHANGED <<chain, lightning>> /\ swap'[t].state # "NONE"
      /\ (s # t => swap'[s] = swap[s] /\ boltz'[s] = boltz[s])
  BY DEF SwapOut, SwapsInv, Typed, RowsTyped, SwapRow
<1> QED
  BY <1>1, <1>2 DEF Onward, InPaid, Gone

LEMMA OnwardByAsking ==
    ASSUME SwapsInv, NEW t \in Ins, AskRefund(t) \/ AskedRefundBroadcast(t) \/ AskedRefundSaved(t),
           NEW s \in Swaps
    PROVE  Onward(s)
<1> USE DEF SwapsInv, Typed, RowsTyped, SwapRow, OnChain, Onward, boltzVars
<1>1. CASE AskRefund(t)
  BY <1>1 DEF AskRefund
<1>2. CASE AskedRefundBroadcast(t)
  BY <1>2 DEF AskedRefundBroadcast
<1>3. CASE AskedRefundSaved(t)
  BY <1>3 DEF AskedRefundSaved, RefundRecorded
<1> QED
  BY <1>1, <1>2, <1>3

LEMMA OnwardByDeposit ==
    ASSUME SwapsInv, PayWithAlbyHub \/ PayQRCode, NEW s \in Swaps
    PROVE  Onward(s)
<1>1. UNCHANGED <<swap, boltz, lightning>>
  BY DEF PayWithAlbyHub, PayQRCode
<1>2. chain'[s].refund = chain[s].refund /\ chain'[s].claim = chain[s].claim
  BY DEF PayWithAlbyHub, PayQRCode, SwapsInv, Typed, RowsTyped, OnChain
<1> QED
  BY <1>1, <1>2 DEF Onward

LEMMA OnwardNext ==
    ASSUME SwapsInv, SwapsNext, NEW s \in Swaps
    PROVE  Onward(s)
<1>1. CASE \/ PollSwap \/ ReloadStatus \/ DeactivateAutoSwap \/ TakeUpdate \/ SendUpdate \/ Reconnect
           \/ Restart
           \/ \E p \in SwapPages : OpenSwapPage(p)
           \/ \E t, a \in Amounts : SubmitAutoSwap(t, a)
  <2>1. UNCHANGED <<swap, boltz, chain, lightning>>
    BY <1>1 DEF PollSwap, ReloadStatus, DeactivateAutoSwap, TakeUpdate, SendUpdate, Reconnect, Restart,
       OpenSwapPage, SubmitAutoSwap, onlyTab, boltzVars
  <2> QED
    BY <2>1, OnwardIfSame
<1>2. CASE \/ \E t \in Ins, from \in {"internal", "external"}, a \in Amounts : SubmitSwapIn(t, from, a)
           \/ \E t \in Ins, a \in Amounts : SubmitReceiveOnchain(t, a)
  <2>1. PICK t \in Ins : SwapIn(t, TRUE) \/ SwapIn(t, FALSE)
    BY <1>2 DEF SubmitSwapIn, SubmitReceiveOnchain
  <2> QED
    BY <2>1, OnwardBySwapIn
<1>3. CASE \/ \E t \in Outs, a \in Amounts : SubmitSwapOut(t, a) \/ SubmitSendSwap(t, a)
           \/ \E t \in Outs : AutoSwapOut(t)
  <2>1. PICK t \in Outs : SwapOut(t, TRUE) \/ SwapOut(t, FALSE)
    BY <1>3 DEF SubmitSwapOut, SubmitSendSwap, AutoSwapOut
  <2> QED
    BY <2>1, OnwardBySwapOut
<1> QED
  BY <1>1, <1>2, <1>3, OnwardByBoltz, OnwardByListener, OnwardByPayer, OnwardByAsking, OnwardByDeposit
     DEF SwapsNext, SwapScreensNext

-----------------------------------------------------------------------------
(* An update under way says what Boltz said.                               *)

LEMMA SaidStays ==
    ASSUME \A s \in Swaps : Onward(s)
    PROVE  \A s \in Swaps : \A status : Said(boltz[s], status) => Said(boltz'[s], status)
BY DEF Onward, Said

(* The messages of the next state are messages of this one, or bring the   *)
(* status Boltz has now, or "swap.created".                                *)
NoNews(q) ==
    \A i \in DOMAIN q :
        \/ \E j \in DOMAIN updates : q[i] = updates[j]
        \/ q[i][1] \in Swaps /\ (q[i][2] = boltz'[q[i][1]] \/ q[i][2] = "created")

LEMMA MessagesSaidAfter ==
    ASSUME SwapsInv, \A s \in Swaps : Onward(s), QueuesTyped', NoNews(updates'),
           hand' # <<>> => hand' = hand \/ (updates # <<>> /\ hand' = <<Head(updates)>>),
           \A s \in Swaps : updateCh'[s] # <<>> => updateCh'[s] = updateCh[s] \/ hand = <<<<s, updateCh'[s][1]>>>>
    PROVE  MessagesSaid'
<1>0. \A j \in DOMAIN updates : updates[j][1] \in Swaps
  BY DEF SwapsInv, Typed, QueuesTyped, Message
<1>1. ASSUME NEW i \in DOMAIN updates' PROVE Said(boltz'[updates'[i][1]], updates'[i][2])
  <2>1. CASE \E j \in DOMAIN updates : updates'[i] = updates[j]
    <3>1. PICK j \in DOMAIN updates : updates'[i] = updates[j]
      BY <2>1
    <3>2. Said(boltz[updates[j][1]], updates[j][2])
      BY DEF SwapsInv, MessagesSaid
    <3> QED
      BY <1>0, <3>1, <3>2, SaidStays
  <2>2. CASE updates'[i][1] \in Swaps /\ (updates'[i][2] = boltz'[updates'[i][1]] \/ updates'[i][2] = "created")
    BY <2>2 DEF Said, InPaid, Gone
  <2> QED
    BY <1>1, <2>1, <2>2 DEF NoNews
<1>2. ASSUME hand' # <<>> PROVE Said(boltz'[hand'[1][1]], hand'[1][2])
  <2>1. CASE hand' = hand
    <3>1. hand # <<>> /\ hand[1][1] \in Swaps /\ Said(boltz[hand[1][1]], hand[1][2])
      BY <1>2, <2>1, HandOrChannel DEF SwapsInv, MessagesSaid, Typed
    <3> QED
      BY <2>1, <3>1, SaidStays
  <2>2. CASE updates # <<>> /\ hand' = <<Head(updates)>>
    <3>1. hand'[1] = updates[1] /\ 1 \in DOMAIN updates
      BY <2>2 DEF SwapsInv, Typed, QueuesTyped
    <3>2. Said(boltz[updates[1][1]], updates[1][2])
      BY <3>1 DEF SwapsInv, MessagesSaid
    <3> QED
      BY <1>0, <3>1, <3>2, SaidStays
  <2> QED
    BY <1>2, <2>1, <2>2
<1>3. ASSUME NEW s \in Swaps, updateCh'[s] # <<>> PROVE Said(boltz'[s], updateCh'[s][1])
  <2>1. CASE updateCh'[s] = updateCh[s]
    BY <1>3, <2>1, SaidStays DEF SwapsInv, MessagesSaid
  <2>2. CASE hand = <<<<s, updateCh'[s][1]>>>>
    <3>1. hand # <<>> /\ hand[1][1] = s /\ hand[1][2] = updateCh'[s][1]
      BY <2>2
    <3>2. Said(boltz[s], updateCh'[s][1])
      BY <3>1 DEF SwapsInv, MessagesSaid
    <3> QED
      BY <3>2, SaidStays
  <2> QED
    BY <1>3, <2>1, <2>2
<1> QED
  BY <1>1, <1>2, <1>3 DEF MessagesSaid

LEMMA NoNewsIfSame == ASSUME UNCHANGED updates PROVE NoNews(updates')
BY DEF NoNews

LEMMA NoNewsByPush ==
    ASSUME SwapsInv, NEW s \in Swaps, NEW status, status = boltz'[s] \/ status = "created",
           updates' = Append(updates, <<s, status>>)
    PROVE  NoNews(updates')
<1>1. updates \in Seq(Message)
  BY DEF SwapsInv, Typed, QueuesTyped
<1>2. \A i \in DOMAIN updates' : (i \in DOMAIN updates /\ updates'[i] = updates[i]) \/ updates'[i] = <<s, status>>
  BY <1>1
<1> QED
  BY <1>2 DEF NoNews

LEMMA NoNewsByListener ==
    ASSUME SwapsInv, NEW s \in Swaps, NEW status, status = boltz'[s] \/ status = "created",
           ListenerStarts(s, status), UNCHANGED hand
    PROVE  /\ NoNews(updates')
           /\ \A t \in Swaps : updateCh'[t] # <<>> => updateCh'[t] = updateCh[t]
<1>1. NoNews(updates')
  BY NoNewsByPush DEF ListenerStarts
<1>2. \A t \in Swaps : updateCh'[t] # <<>> => updateCh'[t] = updateCh[t]
  BY DEF ListenerStarts, SwapsInv, Typed, QueuesTyped
<1> QED
  BY <1>1, <1>2

LEMMA MessagesNext == ASSUME SwapsInv, SwapsNext PROVE MessagesSaid'
<1> DEFINE Hand == hand' # <<>> => hand' = hand \/ (updates # <<>> /\ hand' = <<Head(updates)>>)
           Channel == \A s \in Swaps : updateCh'[s] # <<>> =>
                            updateCh'[s] = updateCh[s] \/ hand = <<<<s, updateCh'[s][1]>>>>
<1> SUFFICES NoNews(updates') /\ Hand /\ Channel
  <2>1. QueuesTyped'
    BY TypedNext DEF SwapsInv, Typed
  <2> QED
    BY <2>1, OnwardNext, MessagesSaidAfter
<1>1. CASE \/ PollSwap \/ ReloadStatus \/ DeactivateAutoSwap \/ PayWithAlbyHub \/ PayQRCode
           \/ \E p \in SwapPages : OpenSwapPage(p)
           \/ \E t, a \in Amounts : SubmitAutoSwap(t, a)
           \/ \E s \in Ins : AskRefund(s) \/ AskedRefundBroadcast(s) \/ AskedRefundSaved(s)
           \/ \E s \in Outs : PayerStep(s) \/ ClaimConfirms(s)
  <2>1. UNCHANGED <<updates, hand, updateCh>>
    BY <1>1 DEF PollSwap, ReloadStatus, DeactivateAutoSwap, OpenSwapPage, SubmitAutoSwap, PayWithAlbyHub,
       PayQRCode, AskRefund, AskedRefundBroadcast, AskedRefundSaved, PayerStep, LookupPayment,
       SendPaymentSync, PaymentReturns, ClaimConfirms, onlyTab, boltzVars, service
  <2> QED
    BY <2>1, NoNewsIfSame
<1>2. ASSUME NEW s \in Swaps, ListenerStep(s) PROVE NoNews(updates') /\ Hand /\ Channel
  <2>1. UNCHANGED <<updates, hand>>
    BY <1>2 DEF ListenerStep, Ignored, LockupInMempool, InvoicePaid, RefundBroadcast, RefundSaved,
       SwapInFailed, SwapCreated, LockupFound, SwapOutFailed, PaymentError, ClaimBroadcast, ClaimSaved,
       ClaimTicker, Received, boltzVars
  <2>2. UNCHANGED updateCh \/ updateCh' = [updateCh EXCEPT ![s] = <<>>]
    BY <1>2 DEF ListenerStep, Ignored, LockupInMempool, InvoicePaid, RefundBroadcast, RefundSaved,
       SwapInFailed, SwapCreated, LockupFound, SwapOutFailed, PaymentError, ClaimBroadcast, ClaimSaved,
       ClaimTicker, Received, boltzVars
  <2>3. Channel
    BY <2>2 DEF SwapsInv, Typed, QueuesTyped
  <2> QED
    BY <2>1, <2>3, NoNewsIfSame
<1>3. ASSUME NEW s \in Swaps, NEW status \in Statuses, Progress(s, status)
      PROVE  NoNews(updates') /\ Hand /\ Channel
  <2>1. boltz'[s] = status /\ UNCHANGED <<hand, updateCh>>
    BY <1>3 DEF Progress, service, SwapsInv, Typed, RowsTyped
  <2>2. NoNews(updates')
    <3>1. CASE UNCHANGED updates
      BY <3>1, NoNewsIfSame
    <3>2. CASE updates' = Append(updates, <<s, status>>)
      BY <2>1, <3>2, NoNewsByPush
    <3> QED
      BY <1>3, <3>1, <3>2 DEF Progress, Push
  <2> QED
    BY <2>1, <2>2
<1>4. CASE \E s \in Swaps : (s \in Ins /\ BoltzIn(s)) \/ (s \in Outs /\ BoltzOut(s))
  <2>1. PICK s \in Swaps, status \in Statuses : Progress(s, status)
    BY <1>4 DEF BoltzIn, BoltzOut
  <2> QED
    BY <2>1, <1>3
<1>5. CASE \/ \E t \in Ins, from \in {"internal", "external"}, a \in Amounts : SubmitSwapIn(t, from, a)
           \/ \E t \in Ins, a \in Amounts : SubmitReceiveOnchain(t, a)
  <2>1. PICK t \in Ins : SwapIn(t, TRUE) \/ SwapIn(t, FALSE)
    BY <1>5 DEF SubmitSwapIn, SubmitReceiveOnchain
  <2>2. UNCHANGED hand /\ (UNCHANGED <<updates, updateCh>> \/ ListenerStarts(t, "created"))
    BY <2>1 DEF SwapIn
  <2> QED
    BY <2>2, NoNewsIfSame, NoNewsByListener
<1>6. CASE \/ \E t \in Outs, a \in Amounts : SubmitSwapOut(t, a) \/ SubmitSendSwap(t, a)
           \/ \E t \in Outs : AutoSwapOut(t)
  <2>1. PICK t \in Outs : SwapOut(t, TRUE) \/ SwapOut(t, FALSE)
    BY <1>6 DEF SubmitSwapOut, SubmitSendSwap, AutoSwapOut
  <2>2. UNCHANGED hand /\ ListenerStarts(t, "created")
    BY <2>1 DEF SwapOut
  <2> QED
    BY <2>2, NoNewsByListener
<1>7. CASE TakeUpdate
  <2>1. updates \in Seq(Message) /\ updates # <<>>
    BY <1>7 DEF TakeUpdate, SwapsInv, Typed, QueuesTyped
  <2>2. \A i \in DOMAIN Tail(updates) : i + 1 \in DOMAIN updates /\ Tail(updates)[i] = updates[i + 1]
    BY <2>1
  <2>3. NoNews(updates')
    BY <1>7, <2>2 DEF TakeUpdate, NoNews
  <2> QED
    BY <1>7, <2>1, <2>3 DEF TakeUpdate
<1>8. CASE SendUpdate
  <2>1. Channel
    BY <1>8, HandOrChannel DEF SendUpdate, SwapsInv, Typed, QueuesTyped
  <2> QED
    BY <1>8, <2>1, NoNewsIfSame DEF SendUpdate, boltzVars
<1>9. CASE Reconnect
  <2>1. updates' = Present(Subscribed) /\ UNCHANGED <<boltz, hand, updateCh>>
    BY <1>9 DEF Reconnect, service, Present
  <2>2. \A i \in DOMAIN updates' : updates'[i][1] \in Subscribed /\ updates'[i][2] = boltz[updates'[i][1]]
    BY <2>1, PresentStatuses DEF SwapsInv, Typed, Subscribed
  <2> QED
    BY <2>1, <2>2 DEF NoNews, Subscribed
<1>10. CASE Restart
  <2> DEFINE pending == {s \in Swaps : swap[s].state = "PENDING"}
  <2>1. updates' = Present(pending) /\ UNCHANGED boltz
        /\ hand' = <<>> /\ \A s \in Swaps : updateCh'[s] = <<>>
    BY <1>10 DEF Restart, SubscribePendingSwaps, Present
  <2> HIDE DEF pending
  <2>3. pending \in SUBSET Swaps
    BY DEF pending
  <2>2. \A i \in DOMAIN updates' : updates'[i][1] \in pending /\ updates'[i][2] = boltz[updates'[i][1]]
    BY <2>1, <2>3, PresentStatuses DEF SwapsInv, Typed
  <2> QED
    BY <2>1, <2>2, <2>3 DEF NoNews
<1> QED
  BY <1>1, <1>2, <1>4, <1>5, <1>6, <1>7, <1>8, <1>9, <1>10 DEF SwapsNext, SwapScreensNext, Boltz

-----------------------------------------------------------------------------
(* A swap in.                                                              *)

LEMMA InSame ==
    ASSUME NEW q \in Ins, InTells(q), restarts' >= restarts, restarts \in Nat, restarts' \in Nat,
           swap'[q] = swap[q], boltz'[q] = boltz[q], lightning'[q] = lightning[q],
           chain'[q].refund = chain[q].refund, listener'[q] = listener[q], asking'[q] = asking[q]
    PROVE  InTells(q)'
BY DEF InTells

LEMMA InByBoltz ==
    ASSUME SwapsInv, NEW t \in Swaps, Boltz(t), NEW q \in Ins
    PROVE  InTells(q)'
<1> USE DEF SwapsInv, Typed, RowsTyped, ServiceTyped, CountsTyped, InPaid, Gone
<1>1. CASE t \in Ins /\ BoltzIn(t)
  <2>1. PICK status \in Statuses :
            /\ CASE boltz[t] = "created" -> status \in (IF chain[t].deposits > 0
                                                        THEN {"mempool", "failed"} ELSE {"expired"})
                 [] boltz[t] = "mempool" -> status \in {"confirmed", "failed"}
                 [] boltz[t] = "confirmed" -> status \in {"paid", "failed"}
                 [] boltz[t] = "paid" -> status = "claimpending"
                 [] boltz[t] = "claimpending" -> status = "claimed"
                 [] boltz[t] = "failed" -> status = "expired"
                 [] OTHER -> FALSE
            /\ Progress(t, status)
            /\ lightning' = [lightning EXCEPT ![t] = IF status = "paid" THEN "settled" ELSE @]
    BY <1>1 DEF BoltzIn
  <2>2. UNCHANGED <<chain, swap, listener, asking, restarts>> /\ boltz' = [boltz EXCEPT ![t] = status]
    BY <1>1, <2>1 DEF BoltzIn, Progress, service, counts
  <2>3. boltz[t] # "none"
    BY <2>1
  <2>4. CASE q = t
    BY <2>1, <2>2, <2>3, <2>4 DEF InTells
  <2>5. CASE q # t
    BY <2>1, <2>2, <2>5, InSame
  <2> QED
    BY <2>4, <2>5
<1>2. CASE t \in Outs /\ (BoltzOut(t) \/ ClaimConfirms(t))
  <2>1. UNCHANGED <<swap, listener, asking, restarts>>
    BY <1>2 DEF BoltzOut, ClaimConfirms, Progress, service, counts
  <2>2. boltz'[q] = boltz[q] /\ lightning'[q] = lightning[q] /\ chain'[q].refund = chain[q].refund
    BY <1>2 DEF BoltzOut, ClaimConfirms, Progress, service, counts
  <2> QED
    BY <2>1, <2>2, InSame
<1> QED
  BY <1>1, <1>2 DEF Boltz

(* An update a listener receives is one that Boltz pushed.                 *)
LEMMA ReceivedIsSaid ==
    ASSUME SwapsInv, NEW t \in Swaps, NEW T, Received(t, T)
    PROVE  /\ \E status \in T : updateCh[t] = <<status>> /\ Said(boltz[t], status)
           /\ listener[t] = "on" /\ UNCHANGED <<boltz, chain, lightning, asking, restarts>>
BY DEF SwapsInv, Typed, QueuesTyped, MessagesSaid, Received, boltzVars, counts

LEMMA InByListener ==
    ASSUME SwapsInv, NEW t \in Swaps, ListenerStep(t), NEW q \in Ins
    PROVE  InTells(q)'
<1> USE DEF SwapsInv, Typed, RowsTyped, ServiceTyped, CountsTyped
<1>0. InTells(q)
  OBVIOUS
<1>1. CASE q # t
  <2>1. /\ UNCHANGED <<boltz, lightning, asking, restarts>>
        /\ \A s \in Ins : s # t => chain'[s].refund = chain[s].refund
    BY DEF ListenerStep, Ignored, LockupInMempool, InvoicePaid, RefundBroadcast, RefundSaved, SwapInFailed,
       SwapCreated, LockupFound, SwapOutFailed, PaymentError, ClaimBroadcast, ClaimSaved, ClaimTicker,
       Received, boltzVars, counts
  <2>2. \A s \in Ins : s # t => swap'[s] = swap[s] /\ listener'[s] = listener[s]
    BY DEF ListenerStep, Ignored, LockupInMempool, InvoicePaid, RefundBroadcast, RefundSaved, SwapInFailed,
       SwapCreated, LockupFound, SwapOutFailed, PaymentError, ClaimBroadcast, ClaimSaved, ClaimTicker,
       ListenerFails, ListenerEnds, MarkSwapState, RefundRecorded
  <2> QED
    BY <1>0, <1>1, <2>1, <2>2, InSame
<1>2. CASE q = t /\ (Ignored(t) \/ LockupInMempool(t))
  <2>1. /\ UNCHANGED <<boltz, chain, lightning, asking, restarts, listener>>
        /\ swap'[q].state = swap[q].state /\ swap'[q].claim = swap[q].claim
    BY <1>2 DEF Ignored, LockupInMempool, Received, boltzVars, counts, SwapRow
  <2> QED
    BY <1>0, <2>1 DEF InTells
<1>3. CASE q = t /\ InvoicePaid(t)
  <2>1. boltz[q] \in InPaid /\ listener[q] = "on" /\ UNCHANGED <<boltz, chain, lightning, asking, restarts>>
    BY <1>3, ReceivedIsSaid DEF InvoicePaid, Said
  <2>2. listener'[q] = "none" /\ swap'[q].state = "SUCCESS" /\ swap'[q].claim = swap[q].claim
    BY <1>3 DEF InvoicePaid, ListenerEnds, MarkSwapState, SwapRow
  <2> QED
    BY <1>0, <2>1, <2>2 DEF InTells, InPaid, Gone
<1>4. CASE q = t /\ RefundBroadcast(t)
  <2>0. listener[q] = "refunding" /\ UNCHANGED <<boltz, lightning, asking, restarts>>
    BY <1>4 DEF RefundBroadcast, counts
  <2>1. CASE ListenerFails(t) /\ UNCHANGED chain
    <3>1. listener'[q] = "none" /\ swap'[q].state = "FAILED" /\ swap'[q].claim = swap[q].claim
      BY <1>4, <2>1 DEF ListenerFails, ListenerEnds, MarkSwapState, SwapRow
    <3> QED
      BY <1>0, <2>0, <2>1, <3>1 DEF InTells, InPaid, Gone
  <2>2. CASE /\ chain' = [chain EXCEPT ![t].refund = TRUE]
             /\ listener' = [listener EXCEPT ![t] = "refunded"]
             /\ UNCHANGED <<swap, autoLoop>>
    <3>1. chain'[q].refund /\ listener'[q] = "refunded" /\ swap'[q] = swap[q]
      BY <1>4, <2>2 DEF OnChain
    <3> QED
      BY <1>0, <2>0, <3>1 DEF InTells, InPaid, Gone
  <2> QED
    BY <1>4, <2>1, <2>2 DEF RefundBroadcast
<1>5. CASE q = t /\ RefundSaved(t)
  <2>1. listener[q] = "refunded" /\ UNCHANGED <<boltz, chain, lightning, asking, restarts>>
    BY <1>5 DEF RefundSaved, boltzVars, counts
  <2>2. listener'[q] = "none" /\ swap'[q].state = "REFUNDED" /\ swap'[q].claim
    BY <1>5 DEF RefundSaved, RefundRecorded, ListenerEnds, SwapRow
  <2> QED
    BY <1>0, <2>1, <2>2 DEF InTells
<1>6. CASE q = t /\ SwapInFailed(t)
  <2>1. boltz[q] \in Gone /\ listener[q] = "on" /\ UNCHANGED <<boltz, chain, lightning, asking, restarts>>
    BY <1>6, ReceivedIsSaid DEF SwapInFailed, Said, Gone
  <2>2. CASE RefundPossible(t)
    <3>1. swap' = [swap EXCEPT ![t].lockup = TRUE] /\ listener' = [listener EXCEPT ![t] = "refunding"]
      BY <1>6, <2>2 DEF SwapInFailed
    <3>2. swap'[q].state = swap[q].state /\ swap'[q].claim = swap[q].claim /\ listener'[q] = "refunding"
      BY <1>6, <3>1 DEF SwapRow
    <3> QED
      BY <1>0, <2>1, <3>2 DEF InTells, InPaid, Gone
  <2>3. CASE ~RefundPossible(t)
    <3>1. ListenerFails(t)
      BY <1>6, <2>3 DEF SwapInFailed
    <3>2. listener'[q] = "none" /\ swap'[q].state = "FAILED" /\ swap'[q].claim = swap[q].claim
      BY <1>6, <3>1 DEF ListenerFails, ListenerEnds, MarkSwapState, SwapRow
    <3> QED
      BY <1>0, <2>1, <3>2 DEF InTells, InPaid, Gone
  <2> QED
    BY <2>2, <2>3
<1> QED
  BY <1>1, <1>2, <1>3, <1>4, <1>5, <1>6
     DEF ListenerStep, SwapCreated, LockupFound, SwapOutFailed

LEMMA InByAsking ==
    ASSUME SwapsInv, NEW t \in Ins, AskRefund(t) \/ AskedRefundBroadcast(t) \/ AskedRefundSaved(t),
           NEW q \in Ins
    PROVE  InTells(q)'
<1> USE DEF SwapsInv, Typed, RowsTyped, ServiceTyped, CountsTyped
<1>0. InTells(q) /\ UNCHANGED <<boltz, lightning, listener, restarts>>
  BY DEF AskRefund, AskedRefundBroadcast, AskedRefundSaved, boltzVars, counts
<1>1. CASE q # t
  <2>1. swap'[q] = swap[q] /\ chain'[q] = chain[q] /\ asking'[q] = asking[q]
    BY <1>1 DEF AskRefund, AskedRefundBroadcast, AskedRefundSaved, RefundRecorded, boltzVars
  <2> QED
    BY <1>0, <2>1, InSame
<1>2. CASE q = t /\ AskRefund(t)
  <2>1. /\ swap'[q].state = swap[q].state /\ swap'[q].claim = swap[q].claim /\ chain'[q] = chain[q]
        /\ swap[q].state # "NONE" /\ asking'[q] = "refunding"
    BY <1>2 DEF AskRefund, SwapRow, boltzVars
  <2> QED
    BY <1>0, <2>1 DEF InTells
<1>3. CASE q = t /\ AskedRefundBroadcast(t)
  <2>1. /\ swap'[q] = swap[q] /\ asking[q] = "refunding"
        /\ \/ chain'[q].refund /\ asking'[q] = "refunded" /\ boltz[q] \in Gone
           \/ chain'[q] = chain[q] /\ asking'[q] = "done"
    BY <1>3 DEF AskedRefundBroadcast, OnChain, Gone
  <2> QED
    BY <1>0, <2>1 DEF InTells, InPaid, Gone
<1>4. CASE q = t /\ AskedRefundSaved(t)
  <2>1. /\ swap'[q].state = "REFUNDED" /\ swap'[q].claim /\ chain'[q] = chain[q]
        /\ asking[q] = "refunded" /\ asking'[q] = "done"
    BY <1>4 DEF AskedRefundSaved, RefundRecorded, SwapRow, boltzVars
  <2> QED
    BY <1>0, <2>1 DEF InTells
<1> QED
  BY <1>1, <1>2, <1>3, <1>4

LEMMA InBySwapIn ==
    ASSUME SwapsInv, NEW t \in Ins, NEW marked \in BOOLEAN, SwapIn(t, marked), NEW q \in Ins
    PROVE  InTells(q)'
<1> USE DEF SwapsInv, Typed, RowsTyped, ServiceTyped, CountsTyped
<1>0. InTells(q) /\ UNCHANGED <<chain, asking, restarts>>
  BY DEF SwapIn, counts
<1>1. CASE q # t
  <2>1. swap'[q] = swap[q] /\ boltz'[q] = boltz[q] /\ lightning'[q] = lightning[q]
    BY <1>1 DEF SwapIn
  <2>2. listener'[q] = listener[q]
    BY <1>1 DEF SwapIn, ListenerStarts
  <2> QED
    BY <1>0, <2>1, <2>2, InSame
<1>2. CASE q = t
  <2>1. /\ swap[q].state = "NONE" /\ boltz'[q] = "created"
        /\ swap'[q].state = IF marked THEN "PENDING" ELSE "FAILED"
        /\ swap'[q].claim = swap[q].claim
    BY <1>2 DEF SwapIn, SwapRow
  <2>2. listener'[q] = IF marked THEN "on" ELSE listener[q]
    BY <1>2 DEF SwapIn, ListenerStarts
  <2> QED
    BY <1>0, <2>1, <2>2 DEF InTells, InPaid, Gone
<1> QED
  BY <1>1, <1>2

LEMMA InBySwapOut ==
    ASSUME SwapsInv, NEW t \in Outs, NEW auto \in BOOLEAN, SwapOut(t, auto), NEW q \in Ins
    PROVE  InTells(q)'
<1> USE DEF SwapsInv, Typed, RowsTyped, ServiceTyped, CountsTyped
<1>1. UNCHANGED <<chain, lightning, asking, restarts>>
  BY DEF SwapOut, counts
<1>2. swap'[q] = swap[q] /\ boltz'[q] = boltz[q] /\ listener'[q] = listener[q]
  BY DEF SwapOut, ListenerStarts
<1> QED
  BY <1>1, <1>2, InSame

LEMMA InByRestart == ASSUME SwapsInv, Restart, NEW q \in Ins PROVE InTells(q)'
<1> USE DEF SwapsInv, Typed, RowsTyped, ServiceTyped, CountsTyped
<1>1. /\ UNCHANGED <<swap, boltz, chain, lightning>> /\ restarts' = restarts + 1
      /\ listener'[q] = IF swap[q].state = "PENDING" THEN "on" ELSE "none"
      /\ asking'[q] = IF asking[q] = "never" THEN "never" ELSE "done"
  BY DEF Restart, SubscribePendingSwaps
<1> QED
  BY <1>1 DEF InTells

LEMMA InNext == ASSUME SwapsInv, SwapsNext, NEW q \in Ins PROVE InTells(q)'
<1>1. CASE \/ PollSwap \/ ReloadStatus \/ DeactivateAutoSwap \/ TakeUpdate \/ SendUpdate \/ Reconnect
           \/ \E p \in SwapPages : OpenSwapPage(p)
           \/ \E t, a \in Amounts : SubmitAutoSwap(t, a)
  <2>1. UNCHANGED <<swap, boltz, chain, lightning, listener, asking, restarts>>
    BY <1>1 DEF PollSwap, ReloadStatus, DeactivateAutoSwap, TakeUpdate, SendUpdate, Reconnect,
       OpenSwapPage, SubmitAutoSwap, onlyTab, boltzVars, service, counts
  <2> QED
    BY <2>1, InSame DEF SwapsInv, Typed, CountsTyped
<1>2. CASE PayWithAlbyHub \/ PayQRCode
  <2>1. UNCHANGED <<swap, boltz, lightning, listener, asking, restarts>>
    BY <1>2 DEF PayWithAlbyHub, PayQRCode, service, counts
  <2>2. chain'[q].refund = chain[q].refund
    BY <1>2 DEF PayWithAlbyHub, PayQRCode, SwapsInv, Typed, RowsTyped, OnChain
  <2> QED
    BY <2>1, <2>2, InSame DEF SwapsInv, Typed, CountsTyped
<1>3. CASE \E t \in Outs : PayerStep(t)
  <2>1. PICK t \in Outs : PayerStep(t)
    BY <1>3
  <2>2. UNCHANGED <<swap, boltz, chain, listener, asking, restarts>> /\ lightning'[q] = lightning[q]
    BY <2>1 DEF PayerStep, LookupPayment, SendPaymentSync, PaymentReturns, boltzVars, counts,
       SwapsInv, Typed, RowsTyped
  <2> QED
    BY <2>2, InSame DEF SwapsInv, Typed, CountsTyped
<1>4. CASE \/ \E t \in Ins, from \in {"internal", "external"}, a \in Amounts : SubmitSwapIn(t, from, a)
           \/ \E t \in Ins, a \in Amounts : SubmitReceiveOnchain(t, a)
  <2>1. PICK t \in Ins : SwapIn(t, TRUE) \/ SwapIn(t, FALSE)
    BY <1>4 DEF SubmitSwapIn, SubmitReceiveOnchain
  <2> QED
    BY <2>1, InBySwapIn
<1>5. CASE \/ \E t \in Outs, a \in Amounts : SubmitSwapOut(t, a) \/ SubmitSendSwap(t, a)
           \/ \E t \in Outs : AutoSwapOut(t)
  <2>1. PICK t \in Outs : SwapOut(t, TRUE) \/ SwapOut(t, FALSE)
    BY <1>5 DEF SubmitSwapOut, SubmitSendSwap, AutoSwapOut
  <2> QED
    BY <2>1, InBySwapOut
<1> QED
  BY <1>1, <1>2, <1>3, <1>4, <1>5, InByBoltz, InByListener, InByAsking, InByRestart
     DEF SwapsNext, SwapScreensNext

-----------------------------------------------------------------------------
(* A swap out.                                                             *)

LEMMA OutSame ==
    ASSUME NEW q \in Outs, OutTells(q),
           swap'[q].state = swap[q].state, swap'[q].claim = swap[q].claim, boltz'[q] = boltz[q],
           chain'[q].claim = chain[q].claim, listener'[q] = listener[q]
    PROVE  OutTells(q)'
BY DEF OutTells

LEMMA OutByBoltz ==
    ASSUME SwapsInv, NEW t \in Swaps, Boltz(t), NEW q \in Outs
    PROVE  OutTells(q)'
<1> USE DEF SwapsInv, Typed, RowsTyped, ServiceTyped
<1>0. OutTells(q) /\ UNCHANGED <<swap, listener>>
  BY DEF Boltz, BoltzIn, BoltzOut, ClaimConfirms, Progress, service
<1>1. CASE t \in Ins /\ BoltzIn(t)
  <2>1. UNCHANGED chain /\ boltz'[q] = boltz[q]
    BY <1>1 DEF BoltzIn, Progress
  <2> QED
    BY <1>0, <2>1, OutSame
<1>2. CASE t \in Outs /\ BoltzOut(t)
  <2>1. PICK status \in Statuses :
            /\ CASE boltz[t] = "created" -> status \in (IF lightning[t] = "pending"
                                                        THEN {"mempool", "expired"} ELSE {"expired"})
                 [] boltz[t] = "mempool" /\ chain[t].claim = "none" -> status \in {"confirmed", "expired"}
                 [] boltz[t] = "confirmed" /\ chain[t].claim = "none" -> status = "expired"
                 [] boltz[t] \in {"mempool", "confirmed"} /\ chain[t].claim # "none" ->
                        status = "settled"
                 [] OTHER -> FALSE
            /\ Progress(t, status)
    BY <1>2 DEF BoltzOut
  <2>2. UNCHANGED chain /\ boltz' = [boltz EXCEPT ![t] = status]
    BY <1>2, <2>1 DEF BoltzOut, Progress
  <2>3. CASE q = t
    <3>1. /\ boltz[q] \in {"created", "mempool", "confirmed"} /\ boltz'[q] = status
          /\ status \in {"expired"} \cup Locked
          /\ chain[q].claim # "none" => boltz[q] = "created" \/ status = "settled"
      BY <2>1, <2>2, <2>3 DEF Locked
    <3> QED
      BY <1>0, <2>2, <3>1 DEF OutTells, Locked
  <2>4. CASE q # t
    BY <1>0, <2>2, <2>4, OutSame
  <2> QED
    BY <2>3, <2>4
<1>3. CASE t \in Outs /\ ClaimConfirms(t)
  <2>1. UNCHANGED boltz /\ chain[t].claim = "mempool" /\ chain' = [chain EXCEPT ![t].claim = "confirmed"]
    BY <1>3 DEF ClaimConfirms
  <2>2. CASE q = t
    <3>1. chain[q].claim # "none" /\ chain'[q].claim = "confirmed"
      BY <2>1, <2>2 DEF OnChain
    <3> QED
      BY <1>0, <2>1, <3>1 DEF OutTells
  <2>3. CASE q # t
    BY <1>0, <2>1, <2>3, OutSame
  <2> QED
    BY <2>2, <2>3
<1> QED
  BY <1>1, <1>2, <1>3 DEF Boltz

(* What a step of the listener of a swap out does to its row and itself.   *)
LEMMA OutByListener ==
    ASSUME SwapsInv, NEW t \in Swaps, ListenerStep(t), NEW q \in Outs
    PROVE  OutTells(q)'
<1> USE DEF SwapsInv, Typed, RowsTyped, ServiceTyped
<1>0. OutTells(q) /\ UNCHANGED boltz
  BY DEF ListenerStep, Ignored, LockupInMempool, InvoicePaid, RefundBroadcast, RefundSaved, SwapInFailed,
     SwapCreated, LockupFound, SwapOutFailed, PaymentError, ClaimBroadcast, ClaimSaved, ClaimTicker,
     Received, boltzVars
<1>1. CASE q # t
  <2>1. \A s \in Outs : s # t => chain'[s].claim = chain[s].claim
    BY DEF ListenerStep, Ignored, LockupInMempool, InvoicePaid, RefundBroadcast, RefundSaved, SwapInFailed,
       SwapCreated, LockupFound, SwapOutFailed, PaymentError, ClaimBroadcast, ClaimSaved, ClaimTicker,
       Received, boltzVars, counts
  <2>2. \A s \in Outs : s # t => swap'[s] = swap[s] /\ listener'[s] = listener[s]
    BY DEF ListenerStep, Ignored, LockupInMempool, InvoicePaid, RefundBroadcast, RefundSaved, SwapInFailed,
       SwapCreated, LockupFound, SwapOutFailed, PaymentError, ClaimBroadcast, ClaimSaved, ClaimTicker,
       ListenerFails, ListenerEnds, MarkSwapState, RefundRecorded
  <2> QED
    BY <1>0, <1>1, <2>1, <2>2, OutSame
<1>2. CASE q = t /\ (Ignored(t) \/ SwapCreated(t))
  <2>1. UNCHANGED <<swap, chain, listener>>
    BY <1>2 DEF Ignored, SwapCreated, Received, boltzVars
  <2> QED
    BY <1>0, <2>1, OutSame
<1>3. CASE q = t /\ LockupFound(t)
  <2>1. /\ boltz[q] \notin {"none", "created"} /\ listener[q] = "on" /\ UNCHANGED chain
    BY <1>3, ReceivedIsSaid DEF LockupFound, Said
  <2>2. /\ swap'[q].state = swap[q].state /\ swap'[q].claim = swap[q].claim
        /\ listener'[q] = IF swap[q].claim THEN "on" ELSE "claiming"
    BY <1>3 DEF LockupFound, SwapRow
  <2> QED
    BY <1>0, <2>1, <2>2 DEF OutTells
<1>4. CASE q = t /\ (SwapOutFailed(t) \/ PaymentError(t))
  <2>1. listener[q] = "on" /\ UNCHANGED chain /\ ListenerFails(t)
    BY <1>4 DEF SwapOutFailed, PaymentError, Received, boltzVars
  <2>2. listener'[q] = "none" /\ swap'[q].state = "FAILED" /\ swap'[q].claim = swap[q].claim
    BY <1>4, <2>1 DEF ListenerFails, ListenerEnds, MarkSwapState, SwapRow
  <2> QED
    BY <1>0, <2>1, <2>2 DEF OutTells
<1>5. CASE q = t /\ ClaimBroadcast(t)
  <2>1. CASE ListenerFails(t) /\ UNCHANGED chain
    <3>1. listener'[q] = "none" /\ swap'[q].state = "FAILED" /\ swap'[q].claim = swap[q].claim
      BY <1>5, <2>1 DEF ListenerFails, ListenerEnds, MarkSwapState, SwapRow
    <3>2. listener[q] = "claiming"
      BY <1>5 DEF ClaimBroadcast
    <3> QED
      BY <1>0, <2>1, <3>1, <3>2 DEF OutTells
  <2>2. CASE /\ chain[t].claim = "none" /\ boltz[t] # "expired"
             /\ chain' = [chain EXCEPT ![t].claim = "mempool"]
             /\ listener' = [listener EXCEPT ![t] = "claimed"]
             /\ UNCHANGED <<swap, autoLoop>>
    <3>1. chain'[q].claim = "mempool" /\ listener'[q] = "claimed" /\ swap'[q] = swap[q] /\ boltz[q] # "expired"
      BY <1>5, <2>2 DEF OnChain
    <3>2. listener[q] = "claiming" /\ chain[q].claim = "none"
      BY <1>5, <2>2 DEF ClaimBroadcast
    <3> QED
      BY <1>0, <3>1, <3>2 DEF OutTells, Locked
  <2> QED
    BY <1>5, <2>1, <2>2 DEF ClaimBroadcast
<1>6. CASE q = t /\ ClaimSaved(t)
  <2>1. listener[q] = "claimed" /\ UNCHANGED chain
    BY <1>6 DEF ClaimSaved, boltzVars
  <2>2. listener'[q] = "on" /\ swap'[q].state = swap[q].state /\ swap'[q].claim
    BY <1>6 DEF ClaimSaved, SwapRow
  <2> QED
    BY <1>0, <2>1, <2>2 DEF OutTells
<1>7. CASE q = t /\ ClaimTicker(t)
  <2>1. listener[q] = "on" /\ chain[q].claim = "confirmed" /\ UNCHANGED chain
    BY <1>7 DEF ClaimTicker, boltzVars
  <2>2. listener'[q] = "none" /\ swap'[q].state = "SUCCESS" /\ swap'[q].claim = swap[q].claim
    BY <1>7 DEF ClaimTicker, ListenerEnds, MarkSwapState, SwapRow
  <2> QED
    BY <1>0, <2>1, <2>2 DEF OutTells
<1> QED
  BY <1>1, <1>2, <1>3, <1>4, <1>5, <1>6, <1>7 DEF ListenerStep, SwapInFailed

LEMMA OutBySwapOut ==
    ASSUME SwapsInv, NEW t \in Outs, NEW auto \in BOOLEAN, SwapOut(t, auto), NEW q \in Outs
    PROVE  OutTells(q)'
<1> USE DEF SwapsInv, Typed, RowsTyped, ServiceTyped
<1>0. OutTells(q) /\ UNCHANGED chain
  BY DEF SwapOut
<1>1. CASE q # t
  <2>1. swap'[q] = swap[q] /\ boltz'[q] = boltz[q] /\ listener'[q] = listener[q]
    BY <1>1 DEF SwapOut, ListenerStarts
  <2> QED
    BY <1>0, <2>1, OutSame
<1>2. CASE q = t
  <2>1. /\ swap[q].state = "NONE" /\ swap'[q].state = "PENDING" /\ swap'[q].claim = swap[q].claim
        /\ boltz'[q] = "created" /\ listener'[q] = "on"
    BY <1>2 DEF SwapOut, ListenerStarts, SwapRow
  <2> QED
    BY <1>0, <2>1 DEF OutTells, Locked
<1> QED
  BY <1>1, <1>2

LEMMA OutBySwapIn ==
    ASSUME SwapsInv, NEW t \in Ins, NEW marked \in BOOLEAN, SwapIn(t, marked), NEW q \in Outs
    PROVE  OutTells(q)'
<1> USE DEF SwapsInv, Typed, RowsTyped, ServiceTyped
<1>1. swap'[q] = swap[q] /\ boltz'[q] = boltz[q] /\ UNCHANGED chain
  BY DEF SwapIn
<1>2. listener'[q] = listener[q]
  BY DEF SwapIn, ListenerStarts
<1> QED
  BY <1>1, <1>2, OutSame

LEMMA OutByRestart == ASSUME SwapsInv, Restart, NEW q \in Outs PROVE OutTells(q)'
<1> USE DEF SwapsInv, Typed, RowsTyped, ServiceTyped
<1>1. /\ UNCHANGED <<swap, boltz, chain>>
      /\ listener'[q] = IF swap[q].state = "PENDING" THEN "on" ELSE "none"
  BY DEF Restart, SubscribePendingSwaps
<1> QED
  BY <1>1 DEF OutTells

LEMMA OutNext == ASSUME SwapsInv, SwapsNext, NEW q \in Outs PROVE OutTells(q)'
<1> USE DEF SwapsInv, Typed, RowsTyped, ServiceTyped
<1>1. CASE \/ PollSwap \/ ReloadStatus \/ DeactivateAutoSwap \/ TakeUpdate \/ SendUpdate \/ Reconnect
           \/ \E p \in SwapPages : OpenSwapPage(p)
           \/ \E t, a \in Amounts : SubmitAutoSwap(t, a)
           \/ \E t \in Outs : PayerStep(t)
  <2>1. UNCHANGED <<swap, boltz, chain, listener>>
    <3>1. CASE \/ PollSwap \/ ReloadStatus \/ DeactivateAutoSwap \/ TakeUpdate \/ SendUpdate \/ Reconnect
               \/ \E p \in SwapPages : OpenSwapPage(p)
               \/ \E t, a \in Amounts : SubmitAutoSwap(t, a)
      BY <3>1 DEF PollSwap, ReloadStatus, DeactivateAutoSwap, TakeUpdate, SendUpdate, Reconnect,
         OpenSwapPage, SubmitAutoSwap, onlyTab, boltzVars, service
    <3>2. CASE \E t \in Outs : PayerStep(t)
      BY <3>2 DEF boltzVars, PayerStep, LookupPayment, SendPaymentSync, PaymentReturns
    <3> QED
      BY <1>1, <3>1, <3>2
  <2> QED
    BY <2>1, OutSame
<1>2. CASE PayWithAlbyHub \/ PayQRCode
  <2>1. UNCHANGED <<swap, boltz, listener>> /\ chain'[q].claim = chain[q].claim
    BY <1>2 DEF PayWithAlbyHub, PayQRCode, service, OnChain
  <2> QED
    BY <2>1, OutSame
<1>3. CASE \E t \in Ins : AskRefund(t) \/ AskedRefundBroadcast(t) \/ AskedRefundSaved(t)
  <2>1. PICK t \in Ins : AskRefund(t) \/ AskedRefundBroadcast(t) \/ AskedRefundSaved(t)
    BY <1>3
  <2>2. UNCHANGED <<boltz, listener>>
    BY <2>1 DEF AskRefund, AskedRefundBroadcast, AskedRefundSaved, boltzVars
  <2>3. swap'[q] = swap[q] /\ chain'[q] = chain[q]
    BY <2>1 DEF AskRefund, AskedRefundBroadcast, AskedRefundSaved, RefundRecorded, boltzVars
  <2> QED
    BY <2>2, <2>3, OutSame
<1>4. CASE \/ \E t \in Ins, from \in {"internal", "external"}, a \in Amounts : SubmitSwapIn(t, from, a)
           \/ \E t \in Ins, a \in Amounts : SubmitReceiveOnchain(t, a)
  <2>1. PICK t \in Ins : SwapIn(t, TRUE) \/ SwapIn(t, FALSE)
    BY <1>4 DEF SubmitSwapIn, SubmitReceiveOnchain
  <2> QED
    BY <2>1, OutBySwapIn
<1>5. CASE \/ \E t \in Outs, a \in Amounts : SubmitSwapOut(t, a) \/ SubmitSendSwap(t, a)
           \/ \E t \in Outs : AutoSwapOut(t)
  <2>1. PICK t \in Outs : SwapOut(t, TRUE) \/ SwapOut(t, FALSE)
    BY <1>5 DEF SubmitSwapOut, SubmitSendSwap, AutoSwapOut
  <2> QED
    BY <2>1, OutBySwapOut
<1> QED
  BY <1>1, <1>2, <1>3, <1>4, <1>5, OutByBoltz, OutByListener, OutByRestart
     DEF SwapsNext, SwapScreensNext

-----------------------------------------------------------------------------
(* A swap out while nothing was lost.                                      *)

LEMMA QuietBefore == ASSUME SwapsInv, SwapsNext, Quiet' PROVE Quiet /\ ~Reconnect /\ ~Restart
<1>1. restarts \in Nat /\ reconnects \in Nat
  BY DEF SwapsInv, Typed, CountsTyped
<1>2. restarts' \in Nat /\ reconnects' \in Nat
  BY TypedNext DEF SwapsInv, Typed, CountsTyped
<1>3. restarts' = 0 /\ reconnects' = 0
  <2>1. restarts' + reconnects' = 0
    BY DEF Quiet
  <2>2. \A m, n \in Nat : m + n = 0 => m = 0 /\ n = 0
    OBVIOUS
  <2> QED
    BY <1>2, <2>1, <2>2
<1>4. ~Reconnect /\ ~Restart
  <2>1. ~Reconnect
    <3>1. Reconnect => reconnects' = reconnects + 1
      BY DEF Reconnect
    <3> QED
      BY <1>1, <1>3, <3>1
  <2>2. ~Restart
    <3>1. Restart => restarts' = restarts + 1
      BY DEF Restart
    <3> QED
      BY <1>1, <1>3, <3>1
  <2> QED
    BY <2>1, <2>2
<1>5. UNCHANGED <<restarts, reconnects>>
  <2>1. CASE SwapScreensNext
    BY <2>1 DEF SwapScreensNext, OpenSwapPage, SubmitSwapIn, SubmitReceiveOnchain, SwapIn, SubmitSwapOut,
       SubmitSendSwap, SwapOut, PollSwap, ReloadStatus, PayWithAlbyHub, PayQRCode, SubmitAutoSwap,
       DeactivateAutoSwap, AskRefund, onlyTab, counts
  <2>2. CASE \E s \in Swaps : Boltz(s)
    BY <2>2 DEF Boltz, BoltzIn, BoltzOut, ClaimConfirms, Progress, counts
  <2>3. CASE \E s \in Swaps : ListenerStep(s)
    BY <2>3 DEF ListenerStep, Ignored, LockupInMempool, InvoicePaid, RefundBroadcast, RefundSaved, SwapInFailed,
       SwapCreated, LockupFound, SwapOutFailed, PaymentError, ClaimBroadcast, ClaimSaved, ClaimTicker, Received,
       counts
  <2>4. CASE \/ \E s \in Outs : PayerStep(s) \/ AutoSwapOut(s)
             \/ \E s \in Ins : AskedRefundBroadcast(s) \/ AskedRefundSaved(s)
             \/ TakeUpdate \/ SendUpdate
    BY <2>4 DEF PayerStep, LookupPayment, SendPaymentSync, PaymentReturns, AutoSwapOut, SwapOut,
       AskedRefundBroadcast, AskedRefundSaved, TakeUpdate, SendUpdate, counts
  <2> QED
    BY <1>4, <2>1, <2>2, <2>3, <2>4 DEF SwapsNext
<1> QED
  BY <1>1, <1>3, <1>4, <1>5 DEF Quiet

LEMMA NewsAppend ==
    ASSUME NEW u \in Seq(Message), NEW m, NEW q
    PROVE  /\ m # <<q, "created">> => /\ News(q, Append(u, m)) <=> News(q, u)
                                      /\ NewsOnce(q, u) => NewsOnce(q, Append(u, m))
           /\ ~News(q, u) => NewsOnce(q, Append(u, m))
<1>1. /\ DOMAIN Append(u, m) = DOMAIN u \cup {Len(u) + 1} /\ DOMAIN u = 1..Len(u) /\ Len(u) \in Nat
      /\ \A i \in DOMAIN u : Append(u, m)[i] = u[i]
      /\ Append(u, m)[Len(u) + 1] = m
  OBVIOUS
<1>2. m # <<q, "created">> => (News(q, Append(u, m)) <=> News(q, u))
  BY <1>1 DEF News
<1>3. m # <<q, "created">> => (NewsOnce(q, u) => NewsOnce(q, Append(u, m)))
  BY <1>1 DEF NewsOnce
<1>4. ~News(q, u) => NewsOnce(q, Append(u, m))
  BY <1>1 DEF News, NewsOnce
<1> QED
  BY <1>2, <1>3, <1>4

LEMMA NewsTail ==
    ASSUME NEW u \in Seq(Message), u # <<>>, NEW q, NewsOnce(q, u)
    PROVE  /\ News(q, Tail(u)) => News(q, u)
           /\ NewsOnce(q, Tail(u))
           /\ Head(u) = <<q, "created">> => News(q, u) /\ ~News(q, Tail(u))
<1>1. /\ \A i \in DOMAIN Tail(u) : i \in Nat /\ i > 0 /\ i + 1 \in DOMAIN u /\ Tail(u)[i] = u[i + 1]
      /\ 1 \in DOMAIN u /\ Head(u) = u[1]
  OBVIOUS
<1>2. News(q, Tail(u)) => News(q, u)
  BY <1>1 DEF News
<1>3. NewsOnce(q, Tail(u))
  <2> SUFFICES ASSUME NEW i \in DOMAIN Tail(u), NEW j \in DOMAIN Tail(u),
                      Tail(u)[i] = <<q, "created">>, Tail(u)[j] = <<q, "created">>
               PROVE  i = j
    BY DEF NewsOnce
  <2>1. u[i + 1] = <<q, "created">> /\ u[j + 1] = <<q, "created">>
    BY <1>1
  <2>2. i + 1 \in DOMAIN u /\ j + 1 \in DOMAIN u
    BY <1>1
  <2>3. i + 1 = j + 1
    BY <2>1, <2>2, Zenon DEF NewsOnce
  <2>4. i \in Nat /\ j \in Nat
    BY <1>1
  <2> QED
    BY <2>3, <2>4
<1>4. Head(u) = <<q, "created">> => News(q, u)
  BY <1>1 DEF News
<1>5. ASSUME Head(u) = <<q, "created">>, News(q, Tail(u)) PROVE FALSE
  <2>1. PICK i \in DOMAIN Tail(u) : Tail(u)[i] = <<q, "created">>
    BY <1>5 DEF News
  <2>2. i + 1 = 1
    BY <1>1, <1>5, <2>1 DEF NewsOnce
  <2> QED
    BY <1>1, <2>2
<1> QED
  BY <1>2, <1>3, <1>4, <1>5

(* The news is nowhere new, the payment and the row as far as they matter. *)
LEMMA OnceSame ==
    ASSUME NEW q \in Outs, PaidForOnce(q), ServiceTyped, ServiceTyped', NewsOnce(q, updates'),
           News(q, updates') => News(q, updates), InHand(q)' => InHand(q), InChannel(q)' => InChannel(q),
           AtPayers(q)' = AtPayers(q), lightning'[q] = lightning[q] \/ (lightning[q] # "none"),
           lightning'[q] = lightning[q] \/ swap'[q].state # "NONE",
           swap'[q].state = "NONE" <=> swap[q].state = "NONE"
    PROVE  PaidForOnce(q)'
BY DEF PaidForOnce

QuietRest(s) ==
    /\ boltz[s] \in Locked => lightning[s] \in {"pending", "settled"}
    /\ payers[s].error => lightning[s] = "failed"
    /\ chain[s].claim # "none" => listener[s] = "claimed" \/ swap[s].claim
    /\ swap[s].state = "FAILED" => chain[s].claim = "none"

LEMMA OnceByMessage ==
    ASSUME SwapsInv, NEW t \in Swaps, NEW status \in Statuses \ {"created"}, Progress(t, status),
           NEW q \in Outs, PaidForOnce(q), QueuesTyped',
           lightning'[q] = lightning[q] \/ lightning[q] # "none"
    PROVE  PaidForOnce(q)'
<1> USE DEF SwapsInv, Typed
<1>1. UNCHANGED <<swap, hand, updateCh, payers>>
  BY DEF Progress, service
<1>2. NewsOnce(q, updates') /\ (News(q, updates') => News(q, updates))
  <2>1. CASE UNCHANGED updates
    BY <2>1 DEF PaidForOnce
  <2>2. CASE updates' = Append(updates, <<t, status>>)
    BY <2>2, NewsAppend DEF PaidForOnce, QueuesTyped
  <2> QED
    BY <2>1, <2>2 DEF Progress, Push
<1>3. /\ AtPayers(q)' = AtPayers(q) /\ (InHand(q)' => InHand(q)) /\ (InChannel(q)' => InChannel(q))
      /\ ServiceTyped'
  BY <1>1 DEF AtPayers, InHand, InChannel, Progress, service, ServiceTyped
<1>4. swap'[q] = swap[q] /\ (lightning'[q] = lightning[q] \/ swap[q].state # "NONE")
  BY <1>1 DEF PaidForOnce
<1> QED
  BY <1>2, <1>3, <1>4, OnceSame

LEMMA QuietParts == \A s : QuietOut(s) <=> PaidForOnce(s) /\ QuietRest(s)
BY DEF QuietOut, QuietRest

LEMMA OnceByBoltz ==
    ASSUME SwapsInv, NEW t \in Swaps, Boltz(t), Quiet, NEW q \in Outs, Typed'
    PROVE  PaidForOnce(q)'
<1> USE DEF SwapsInv, Typed
<1>0. PaidForOnce(q)
  BY DEF QuietOut
<1>1. CASE t \in Ins /\ BoltzIn(t)
  <2>1. PICK status \in Statuses \ {"created"} :
            /\ Progress(t, status)
            /\ lightning' = [lightning EXCEPT ![t] = IF status = "paid" THEN "settled" ELSE @]
    BY <1>1 DEF BoltzIn
  <2>2. lightning'[q] = lightning[q]
    BY <1>1, <2>1 DEF RowsTyped
  <2> QED
    BY <1>0, <2>1, <2>2, OnceByMessage
<1>2. CASE t \in Outs /\ BoltzOut(t)
  <2>1. PICK status \in Statuses \ {"created"} :
            /\ CASE boltz[t] = "created" -> status \in (IF lightning[t] = "pending"
                                                        THEN {"mempool", "expired"} ELSE {"expired"})
                 [] boltz[t] = "mempool" /\ chain[t].claim = "none" -> status \in {"confirmed", "expired"}
                 [] boltz[t] = "confirmed" /\ chain[t].claim = "none" -> status = "expired"
                 [] boltz[t] \in {"mempool", "confirmed"} /\ chain[t].claim # "none" ->
                        status = "settled"
                 [] OTHER -> FALSE
            /\ Progress(t, status)
            /\ lightning' = [lightning EXCEPT
                    ![t] = CASE status = "settled" -> "settled"
                             [] status = "expired" /\ @ = "pending" -> "failed"
                             [] OTHER -> @]
    BY <1>2 DEF BoltzOut
  <2>2. status = "settled" => lightning[t] # "none"
    BY <1>2, <2>1 DEF QuietOut, Locked
  <2>3. lightning'[q] = lightning[q] \/ lightning[q] # "none"
    <3>1. CASE q = t
      BY <1>2, <2>1, <2>2, <3>1 DEF RowsTyped
    <3>2. CASE q # t
      BY <2>1, <3>2 DEF RowsTyped
    <3> QED
      BY <3>1, <3>2
  <2> QED
    BY <1>0, <2>1, <2>3, OnceByMessage
<1>3. CASE t \in Outs /\ ClaimConfirms(t)
  <2>1. UNCHANGED <<swap, lightning, updates, hand, updateCh, payers>>
    BY <1>3 DEF ClaimConfirms, service
  <2> QED
    BY <1>0, <2>1 DEF PaidForOnce, InHand, InChannel, AtPayers
<1> QED
  BY <1>1, <1>2, <1>3 DEF Boltz

LEMMA OnceByListener ==
    ASSUME SwapsInv, NEW t \in Swaps, ListenerStep(t), Quiet, NEW q \in Outs, Typed'
    PROVE  PaidForOnce(q)'
<1> USE DEF SwapsInv, Typed
<1>0. PaidForOnce(q) /\ UNCHANGED <<lightning, updates, hand>>
  BY DEF QuietOut, ListenerStep, Ignored, LockupInMempool, InvoicePaid, RefundBroadcast, RefundSaved,
     SwapInFailed, SwapCreated, LockupFound, SwapOutFailed, PaymentError, ClaimBroadcast, ClaimSaved,
     ClaimTicker, Received, boltzVars
<1>1. updateCh'[q] = updateCh[q] \/ updateCh'[q] = <<>>
  BY DEF ListenerStep, Ignored, LockupInMempool, InvoicePaid, RefundBroadcast, RefundSaved, SwapInFailed,
     SwapCreated, LockupFound, SwapOutFailed, PaymentError, ClaimBroadcast, ClaimSaved, ClaimTicker,
     Received, QueuesTyped
<1>2. swap'[q].state = "NONE" <=> swap[q].state = "NONE"
  <2>1. swap[q].state # "NONE" => swap'[q].state # "NONE"
    BY OnwardByListener DEF Onward
  <2>2. ASSUME swap[q].state = "NONE" PROVE swap'[q].state = "NONE"
    <3>1. listener[q] = "none"
      BY <2>2 DEF OutTells
    <3>2. UNCHANGED swap \/ q # t
      BY <3>1 DEF ListenerStep, Ignored, LockupInMempool, InvoicePaid, RefundBroadcast, RefundSaved,
         SwapInFailed, SwapCreated, LockupFound, SwapOutFailed, PaymentError, ClaimBroadcast, ClaimSaved,
         ClaimTicker, Received
    <3>3. q # t => swap'[q] = swap[q]
      BY DEF ListenerStep, Ignored, LockupInMempool, InvoicePaid, RefundBroadcast, RefundSaved, SwapInFailed,
         SwapCreated, LockupFound, SwapOutFailed, PaymentError, ClaimBroadcast, ClaimSaved, ClaimTicker,
         ListenerFails, MarkSwapState, RefundRecorded, RowsTyped
    <3> QED
      BY <2>2, <3>2, <3>3
  <2> QED
    BY <2>1, <2>2
<1>3. CASE q = t /\ SwapCreated(t)
  <2>1. updateCh[q] = <<"created">> /\ updateCh'[q] = <<>> /\ UNCHANGED swap
    BY <1>3 DEF SwapCreated, Received, QueuesTyped
  <2>2. AtPayers(q)' = AtPayers(q) + 1
    BY <1>3 DEF SwapCreated, AtPayers, ServiceTyped, PayersOf
  <2>3. InChannel(q) /\ ~InChannel(q)'
    BY <2>1 DEF InChannel
  <2>4. InHand(q)' = InHand(q) /\ News(q, updates') = News(q, updates)
    BY <1>0 DEF InHand
  <2> QED
    BY <1>0, <2>1, <2>2, <2>3, <2>4 DEF PaidForOnce
<1>4. CASE ~(q = t /\ SwapCreated(t))
  <2>1. payers'[q].looking = payers[q].looking /\ payers'[q].sending = payers[q].sending
    BY <1>4 DEF ListenerStep, Ignored, LockupInMempool, InvoicePaid, RefundBroadcast, RefundSaved, SwapInFailed,
       SwapCreated, LockupFound, SwapOutFailed, PaymentError, ClaimBroadcast, ClaimSaved, ClaimTicker,
       ServiceTyped, PayersOf
  <2>2. AtPayers(q)' = AtPayers(q)
    BY <2>1 DEF AtPayers
  <2>3. (InHand(q)' => InHand(q)) /\ (InChannel(q)' => InChannel(q))
    BY <1>0, <1>1 DEF InHand, InChannel
  <2>4. NewsOnce(q, updates') /\ (News(q, updates') => News(q, updates))
    BY <1>0 DEF PaidForOnce
  <2> QED
    BY <1>0, <1>2, <2>2, <2>3, <2>4, OnceSame
<1> QED
  BY <1>3, <1>4

LEMMA OnceByPayer ==
    ASSUME SwapsInv, NEW t \in Outs, PayerStep(t), Quiet, NEW q \in Outs, Typed'
    PROVE  PaidForOnce(q)'
<1> USE DEF SwapsInv, Typed
<1>0. /\ PaidForOnce(q) /\ UNCHANGED <<swap, updates, hand, updateCh>>
      /\ payers[q].looking \in Nat /\ payers[q].sending \in Nat
      /\ payers'[q].looking \in Nat /\ payers'[q].sending \in Nat
  <2>1. PaidForOnce(q)
    BY DEF QuietOut
  <2>2. UNCHANGED <<swap, updates, hand, updateCh>>
    BY DEF PayerStep, LookupPayment, SendPaymentSync, PaymentReturns, boltzVars
  <2>3. payers[q] \in PayersOf /\ payers'[q] \in PayersOf
    BY DEF ServiceTyped
  <2> QED
    BY <2>1, <2>2, <2>3 DEF PayersOf
<1>1. (InHand(q)' <=> InHand(q)) /\ (InChannel(q)' <=> InChannel(q))
  BY <1>0 DEF InHand, InChannel
<1>2. CASE q # t
  <2>a. payers \in [Outs -> PayersOf] /\ lightning \in [Swaps -> Payment] /\ q \in Swaps /\ t \in Swaps
    BY DEF ServiceTyped, RowsTyped
  <2>1. payers'[q] = payers[q] /\ lightning'[q] = lightning[q]
    <3>1. CASE LookupPayment(t) \/ PaymentReturns(t)
      BY <1>2, <2>a, <3>1 DEF LookupPayment, PaymentReturns, boltzVars
    <3>2. CASE SendPaymentSync(t)
      BY <1>2, <2>a, <3>2 DEF SendPaymentSync
    <3> QED
      BY <3>1, <3>2 DEF PayerStep
  <2> QED
    BY <1>0, <1>1, <2>1 DEF PaidForOnce, AtPayers
<1>3. CASE q = t /\ LookupPayment(t)
  <2>1. /\ lightning'[q] = lightning[q] /\ payers[q].looking > 0
        /\ payers'[q].looking = payers[q].looking - 1
        /\ payers'[q].sending = IF lightning[q] = "none" THEN payers[q].sending + 1 ELSE payers[q].sending
    BY <1>3 DEF LookupPayment, boltzVars, ServiceTyped, PayersOf
  <2>2. AtPayers(q) > 0 /\ AtPayers(q)' = AtPayers(q)
    BY <1>0, <2>1 DEF AtPayers, PaidForOnce
  <2> QED
    BY <1>0, <1>1, <2>1, <2>2 DEF PaidForOnce
<1>4. CASE q = t /\ SendPaymentSync(t)
  <2>1. /\ payers[q].sending > 0 /\ payers'[q].looking = payers[q].looking
        /\ payers'[q].sending = payers[q].sending - 1
    BY <1>4 DEF SendPaymentSync, ServiceTyped, PayersOf
  <2>2. AtPayers(q) = 1 /\ AtPayers(q)' = 0
    BY <1>0, <2>1 DEF AtPayers, PaidForOnce
  <2> QED
    BY <1>0, <1>1, <2>2 DEF PaidForOnce
<1>5. CASE q = t /\ PaymentReturns(t)
  <2>1. /\ lightning'[q] = lightning[q] /\ payers'[q].looking = payers[q].looking
        /\ payers'[q].sending = payers[q].sending
    BY <1>5 DEF PaymentReturns, boltzVars, ServiceTyped, PayersOf
  <2> QED
    BY <1>0, <1>1, <2>1 DEF PaidForOnce, AtPayers
<1> QED
  BY <1>2, <1>3, <1>4, <1>5 DEF PayerStep

LEMMA OnceByDispatch ==
    ASSUME SwapsInv, TakeUpdate \/ SendUpdate, Quiet, NEW q \in Outs, Typed'
    PROVE  PaidForOnce(q)'
<1> USE DEF SwapsInv, Typed
<1>0. PaidForOnce(q) /\ UNCHANGED <<swap, lightning, payers>> /\ AtPayers(q)' = AtPayers(q)
  BY DEF QuietOut, TakeUpdate, SendUpdate, boltzVars, AtPayers
<1>1. CASE TakeUpdate
  <2>1. /\ updates \in Seq(Message) /\ updates # <<>> /\ updates' = Tail(updates)
        /\ hand = <<>> /\ (hand' = <<Head(updates)>> \/ hand' = <<>>) /\ UNCHANGED updateCh
    BY <1>1 DEF TakeUpdate, QueuesTyped
  <2>2. /\ NewsOnce(q, updates') /\ (News(q, updates') => News(q, updates))
        /\ Head(updates) = <<q, "created">> => News(q, updates) /\ ~News(q, updates')
    BY <1>0, <2>1, NewsTail DEF PaidForOnce
  <2>3. ~InHand(q) /\ (InHand(q)' => Head(updates) = <<q, "created">>) /\ (InChannel(q)' <=> InChannel(q))
    <3>1. ~InHand(q) /\ (InChannel(q)' <=> InChannel(q))
      BY <2>1 DEF InHand, InChannel
    <3>2. ASSUME InHand(q)' PROVE Head(updates) = <<q, "created">>
      <4>1. hand' = <<<<q, "created">>>>
        BY <3>2 DEF InHand
      <4>2. hand'[1] = <<q, "created">> /\ hand' # <<>>
        BY <4>1
      <4> QED
        BY <2>1, <4>2
    <3> QED
      BY <3>1, <3>2
  <2> QED
    BY <1>0, <2>2, <2>3 DEF PaidForOnce
<1>2. CASE SendUpdate
  <2>1. /\ hand # <<>> /\ hand[1][1] \in Swaps /\ hand = <<<<hand[1][1], hand[1][2]>>>>
        /\ updateCh' = [updateCh EXCEPT ![hand[1][1]] = <<hand[1][2]>>] /\ updateCh[hand[1][1]] = <<>>
        /\ hand' = <<>> /\ UNCHANGED updates
    BY <1>2, HandOrChannel DEF SendUpdate, boltzVars
  <2>2. ~InHand(q)' /\ (InChannel(q)' => InChannel(q) \/ InHand(q)) /\ (InHand(q) => ~InChannel(q))
    <3>1. CASE hand[1][1] = q
      BY <2>1, <3>1 DEF InHand, InChannel, QueuesTyped
    <3>2. CASE hand[1][1] # q
      BY <2>1, <3>2 DEF InHand, InChannel, QueuesTyped
    <3> QED
      BY <3>1, <3>2
  <2> QED
    BY <1>0, <2>1, <2>2 DEF PaidForOnce
<1> QED
  BY <1>1, <1>2

LEMMA OnceByStart ==
    ASSUME SwapsInv, NEW t \in Swaps, NEW b,
           (t \in Ins /\ SwapIn(t, b)) \/ (t \in Outs /\ SwapOut(t, b)), Quiet, NEW q \in Outs, Typed'
    PROVE  PaidForOnce(q)'
<1> USE DEF SwapsInv, Typed
<1>0. /\ PaidForOnce(q) /\ UNCHANGED <<hand, payers>> /\ AtPayers(q)' = AtPayers(q) /\ (InHand(q)' <=> InHand(q))
      /\ \/ ListenerStarts(t, "created")
         \/ q # t /\ UNCHANGED <<updates, updateCh>>
  BY DEF QuietOut, SwapIn, SwapOut, AtPayers, InHand
<1>1. updates \in Seq(Message)
  BY DEF QueuesTyped
<1>2. CASE q # t
  <2>1. swap'[q] = swap[q] /\ lightning'[q] = lightning[q]
    BY <1>2 DEF SwapIn, SwapOut, RowsTyped
  <2>2. NewsOnce(q, updates') /\ (News(q, updates') => News(q, updates))
    <3>1. CASE UNCHANGED updates
      BY <1>0, <3>1 DEF PaidForOnce
    <3>2. CASE updates' = Append(updates, <<t, "created">>)
      BY <1>0, <1>1, <1>2, <3>2, NewsAppend DEF PaidForOnce
    <3> QED
      BY <1>0, <3>1, <3>2 DEF ListenerStarts
  <2>3. InChannel(q)' => InChannel(q)
    BY <1>0, <1>2 DEF InChannel, ListenerStarts, QueuesTyped
  <2> QED
    BY <1>0, <2>1, <2>2, <2>3, OnceSame
<1>3. CASE q = t
  <2>1. /\ swap[q].state = "NONE" /\ swap'[q].state = "PENDING" /\ UNCHANGED lightning
        /\ updates' = Append(updates, <<q, "created">>) /\ updateCh'[q] = <<>>
    BY <1>3 DEF SwapOut, ListenerStarts, RowsTyped, QueuesTyped, SwapRow
  <2>2. /\ ~News(q, updates) /\ ~InHand(q) /\ ~InChannel(q) /\ ~(AtPayers(q) > 0) /\ lightning[q] = "none"
    BY <1>0, <2>1 DEF PaidForOnce
  <2>3. NewsOnce(q, updates')
    BY <1>1, <2>1, <2>2, NewsAppend
  <2>4. AtPayers(q) = 0
    BY <2>2 DEF AtPayers, ServiceTyped, PayersOf
  <2>5. ~InChannel(q)'
    BY <2>1 DEF InChannel
  <2> QED
    BY <1>0, <2>1, <2>2, <2>3, <2>4, <2>5 DEF PaidForOnce
<1> QED
  BY <1>2, <1>3

LEMMA OnceNext ==
    ASSUME SwapsInv, SwapsNext, Quiet', NEW q \in Outs
    PROVE  PaidForOnce(q)'
<1>0. Quiet /\ ~Reconnect /\ ~Restart /\ Typed'
  BY QuietBefore, TypedNext DEF SwapsInv
<1>1. CASE \/ PollSwap \/ ReloadStatus \/ DeactivateAutoSwap \/ PayWithAlbyHub \/ PayQRCode
           \/ \E p \in SwapPages : OpenSwapPage(p)
           \/ \E t, a \in Amounts : SubmitAutoSwap(t, a)
  <2>1. UNCHANGED <<swap, lightning, updates, hand, updateCh, payers>>
    BY <1>1 DEF PollSwap, ReloadStatus, DeactivateAutoSwap, OpenSwapPage, SubmitAutoSwap, onlyTab,
       PayWithAlbyHub, PayQRCode, boltzVars, service
  <2> QED
    BY <1>0, <2>1 DEF SwapsInv, QuietOut, PaidForOnce, InHand, InChannel, AtPayers
<1>2. CASE \E t \in Ins : AskRefund(t) \/ AskedRefundBroadcast(t) \/ AskedRefundSaved(t)
  <2>1. PICK t \in Ins : AskRefund(t) \/ AskedRefundBroadcast(t) \/ AskedRefundSaved(t)
    BY <1>2
  <2>2. UNCHANGED <<lightning, updates, hand, updateCh, payers>>
    BY <2>1 DEF AskRefund, AskedRefundBroadcast, AskedRefundSaved, boltzVars
  <2>3. swap'[q] = swap[q]
    BY <2>1 DEF AskRefund, AskedRefundBroadcast, AskedRefundSaved, RefundRecorded, SwapsInv, Typed, RowsTyped
  <2> QED
    BY <1>0, <2>2, <2>3 DEF SwapsInv, QuietOut, PaidForOnce, InHand, InChannel, AtPayers
<1>3. CASE \/ \E t \in Ins, from \in {"internal", "external"}, a \in Amounts : SubmitSwapIn(t, from, a)
           \/ \E t \in Ins, a \in Amounts : SubmitReceiveOnchain(t, a)
  <2>1. PICK t \in Ins : SwapIn(t, TRUE) \/ SwapIn(t, FALSE)
    BY <1>3 DEF SubmitSwapIn, SubmitReceiveOnchain
  <2> QED
    BY <1>0, <2>1, OnceByStart
<1>4. CASE \/ \E t \in Outs, a \in Amounts : SubmitSwapOut(t, a) \/ SubmitSendSwap(t, a)
           \/ \E t \in Outs : AutoSwapOut(t)
  <2>1. PICK t \in Outs : SwapOut(t, TRUE) \/ SwapOut(t, FALSE)
    BY <1>4 DEF SubmitSwapOut, SubmitSendSwap, AutoSwapOut
  <2> QED
    BY <1>0, <2>1, OnceByStart
<1> QED
  BY <1>0, <1>1, <1>2, <1>3, <1>4, OnceByBoltz, OnceByListener, OnceByPayer, OnceByDispatch
     DEF SwapsNext, SwapScreensNext

LEMMA RestSame ==
    ASSUME NEW q \in Outs, QuietRest(q), boltz'[q] = boltz[q], lightning'[q] = lightning[q],
           payers'[q].error => payers[q].error, chain'[q].claim = chain[q].claim, listener'[q] = listener[q],
           swap'[q].state = swap[q].state, swap'[q].claim = swap[q].claim
    PROVE  QuietRest(q)'
BY DEF QuietRest

LEMMA RestByBoltz ==
    ASSUME SwapsInv, NEW t \in Swaps, Boltz(t), Quiet, NEW q \in Outs
    PROVE  QuietRest(q)'
<1> USE DEF SwapsInv, Typed, RowsTyped
<1>0. QuietRest(q) /\ OutTells(q) /\ UNCHANGED <<swap, listener, payers>>
  BY DEF QuietOut, QuietRest, Boltz, BoltzIn, BoltzOut, ClaimConfirms, Progress, service
<1>1. CASE t \in Ins /\ BoltzIn(t)
  <2>1. UNCHANGED chain /\ boltz'[q] = boltz[q] /\ lightning'[q] = lightning[q]
    BY <1>1 DEF BoltzIn, Progress
  <2> QED
    BY <1>0, <2>1, RestSame
<1>2. CASE t \in Outs /\ BoltzOut(t)
  <2>1. PICK status \in Statuses :
            /\ CASE boltz[t] = "created" -> status \in (IF lightning[t] = "pending"
                                                        THEN {"mempool", "expired"} ELSE {"expired"})
                 [] boltz[t] = "mempool" /\ chain[t].claim = "none" -> status \in {"confirmed", "expired"}
                 [] boltz[t] = "confirmed" /\ chain[t].claim = "none" -> status = "expired"
                 [] boltz[t] \in {"mempool", "confirmed"} /\ chain[t].claim # "none" ->
                        status = "settled"
                 [] OTHER -> FALSE
            /\ Progress(t, status)
            /\ lightning' = [lightning EXCEPT
                    ![t] = CASE status = "settled" -> "settled"
                             [] status = "expired" /\ @ = "pending" -> "failed"
                             [] OTHER -> @]
    BY <1>2 DEF BoltzOut
  <2>2. UNCHANGED chain /\ boltz' = [boltz EXCEPT ![t] = status]
    BY <1>2, <2>1 DEF BoltzOut, Progress
  <2>3. CASE q = t
    <3>1. /\ boltz'[q] = status
          /\ lightning'[q] = CASE status = "settled" -> "settled"
                               [] status = "expired" /\ lightning[q] = "pending" -> "failed"
                               [] OTHER -> lightning[q]
      BY <2>1, <2>2, <2>3
    <3>2. /\ status \in {"mempool", "confirmed", "expired", "settled"}
          /\ status = "mempool" => lightning[q] = "pending"
          /\ status = "confirmed" => boltz[q] = "mempool"
          /\ status = "settled" => boltz[q] \in Locked
      BY <2>1, <2>3 DEF Locked
    <3>3. boltz'[q] \in Locked => lightning'[q] \in {"pending", "settled"}
      BY <1>0, <3>1, <3>2 DEF QuietRest, Locked
    <3>4. payers'[q].error => lightning'[q] = "failed"
      BY <1>0, <3>1, <3>2 DEF QuietRest, Locked
    <3> QED
      BY <1>0, <2>2, <3>3, <3>4 DEF QuietRest
  <2>4. CASE q # t
    <3>1. boltz'[q] = boltz[q] /\ lightning'[q] = lightning[q]
      BY <2>1, <2>2, <2>4
    <3> QED
      BY <1>0, <2>2, <3>1, RestSame
  <2> QED
    BY <2>3, <2>4
<1>3. CASE t \in Outs /\ ClaimConfirms(t)
  <2>1. UNCHANGED <<boltz, lightning>> /\ chain[t].claim = "mempool"
        /\ chain' = [chain EXCEPT ![t].claim = "confirmed"]
    BY <1>3 DEF ClaimConfirms
  <2>2. chain'[q].claim = "none" <=> chain[q].claim = "none"
    BY <2>1 DEF OnChain
  <2> QED
    BY <1>0, <2>1, <2>2 DEF QuietRest
<1> QED
  BY <1>1, <1>2, <1>3 DEF Boltz

LEMMA RestByListener ==
    ASSUME SwapsInv, NEW t \in Swaps, ListenerStep(t), Quiet, NEW q \in Outs
    PROVE  QuietRest(q)'
<1> USE DEF SwapsInv, Typed, RowsTyped, ServiceTyped
<1>0. QuietRest(q) /\ OutTells(q) /\ UNCHANGED <<boltz, lightning>>
  BY DEF QuietOut, QuietRest, ListenerStep, Ignored, LockupInMempool, InvoicePaid, RefundBroadcast, RefundSaved,
     SwapInFailed, SwapCreated, LockupFound, SwapOutFailed, PaymentError, ClaimBroadcast, ClaimSaved,
     ClaimTicker, Received, boltzVars
<1>a. payers'[q].error => payers[q].error
  BY DEF ListenerStep, Ignored, LockupInMempool, InvoicePaid, RefundBroadcast, RefundSaved, SwapInFailed,
     SwapCreated, LockupFound, SwapOutFailed, PaymentError, ClaimBroadcast, ClaimSaved, ClaimTicker, PayersOf
<1>1. CASE q # t
  <2>1. \A s \in Outs : s # t => chain'[s].claim = chain[s].claim
    BY DEF ListenerStep, Ignored, LockupInMempool, InvoicePaid, RefundBroadcast, RefundSaved, SwapInFailed,
       SwapCreated, LockupFound, SwapOutFailed, PaymentError, ClaimBroadcast, ClaimSaved, ClaimTicker,
       Received, boltzVars, counts
  <2>2. \A s \in Outs : s # t => swap'[s] = swap[s] /\ listener'[s] = listener[s]
    BY DEF ListenerStep, Ignored, LockupInMempool, InvoicePaid, RefundBroadcast, RefundSaved, SwapInFailed,
       SwapCreated, LockupFound, SwapOutFailed, PaymentError, ClaimBroadcast, ClaimSaved, ClaimTicker,
       ListenerFails, ListenerEnds, MarkSwapState, RefundRecorded
  <2> QED
    BY <1>0, <1>a, <1>1, <2>1, <2>2, RestSame
<1>2. CASE q = t /\ (Ignored(t) \/ SwapCreated(t))
  <2>1. UNCHANGED <<swap, chain, listener>>
    BY <1>2 DEF Ignored, SwapCreated, Received, boltzVars
  <2> QED
    BY <1>0, <1>a, <2>1, RestSame
<1>3. CASE q = t /\ LockupFound(t)
  <2>1. listener[q] = "on" /\ UNCHANGED chain
    BY <1>3 DEF LockupFound, Received, boltzVars
  <2>2. swap'[q].state = swap[q].state /\ swap'[q].claim = swap[q].claim
    BY <1>3 DEF LockupFound, SwapRow
  <2> QED
    BY <1>0, <1>a, <2>1, <2>2 DEF QuietRest
<1>4. CASE q = t /\ (SwapOutFailed(t) \/ PaymentError(t))
  <2>1. listener[q] = "on" /\ UNCHANGED chain /\ ListenerFails(t)
    BY <1>4 DEF SwapOutFailed, PaymentError, Received, boltzVars
  <2>2. listener'[q] = "none" /\ swap'[q].state = "FAILED" /\ swap'[q].claim = swap[q].claim
    BY <1>4, <2>1 DEF ListenerFails, ListenerEnds, MarkSwapState, SwapRow
  <2>3. boltz[q] \notin Locked
    <3>1. CASE SwapOutFailed(t)
      BY <1>4, <3>1, ReceivedIsSaid DEF SwapOutFailed, Said, Gone, Locked
    <3>2. CASE PaymentError(t)
      BY <1>0, <1>4, <3>2 DEF PaymentError, QuietRest
    <3> QED
      BY <1>4, <3>1, <3>2
  <2>4. chain[q].claim = "none"
    BY <1>0, <2>3 DEF OutTells
  <2> QED
    BY <1>0, <1>a, <2>1, <2>2, <2>4 DEF QuietRest
<1>5. CASE q = t /\ ClaimBroadcast(t)
  <2>0. listener[q] = "claiming" /\ chain[q].claim = "none"
    BY <1>0, <1>5 DEF ClaimBroadcast, OutTells, QuietRest
  <2>1. CASE ListenerFails(t) /\ UNCHANGED chain
    <3>1. listener'[q] = "none" /\ swap'[q].state = "FAILED" /\ swap'[q].claim = swap[q].claim
      BY <1>5, <2>1 DEF ListenerFails, ListenerEnds, MarkSwapState, SwapRow
    <3> QED
      BY <1>0, <1>a, <2>0, <2>1, <3>1 DEF QuietRest
  <2>2. CASE /\ chain[t].claim = "none" /\ boltz[t] # "expired"
             /\ chain' = [chain EXCEPT ![t].claim = "mempool"]
             /\ listener' = [listener EXCEPT ![t] = "claimed"]
             /\ UNCHANGED <<swap, autoLoop>>
    <3>1. listener'[q] = "claimed" /\ swap'[q] = swap[q] /\ swap[q].state = "PENDING"
      BY <1>0, <1>5, <2>0, <2>2 DEF OutTells
    <3> QED
      BY <1>0, <1>a, <3>1 DEF QuietRest
  <2> QED
    BY <1>5, <2>1, <2>2 DEF ClaimBroadcast
<1>6. CASE q = t /\ ClaimSaved(t)
  <2>1. listener[q] = "claimed" /\ UNCHANGED chain
    BY <1>6 DEF ClaimSaved, boltzVars
  <2>2. listener'[q] = "on" /\ swap'[q].state = swap[q].state /\ swap'[q].claim
    BY <1>6 DEF ClaimSaved, SwapRow
  <2> QED
    BY <1>0, <1>a, <2>1, <2>2 DEF QuietRest
<1>7. CASE q = t /\ ClaimTicker(t)
  <2>1. swap[q].claim /\ UNCHANGED chain
    BY <1>7 DEF ClaimTicker, boltzVars
  <2>2. listener'[q] = "none" /\ swap'[q].state = "SUCCESS" /\ swap'[q].claim = swap[q].claim
    BY <1>7 DEF ClaimTicker, ListenerEnds, MarkSwapState, SwapRow
  <2> QED
    BY <1>0, <1>a, <2>1, <2>2 DEF QuietRest
<1> QED
  BY <1>1, <1>2, <1>3, <1>4, <1>5, <1>6, <1>7 DEF ListenerStep, SwapInFailed

LEMMA RestByPayer ==
    ASSUME SwapsInv, NEW t \in Outs, PayerStep(t), Quiet, NEW q \in Outs
    PROVE  QuietRest(q)'
<1> USE DEF SwapsInv, Typed, RowsTyped, ServiceTyped
<1>0. /\ QuietRest(q) /\ PaidForOnce(q) /\ UNCHANGED <<swap, boltz, chain, listener>>
      /\ payers[q] \in PayersOf /\ payers[q].looking \in Nat /\ payers[q].sending \in Nat
  <2>0. QuietOut(q)
    OBVIOUS
  <2>1. QuietRest(q) /\ PaidForOnce(q)
    BY <2>0 DEF QuietOut, QuietRest
  <2>2. UNCHANGED <<swap, boltz, chain, listener>>
    BY DEF PayerStep, LookupPayment, SendPaymentSync, PaymentReturns, boltzVars
  <2>3. payers[q] \in PayersOf
    OBVIOUS
  <2> QED
    BY <2>1, <2>2, <2>3 DEF PayersOf
<1>1. CASE q # t \/ LookupPayment(t)
  <2>1. payers'[q].error = payers[q].error /\ lightning'[q] = lightning[q]
    <3>1. CASE q # t
      BY <3>1 DEF PayerStep, LookupPayment, SendPaymentSync, PaymentReturns, boltzVars
    <3>2. CASE LookupPayment(t)
      BY <3>2 DEF LookupPayment, boltzVars, PayersOf
    <3> QED
      BY <1>1, <3>1, <3>2
  <2> QED
    BY <1>0, <2>1, RestSame
<1>2. CASE q = t /\ SendPaymentSync(t)
  <2>1. payers[q].sending > 0
    BY <1>2 DEF SendPaymentSync
  <2>2. lightning[q] = "none"
    <3>1. AtPayers(q) > 0
      BY <1>0, <2>1 DEF AtPayers
    <3> QED
      BY <1>0, <3>1 DEF PaidForOnce
  <2>3. boltz[q] \notin Locked /\ ~payers[q].error
    BY <1>0, <2>2 DEF QuietRest
  <2>4. \/ lightning'[q] = "pending" /\ payers'[q].error = payers[q].error
        \/ lightning'[q] = "failed"
    BY <1>2, <2>2 DEF SendPaymentSync, PayersOf
  <2> QED
    BY <1>0, <2>3, <2>4 DEF QuietRest
<1>3. CASE q = t /\ PaymentReturns(t)
  <2>1. /\ lightning'[q] = lightning[q]
        /\ payers'[q].error => lightning[q] = "failed" \/ payers[q].error
    BY <1>3 DEF PaymentReturns, boltzVars, PayersOf
  <2> QED
    BY <1>0, <2>1 DEF QuietRest
<1> QED
  BY <1>1, <1>2, <1>3 DEF PayerStep

LEMMA RestByStart ==
    ASSUME SwapsInv, NEW t \in Swaps, NEW b,
           (t \in Ins /\ SwapIn(t, b)) \/ (t \in Outs /\ SwapOut(t, b)), Quiet, NEW q \in Outs
    PROVE  QuietRest(q)'
<1> USE DEF SwapsInv, Typed, RowsTyped, ServiceTyped
<1>0. QuietRest(q) /\ OutTells(q) /\ UNCHANGED <<chain, payers>>
  BY DEF QuietOut, QuietRest, SwapIn, SwapOut
<1>1. CASE q # t
  <2>1. swap'[q] = swap[q] /\ boltz'[q] = boltz[q] /\ lightning'[q] = lightning[q]
    BY <1>1 DEF SwapIn, SwapOut
  <2>2. listener'[q] = listener[q]
    BY <1>1 DEF SwapIn, SwapOut, ListenerStarts
  <2> QED
    BY <1>0, <2>1, <2>2, RestSame
<1>2. CASE q = t
  <2>1. /\ swap[q].state = "NONE" /\ swap'[q].state = "PENDING" /\ UNCHANGED lightning
        /\ boltz'[q] = "created" /\ swap'[q].claim = swap[q].claim
    BY <1>2 DEF SwapOut, SwapRow
  <2>2. chain[q].claim = "none"
    BY <1>0, <2>1 DEF OutTells, Locked
  <2> QED
    BY <1>0, <2>1, <2>2 DEF QuietRest, Locked
<1> QED
  BY <1>1, <1>2

LEMMA RestNext ==
    ASSUME SwapsInv, SwapsNext, Quiet', NEW q \in Outs
    PROVE  QuietRest(q)'
<1> USE DEF SwapsInv, Typed, RowsTyped
<1>0. Quiet /\ ~Reconnect /\ ~Restart /\ QuietRest(q)
  BY QuietBefore, QuietParts
<1>1. CASE \/ PollSwap \/ ReloadStatus \/ DeactivateAutoSwap \/ TakeUpdate \/ SendUpdate
           \/ \E p \in SwapPages : OpenSwapPage(p)
           \/ \E t, a \in Amounts : SubmitAutoSwap(t, a)
  <2>1. UNCHANGED <<swap, boltz, lightning, chain, listener, payers>>
    BY <1>1 DEF PollSwap, ReloadStatus, DeactivateAutoSwap, OpenSwapPage, SubmitAutoSwap, onlyTab,
       TakeUpdate, SendUpdate, boltzVars, service
  <2> QED
    BY <1>0, <2>1, RestSame
<1>2. CASE PayWithAlbyHub \/ PayQRCode
  <2>1. UNCHANGED <<swap, boltz, lightning, listener, payers>> /\ chain'[q].claim = chain[q].claim
    BY <1>2 DEF PayWithAlbyHub, PayQRCode, service, OnChain
  <2> QED
    BY <1>0, <2>1, RestSame
<1>3. CASE \E t \in Ins : AskRefund(t) \/ AskedRefundBroadcast(t) \/ AskedRefundSaved(t)
  <2>1. PICK t \in Ins : AskRefund(t) \/ AskedRefundBroadcast(t) \/ AskedRefundSaved(t)
    BY <1>3
  <2>2. UNCHANGED <<boltz, lightning, listener, payers>>
    BY <2>1 DEF AskRefund, AskedRefundBroadcast, AskedRefundSaved, boltzVars
  <2>3. swap'[q] = swap[q] /\ chain'[q] = chain[q]
    BY <2>1 DEF AskRefund, AskedRefundBroadcast, AskedRefundSaved, RefundRecorded, boltzVars
  <2> QED
    BY <1>0, <2>2, <2>3, RestSame
<1>4. CASE \/ \E t \in Ins, from \in {"internal", "external"}, a \in Amounts : SubmitSwapIn(t, from, a)
           \/ \E t \in Ins, a \in Amounts : SubmitReceiveOnchain(t, a)
  <2>1. PICK t \in Ins : SwapIn(t, TRUE) \/ SwapIn(t, FALSE)
    BY <1>4 DEF SubmitSwapIn, SubmitReceiveOnchain
  <2> QED
    BY <1>0, <2>1, RestByStart
<1>5. CASE \/ \E t \in Outs, a \in Amounts : SubmitSwapOut(t, a) \/ SubmitSendSwap(t, a)
           \/ \E t \in Outs : AutoSwapOut(t)
  <2>1. PICK t \in Outs : SwapOut(t, TRUE) \/ SwapOut(t, FALSE)
    BY <1>5 DEF SubmitSwapOut, SubmitSendSwap, AutoSwapOut
  <2> QED
    BY <1>0, <2>1, RestByStart
<1> QED
  BY <1>0, <1>1, <1>2, <1>3, <1>4, <1>5, RestByBoltz, RestByListener, RestByPayer
     DEF SwapsNext, SwapScreensNext

-----------------------------------------------------------------------------
(* The status page.                                                        *)

LEMMA TabSame ==
    ASSUME SwapsInv, \A s \in Swaps : Onward(s), UNCHANGED swapTab
    PROVE  TabTells'
<1>1. swapTab.of \in {Nothing} \cup Swaps
  BY DEF SwapsInv, Typed, SwapTab
<1>2. CASE swapTab.of = Nothing
  BY <1>2 DEF SwapsInv, TabTells
<1>3. CASE swapTab.of \in Swaps
  <2>1. Onward(swapTab.of) /\ TabTells
    BY <1>3 DEF SwapsInv
  <2> QED
    BY <1>3, <2>1 DEF TabTells, Onward
<1> QED
  BY <1>1, <1>2, <1>3

LEMMA TabOpens ==
    ASSUME NEW s \in Swaps, NEW internal, StatusPage(s, internal), swap'[s].state # "NONE"
    PROVE  TabTells'
BY DEF StatusPage, TabTells, Unseen

LEMMA TabNext == ASSUME SwapsInv, SwapsNext PROVE TabTells'
<1>0. /\ TabTells /\ swapTab \in SwapTab /\ \A s \in Swaps : Onward(s)
      /\ swapTab.of \in {Nothing} \cup Swaps
  BY OnwardNext DEF SwapsInv, Typed, SwapTab
<1>1. ASSUME NEW p \in SwapPages, OpenSwapPage(p) PROVE TabTells'
  BY <1>1 DEF OpenSwapPage, TabTells, Unseen
<1>2. CASE \/ \E t \in Ins, from \in {"internal", "external"}, a \in Amounts : SubmitSwapIn(t, from, a)
           \/ \E t \in Ins, a \in Amounts : SubmitReceiveOnchain(t, a)
  <2>1. PICK t \in Ins : \/ \E internal \in BOOLEAN : SwapIn(t, TRUE) /\ StatusPage(t, internal)
                         \/ UNCHANGED swapTab
    BY <1>2 DEF SubmitSwapIn, SubmitReceiveOnchain
  <2>2. ASSUME NEW internal \in BOOLEAN, SwapIn(t, TRUE), StatusPage(t, internal) PROVE TabTells'
    <3>1. swap'[t].state # "NONE"
      BY <2>2 DEF SwapIn, SwapsInv, Typed, RowsTyped, SwapRow
    <3> QED
      BY <2>2, <3>1, TabOpens
  <2> QED
    BY <1>0, <2>1, <2>2, TabSame
<1>3. CASE \E t \in Outs, a \in Amounts : SubmitSwapOut(t, a) \/ SubmitSendSwap(t, a)
  <2>1. PICK t \in Outs : SwapOut(t, FALSE) /\ StatusPage(t, FALSE)
    BY <1>3 DEF SubmitSwapOut, SubmitSendSwap
  <2>2. swap'[t].state # "NONE"
    BY <2>1 DEF SwapOut, SwapsInv, Typed, RowsTyped, SwapRow
  <2> QED
    BY <2>1, <2>2, TabOpens
<1>4. CASE PollSwap
  <2> DEFINE s == swapTab.of
             row == swap[s]
             seen == [state |-> row.state, lockup |-> row.lockup, claim |-> row.claim]
  <2>1. /\ s \in Swaps /\ swapTab' = [swapTab EXCEPT !.seen = seen]
        /\ UNCHANGED <<swap, boltz, chain, lightning>> /\ row.state # "NONE"
    BY <1>0, <1>4 DEF PollSwap, onlyTab, boltzVars, TabTells
  <2>2. /\ swapTab'.page = swapTab.page /\ swapTab'.of = s /\ swapTab'.seen = seen
    BY <1>0, <2>1 DEF SwapTab
  <2>3. /\ swapTab.page = "in" => s \in Ins
        /\ swapTab.page = "out" => s \in Outs
    BY <1>0 DEF TabTells
  <2>4. s \in Ins => /\ row.state = "SUCCESS" => lightning[s] = "settled"
                     /\ row.state = "REFUNDED" => chain[s].refund
    BY DEF SwapsInv, InTells
  <2>5. s \in Outs => /\ row.state # "REFUNDED"
                      /\ row.state = "SUCCESS" => chain[s].claim = "confirmed"
                      /\ row.claim => chain[s].claim # "none"
    BY DEF SwapsInv, OutTells
  <2>6. seen.state = row.state /\ seen.claim = row.claim
    OBVIOUS
  <2> HIDE DEF seen, row, s
  <2>7. swap'[swapTab'.of].state # "NONE"
    BY <2>1, <2>2 DEF row
  <2> QED
    BY <2>1, <2>2, <2>3, <2>4, <2>5, <2>6, <2>7 DEF TabTells
<1>5. CASE ReloadStatus
  <2>1. /\ swapTab.of \in Swaps /\ StatusPage(swapTab.of, swapTab.internal)
        /\ swap'[swapTab.of].state # "NONE"
    BY <1>0, <1>5 DEF ReloadStatus, onlyTab, TabTells
  <2> QED
    BY <2>1, TabOpens
<1>6. CASE PayWithAlbyHub
  <2>1. /\ swapTab'.page = swapTab.page /\ swapTab'.of = swapTab.of /\ swapTab'.seen = swapTab.seen
    BY <1>0, <1>6 DEF PayWithAlbyHub, SwapTab
  <2>2. swapTab.of \in Swaps
    BY <1>0, <1>6 DEF PayWithAlbyHub, TabTells
  <2>3. Onward(swapTab.of)
    BY <1>0, <2>2
  <2> QED
    BY <1>0, <2>1, <2>2, <2>3 DEF TabTells, Onward
<1>7. CASE \/ PayQRCode \/ DeactivateAutoSwap \/ TakeUpdate \/ SendUpdate \/ Reconnect \/ Restart
           \/ \E t, a \in Amounts : SubmitAutoSwap(t, a)
           \/ \E s \in Ins : AskRefund(s) \/ AskedRefundBroadcast(s) \/ AskedRefundSaved(s)
           \/ \E s \in Outs : PayerStep(s) \/ AutoSwapOut(s)
           \/ \E s \in Swaps : Boltz(s)
  <2>1. UNCHANGED swapTab
    <3>1. CASE \/ PayQRCode \/ DeactivateAutoSwap \/ TakeUpdate \/ SendUpdate \/ Reconnect \/ Restart
               \/ \E t, a \in Amounts : SubmitAutoSwap(t, a)
      BY <3>1 DEF PayQRCode, DeactivateAutoSwap, TakeUpdate, SendUpdate, Reconnect, Restart, SubmitAutoSwap
    <3>2. CASE \/ \E s \in Ins : AskRefund(s) \/ AskedRefundBroadcast(s) \/ AskedRefundSaved(s)
               \/ \E s \in Outs : AutoSwapOut(s)
      BY <3>2 DEF AskRefund, AskedRefundBroadcast, AskedRefundSaved, AutoSwapOut
    <3>3. CASE \E s \in Outs : PayerStep(s)
      BY <3>3 DEF PayerStep, LookupPayment, SendPaymentSync, PaymentReturns
    <3>4. CASE \E s \in Swaps : Boltz(s)
      BY <3>4 DEF Boltz, BoltzIn, BoltzOut, ClaimConfirms, Progress
    <3> QED
      BY <1>7, <3>1, <3>2, <3>3, <3>4
  <2> QED
    BY <1>0, <2>1, TabSame
<1>8. CASE \E s \in Swaps : ListenerStep(s)
  <2>1. UNCHANGED swapTab
    BY <1>8 DEF ListenerStep, Ignored, LockupInMempool, InvoicePaid, RefundBroadcast, RefundSaved, SwapInFailed,
       SwapCreated, LockupFound, SwapOutFailed, PaymentError, ClaimBroadcast, ClaimSaved, ClaimTicker, Received
  <2> QED
    BY <1>0, <2>1, TabSame
<1> QED
  BY <1>1, <1>2, <1>3, <1>4, <1>5, <1>6, <1>7, <1>8 DEF SwapsNext, SwapScreensNext

-----------------------------------------------------------------------------
LEMMA InitInv == SwapInit => SwapsInv
<1> SUFFICES ASSUME SwapInit PROVE SwapsInv
  OBVIOUS
<1>1. Typed
  BY TypedInit
<1>2. MessagesSaid
  BY DEF SwapInit, MessagesSaid
<1>3. TabTells
  BY DEF SwapInit, TabTells, Unseen
<1>4. \A s \in Ins : InTells(s)
  BY DEF SwapInit, InTells, InPaid
<1>5. \A s \in Outs : OutTells(s)
  BY DEF SwapInit, OutTells
<1>6. ASSUME NEW s \in Outs PROVE QuietOut(s)
  <2>1. PaidForOnce(s)
    BY DEF SwapInit, PaidForOnce, NewsOnce, News, InHand, InChannel, AtPayers, NoPayers
  <2>2. QuietRest(s)
    BY DEF SwapInit, QuietRest, Locked, NoPayers
  <2> QED
    BY <2>1, <2>2, QuietParts
<1> QED
  BY <1>1, <1>2, <1>3, <1>4, <1>5, <1>6 DEF SwapsInv

LEMMA NextInv == SwapsInv /\ [SwapsNext]_swapVars => SwapsInv'
<1>1. ASSUME SwapsInv, SwapsNext PROVE SwapsInv'
  <2>1. Typed'
    BY <1>1, TypedNext DEF SwapsInv
  <2>2. ASSUME NEW s \in Outs, Quiet' PROVE QuietOut(s)'
    <3>1. PaidForOnce(s)' /\ QuietRest(s)'
      BY <1>1, <2>2, OnceNext, RestNext
    <3> QED
      BY <3>1 DEF QuietOut, QuietRest
  <2> QED
    BY <1>1, <2>1, <2>2, MessagesNext, TabNext, InNext, OutNext DEF SwapsInv
<1>2. ASSUME SwapsInv, UNCHANGED swapVars PROVE SwapsInv'
  <2>0. UNCHANGED <<swap, boltz, chain, lightning, updates, listener, updateCh, hand, payers, asking, autoLoop,
                    swapTab, restarts, reconnects, plan>>
    BY <1>2 DEF swapVars, boltzVars, service, counts
  <2>1. Typed'
    BY <1>2, <2>0 DEF SwapsInv, Typed, RowsTyped, ServiceTyped, QueuesTyped, CountsTyped
  <2>2. MessagesSaid' /\ TabTells'
    BY <1>2, <2>0 DEF SwapsInv, MessagesSaid, TabTells
  <2>3. \A s \in Ins : InTells(s)'
    BY <1>2, <2>0 DEF SwapsInv, InTells
  <2>4. \A s \in Outs : OutTells(s)' /\ (Quiet' => QuietOut(s)')
    BY <1>2, <2>0 DEF SwapsInv, OutTells, Quiet, QuietOut, PaidForOnce, InHand, InChannel, AtPayers
  <2> QED
    BY <2>1, <2>2, <2>3, <2>4 DEF SwapsInv
<1> QED
  BY <1>1, <1>2

LEMMA InvTellsTruth == SwapsInv => SwapTellsTruth
<1> SUFFICES ASSUME SwapsInv PROVE SwapTellsTruth
  OBVIOUS
<1>1. ASSUME NEW s \in Ins
      PROVE  /\ swap[s].state = "SUCCESS" => lightning[s] = "settled" /\ ~chain[s].refund
             /\ swap[s].state = "REFUNDED" \/ swap[s].claim => chain[s].refund
             /\ swap[s].state = "FAILED" /\ chain[s].refund => asking[s] # "never" \/ restarts > 0
  BY DEF SwapsInv, InTells, InPaid, Gone
<1>2. ASSUME NEW s \in Outs
      PROVE  /\ swap[s].state = "SUCCESS" => chain[s].claim = "confirmed"
             /\ swap[s].claim => chain[s].claim # "none"
             /\ swap[s].state = "FAILED" /\ chain[s].claim # "none" => restarts + reconnects > 0
  <2>1. swap[s].state = "FAILED" /\ chain[s].claim # "none" => restarts + reconnects > 0
    <3>1. Quiet => (swap[s].state = "FAILED" => chain[s].claim = "none")
      BY DEF SwapsInv, QuietOut
    <3> QED
      BY <3>1 DEF Quiet, SwapsInv, Typed, CountsTyped
  <2> QED
    BY <2>1 DEF SwapsInv, OutTells
<1>3. ASSUME swapTab.seen # Unseen, swapTab.page = "in"
      PROVE  /\ SwapInStatusText = "Swap Successful" => lightning[swapTab.of] = "settled"
             /\ "refund initiated" \in SwapInSteps => chain[swapTab.of].refund
  <2>1. /\ swapTab.seen.state \in States \ {"NONE"}
        /\ swapTab.seen.state = "SUCCESS" => lightning[swapTab.of] = "settled"
        /\ swapTab.seen.state = "REFUNDED" => chain[swapTab.of].refund
    BY <1>3 DEF SwapsInv, TabTells, Typed, SwapTab, Seen
  <2>2. SwapInStatusText = "Swap Successful" => swapTab.seen.state = "SUCCESS"
    BY <2>1 DEF SwapInStatusText, States
  <2>3. "refund initiated" \in SwapInSteps => swapTab.seen.state = "REFUNDED"
    BY DEF SwapInSteps
  <2> QED
    BY <2>1, <2>2, <2>3
<1>4. ASSUME swapTab.seen # Unseen, swapTab.page = "out"
      PROVE  /\ SwapOutStatusText = "Swap Successful" => chain[swapTab.of].claim = "confirmed"
             /\ "waiting for confirmation" \in SwapOutSteps => chain[swapTab.of].claim # "none"
  <2>1. /\ swapTab.seen.state \in States \ {"NONE", "REFUNDED"}
        /\ swapTab.seen.state = "SUCCESS" => chain[swapTab.of].claim = "confirmed"
        /\ swapTab.seen.claim => chain[swapTab.of].claim # "none"
    BY <1>4 DEF SwapsInv, TabTells, Typed, SwapTab, Seen
  <2>2. SwapOutStatusText = "Swap Successful" => swapTab.seen.state = "SUCCESS"
    BY <2>1 DEF SwapOutStatusText, States
  <2>3. "waiting for confirmation" \in SwapOutSteps => swapTab.seen.claim
    BY DEF SwapOutSteps
  <2> QED
    BY <2>1, <2>2, <2>3
<1> QED
  BY <1>1, <1>2, <1>3, <1>4 DEF SwapTellsTruth

LEMMA SwapsInvariant == SwapsSpec => []SwapsInv
BY InitInv, NextInv, PTL DEF SwapsSpec

(* The variables of the swaps service and its screens have their types.    *)
THEOREM SwapsTypeCorrect == SwapsSpec => []SwapTypeOK
<1>1. SwapsInv => SwapTypeOK
  BY TypedIsTypeOK DEF SwapsInv
<1> QED
  BY <1>1, SwapsInvariant, PTL

(* What the row of a swap and its status page say has happened, through    *)
(* lost updates, refunds the user asks for next to the listener, restarts  *)
(* between a broadcast and its record, and any number of swaps             *)
(* (startSwapInListener, startSwapOutListener, RefundSwap).                *)
THEOREM SwapsTellTheTruth == SwapsSpec => []SwapTellsTruth
BY SwapsInvariant, InvTellsTruth, PTL
=============================================================================
